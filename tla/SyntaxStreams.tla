---------------------------- MODULE SyntaxStreams ----------------------------
(***************************************************************************)
(* Streams of an SPS, a PPS and a slice through the three parsers, in the  *)
(* order and with the look-ups of H264StreamModel::push                    *)
(* (src/core/h264_stream_model.cpp), and what H.264 says of slice headers. *)
(***************************************************************************)
EXTENDS SliceSyntax

CONSTANTS
    StreamGroups   \* sets of records [sps, pps, slice] of what may be written

VARIABLES
    stream,   \* what has been written
    parses    \* the results for its NAL units, in their order

syntaxVars == <<stream, parses>>

-----------------------------------------------------------------------------
(* 7.3.3: the writer of a slice header g for the SPS h and the PPS p.      *)

Type(g) == g.slice_type % 5

Inter(g) == Type(g) \notin {2, 4}

Idr(g) == g.nal_unit_type = 5

(* The lists of a slice, and how many references each has.                 *)
Lists(g) == IF Type(g) = 1 THEN 1..2 ELSE 1..1

Active(g, p, list) ==
    IF g.override = <<>> THEN p[DefaultActiveField[list]] ELSE g.override[1][list]

OrderingElements(g, h, p) ==
    LET frame == p.bottom_field_pic_order_in_frame_present_flag = 1
                   /\ (h.frame_mbs_only_flag = 1 \/ g.field_pic_flag = 0)
    IN  CASE h.pic_order_cnt_type = 0 ->
               <<U("pic_order_cnt_lsb", 4 + h.log2_max_pic_order_cnt_lsb_minus4,
                   g.pic_order_cnt_lsb)>>
               \o Optional(frame, SesOf(g, <<"delta_pic_order_bottom">>))
          [] h.pic_order_cnt_type = 1 /\ h.delta_pic_order_always_zero_flag = 0 ->
               SesOf(g, IF frame THEN <<"delta_pic_order_cnt0", "delta_pic_order_cnt1">>
                        ELSE <<"delta_pic_order_cnt0">>)
          [] OTHER -> <<>>

(* A modification is [idc, value]; the list of them ends with idc 3.       *)
ModificationElements(modifications) ==
    Repeated(Len(modifications), LAMBDA i :
      <<Ue("modification_of_pic_nums_idc", modifications[i].idc),
        Ue(IF modifications[i].idc = 2 THEN "long_term_pic_num"
           ELSE "abs_diff_pic_num_minus1", modifications[i].value)>>)
    \o <<Ue("modification_of_pic_nums_idc", 3)>>

ListElements(g) ==
    Repeated(Cardinality(Lists(g)), LAMBDA list :
      LET modifications == g.modifications[list]
      IN  <<Flag(ModificationFlag[list], Len(modifications))>>
          \o Optional(modifications # <<>>, ModificationElements(modifications[1])))

Weighted(g, p) ==
    \/ Type(g) \in {0, 3} /\ p.weighted_pred_flag = 1
    \/ Type(g) = 1 /\ p.weighted_bipred_idc = 1

HasChroma(h) == ~ IsSeparate(h) /\ EffectiveChromaFormat(h) > 0

(* Every second entry has a luma weight, every third one chroma weights.   *)
WeightElements(g, h, p) ==
    LET Entry(i) ==
          <<Flag("luma_weight_flag", i % 2)>>
          \o Optional(i % 2 = 1, <<Se("luma_weight", g.luma_weight), Se("luma_offset", -i)>>)
          \o Optional(HasChroma(h), <<Flag("chroma_weight_flag", IF i % 3 = 0 THEN 1 ELSE 0)>>)
          \o Optional(HasChroma(h) /\ i % 3 = 0,
               <<Se("chroma_weight", 127), Se("chroma_offset", -128),
                 Se("chroma_weight", i), Se("chroma_offset", g.chroma_offset)>>)
    IN  UesOf(g, <<"luma_log2_weight_denom">>)
        \o Optional(HasChroma(h), UesOf(g, <<"chroma_log2_weight_denom">>))
        \o Repeated(Cardinality(Lists(g)), LAMBDA list :
             Repeated(Active(g, p, list) + 1, Entry))

(* The operands of a memory management control operation.                  *)
Operands(op) ==
    CASE op = 1 -> <<"difference_of_pic_nums_minus1">>
      [] op = 2 -> <<"long_term_pic_num">>
      [] op = 3 -> <<"difference_of_pic_nums_minus1", "long_term_frame_idx">>
      [] op = 4 -> <<"max_long_term_frame_idx_plus1">>
      [] op = 6 -> <<"long_term_frame_idx">>
      [] OTHER -> <<>>

MarkingElements(g) ==
    IF Idr(g)
    THEN FlagsOf(g, <<"no_output_of_prior_pics_flag", "long_term_reference_flag">>)
    ELSE <<Flag("adaptive_ref_pic_marking_mode_flag", Len(g.operations))>>
         \o Optional(g.operations # <<>>,
              LET operations == Append(g.operations[1], 0)
              IN  Repeated(Len(operations), LAMBDA i :
                    <<Ue("memory_management_control_operation", operations[i])>>
                    \o [n \in DOMAIN Operands(operations[i]) |->
                          Ue(Operands(operations[i])[n], i + n)]))

(* PicSizeInMapUnits and SliceGroupChangeRate.                             *)
MapUnits(h) == (h.pic_width_in_mbs_minus1 + 1) * (h.pic_height_in_map_units_minus1 + 1)

ChangeRate(p) == p.slice_group_change_rate_minus1 + 1

Evolves(p) == p.num_slice_groups_minus1 > 0 /\ p.slice_group_map_type \in {3, 4, 5}

(* Ceil(Log2(PicSizeInMapUnits / SliceGroupChangeRate + 1)) bits, where /  *)
(* does not round.                                                         *)
CycleSize(h, p) ==
    CHOOSE size \in 0..(ValueWidth + 10) :
      /\ 2^size * ChangeRate(p) >= MapUnits(h) + ChangeRate(p)
      /\ \A smaller \in 0..(size - 1) :
           2^smaller * ChangeRate(p) < MapUnits(h) + ChangeRate(p)

SliceElements(g, h, p) ==
    UesOf(g, <<"first_mb_in_slice", "slice_type", "pic_parameter_set_id">>)
    \o Optional(IsSeparate(h), <<U("colour_plane_id", 2, g.colour_plane_id)>>)
    \o <<U("frame_num", h.log2_max_frame_num_minus4 + 4, g.frame_num)>>
    \o Optional(h.frame_mbs_only_flag = 0,
         FlagsOf(g, IF g.field_pic_flag = 1 THEN <<"field_pic_flag", "bottom_field_flag">>
                    ELSE <<"field_pic_flag">>))
    \o Optional(Idr(g), UesOf(g, <<"idr_pic_id">>))
    \o OrderingElements(g, h, p)
    \o Optional(p.redundant_pic_cnt_present_flag = 1, UesOf(g, <<"redundant_pic_cnt">>))
    \o Optional(Type(g) = 1, <<Flag("direct_spatial_mv_pred_flag", 1)>>)
    \o Optional(Inter(g),
         <<Flag("num_ref_idx_active_override_flag", Len(g.override))>>
         \o Optional(g.override # <<>>,
              Repeated(Cardinality(Lists(g)), LAMBDA list :
                <<Ue(ActiveField[list], g.override[1][list])>>))
         \o ListElements(g))
    \o Optional(Weighted(g, p), WeightElements(g, h, p))
    \o Optional(g.nal_ref_idc # 0, MarkingElements(g))
    \o Optional(Inter(g) /\ p.entropy_coding_mode_flag = 1, UesOf(g, <<"cabac_init_idc">>))
    \o SesOf(g, <<"slice_qp_delta">>)
    \o Optional(Type(g) = 3, <<Flag("sp_for_switch_flag", 0)>>)
    \o Optional(Type(g) \in {3, 4}, SesOf(g, <<"slice_qs_delta">>))
    \o Optional(p.deblocking_filter_control_present_flag = 1,
         UesOf(g, <<"disable_deblocking_filter_idc">>)
         \o Optional(g.disable_deblocking_filter_idc # 1,
              SesOf(g, <<"slice_alpha_c0_offset_div2", "slice_beta_offset_div2">>)))
    \o Optional(Evolves(p), <<U("slice_group_change_cycle", CycleSize(h, p),
                                g.slice_group_change_cycle)>>)

-----------------------------------------------------------------------------
(* The values the fields may have: those of 7.4.3 as far as the code       *)
(* enforces them.  Up to 32 active references are allowed to frames too,   *)
(* and the size of an explicit list, MaximumOperations and the ValueWidth  *)
(* bits of the cycle are limits of the code alone.                         *)
IsLegalReferences(g, p) ==
    \A list \in Lists(g) :
      /\ Active(g, p, list) <= 31
      /\ g.modifications[list] # <<>> =>
           LET modifications == g.modifications[list][1]
           IN  /\ Len(modifications) \in 1..(Active(g, p, list) + 1)
               /\ \A j \in DOMAIN modifications : modifications[j].idc <= 2

IsLegalMarking(g, h) ==
    /\ Idr(g) => ~ (g.long_term_reference_flag = 1 /\ h.max_num_ref_frames = 0)
    /\ ~ Idr(g) /\ g.operations # <<>> =>
         LET operations == g.operations[1]
         IN  /\ Len(operations) <= MaximumOperations
             /\ ToSet(operations) \subseteq 1..6
             /\ \A i, j \in DOMAIN operations :
                  operations[i] = operations[j] /\ operations[i] >= 4 => i = j

IsLegalSlice(g, h, p) ==
    /\ g.nal_unit_type \in {1, 5}
    /\ g.slice_type <= 9
    /\ g.pic_parameter_set_id = p.pic_parameter_set_id
    /\ IsSeparate(h) => g.colour_plane_id # 3
    /\ Idr(g) => g.nal_ref_idc # 0 /\ ~ Inter(g) /\ g.frame_num = 0 /\ g.idr_pic_id < 2^16
    /\ h.max_num_ref_frames = 0 => ~ Inter(g)
    /\ p.redundant_pic_cnt_present_flag = 1 => g.redundant_pic_cnt < 2^7
    /\ Inter(g) => IsLegalReferences(g, p)
    /\ Weighted(g, p) => /\ {g.luma_weight, g.chroma_offset} \subseteq -128..127
                         /\ g.luma_log2_weight_denom < 8
                         /\ HasChroma(h) => g.chroma_log2_weight_denom < 8
    /\ g.nal_ref_idc # 0 => IsLegalMarking(g, h)
    /\ Inter(g) /\ p.entropy_coding_mode_flag = 1 => g.cabac_init_idc # 3
    /\ LET depth == IF IsHigh(h) THEN h.bit_depth_luma_minus8 ELSE 0
       IN  g.slice_qp_delta + p.pic_init_qp_minus26 + 26 \in (-6 * depth)..51
    /\ Type(g) \in {3, 4} => g.slice_qs_delta + p.pic_init_qs_minus26 + 26 \in 0..51
    /\ p.deblocking_filter_control_present_flag = 1 =>
         /\ g.disable_deblocking_filter_idc # 3
         /\ g.disable_deblocking_filter_idc # 1 =>
              {g.slice_alpha_c0_offset_div2, g.slice_beta_offset_div2} \subseteq -6..6
    /\ Evolves(p) => /\ (g.slice_group_change_cycle - 1) * ChangeRate(p) < MapUnits(h)
                     /\ CycleSize(h, p) <= ValueWidth

-----------------------------------------------------------------------------
SyntaxInit(written_stream) ==
    /\ stream = written_stream
    /\ parses = <<>>

(* What follows the header: VUI parameters, or slice data.                 *)
WithRest(elements) == Append(elements, U("rest", 8, 129))

ParseSpsUnit ==
    /\ parses = <<>>
    /\ parses' = <<ParseSps(WithRest(SpsElements(stream.sps)))>>
    /\ UNCHANGED stream

(* The identifiers first, for the chroma format of the SPS.                *)
ParsePpsUnit ==
    LET rbsp == PpsElements(stream.pps, EffectiveChromaFormat(stream.sps))
        ids == ReadElements(StartParse(rbsp), <<AskUe("pic_parameter_set_id", MaxUe),
                                                AskUe("seq_parameter_set_id", MaxUe)>>)
        found == /\ Ok(parses[1])
                 /\ Value(parses[1], "seq_parameter_set_id") = Value(ids, "seq_parameter_set_id")
    IN  /\ Len(parses) = 1
        /\ parses' = Append(parses, IF found THEN ParsePps(rbsp, ChromaFormat(parses[1]))
                                    ELSE NotFound(ids))
        /\ UNCHANGED stream

ParseSliceUnit ==
    LET rbsp == WithRest(SliceElements(stream.slice, stream.sps, stream.pps))
    IN  /\ Len(parses) = 2
        /\ parses' = Append(parses,
                            ParseSliceHeader(rbsp, stream.slice, parses[1], parses[2]))
        /\ UNCHANGED stream

SyntaxNext == ParseSpsUnit \/ ParsePpsUnit \/ ParseSliceUnit

-----------------------------------------------------------------------------
HasPps == IsLegalSps(stream.sps) /\ IsLegalPps(stream.pps)
            /\ stream.pps.seq_parameter_set_id = stream.sps.seq_parameter_set_id

(* parse_sps and parse_pps read back every field of a parameter set within *)
(* their limits, whatever its profile, lists, slice groups and extension,  *)
(* and reject all others; a PPS is read to the end of its RBSP.  The       *)
(* limits are the code's, in places wider than H.264's (README, 6).        *)
ParameterSetsAreRecovered ==
    /\ Len(parses) >= 1 =>
         Recovered(parses[1], SpsElements(stream.sps), IsLegalSps(stream.sps))
    /\ Len(parses) >= 2 =>
         /\ Recovered(parses[2], PpsElements(stream.pps, EffectiveChromaFormat(stream.sps)),
                      HasPps)
         /\ HasPps => parses[2].position = Len(parses[2].rbsp)

(* The size in the report is the number of luma samples that are left in   *)
(* the cropping rectangle of an accepted SPS, for all chroma formats,      *)
(* separate planes and field coding, and there is at least one of them.    *)
PictureSizeIsExact ==
    Len(parses) >= 1 /\ Ok(parses[1]) =>
      /\ PictureWidth(parses[1]) = Columns(stream.sps)
      /\ PictureHeight(parses[1]) = Rows(stream.sps)
      /\ PictureWidth(parses[1]) \in 1..MaxUe /\ PictureHeight(parses[1]) \in 1..MaxUe

(* parse_slice_header reads back every slice header within the limits it   *)
(* sets, given its parameter sets, up to where the slice data begins, and  *)
(* rejects all others; what it cannot look up it reports as such.  Some    *)
(* slice headers that H.264 forbids are within these limits.               *)
SliceHeadersAreRecovered ==
    Len(parses) = 3 =>
      LET elements == SliceElements(stream.slice, stream.sps, stream.pps)
          legal == HasPps /\ IsLegalSlice(stream.slice, stream.sps, stream.pps)
      IN  /\ Recovered(parses[3], elements, legal)
          /\ legal => parses[3].position = Len(elements)
          /\ parses[3].error = "parameter_set_not_found" <=>
               /\ stream.slice.nal_unit_type \in {1, 5}
               /\ stream.slice.slice_type <= 9 /\ stream.slice.pic_parameter_set_id <= 255
               /\ HasPps =>
                    stream.slice.pic_parameter_set_id # stream.pps.pic_parameter_set_id
=============================================================================
