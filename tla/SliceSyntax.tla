----------------------------- MODULE SliceSyntax -----------------------------
(***************************************************************************)
(* parse_slice_header (src/core/slice.cpp) behind parse_sps and parse_pps: *)
(* the layout of a slice header depends on both parameter sets, so its     *)
(* parser takes the parses of the SPS and the PPS that the registry holds. *)
(***************************************************************************)
EXTENDS ParameterSetSyntax

CONSTANTS
    MaximumOperations   \* maximum_memory_management_operations

ASSUME SliceSyntaxAssumption == MaximumOperations \in Nat

NotFound(parse) == Fail(parse, "parameter_set_not_found")

-----------------------------------------------------------------------------
(* The slice types after % 5: P, B, I, SP, SI.                             *)
IsB(type) == type = 1

IsSp(type) == type = 3

IsSi(type) == type = 4

IsIntraSlice(type) == type \in {2, 4}

UsesReferenceLists(type) == type \in {0, 1, 3}

TypeOf(parse) == Value(parse, "slice_type") % 5

(* The fields of the lists L0 and L1.                                      *)
ActiveField == <<"num_ref_idx_l0_active_minus1", "num_ref_idx_l1_active_minus1">>

DefaultActiveField ==
    <<"num_ref_idx_l0_default_active_minus1", "num_ref_idx_l1_default_active_minus1">>

ModificationFlag ==
    <<"ref_pic_list_modification_flag_l0", "ref_pic_list_modification_flag_l1">>

(* num_ref_idx_lX_active_minus1, from the slice or from its PPS.           *)
ActiveMinus1(parse, pps, list) ==
    ValueOr(parse, ActiveField[list], Value(pps, DefaultActiveField[list]))

(* parse_reference_picture_list_modifications                              *)
Modifications(parse, active_minus1) ==
    LET Idc(p) == Value(p, "modification_of_pic_nums_idc")
        Round(p, i) ==
          LET idc == ReadElements(p, <<AskUe("modification_of_pic_nums_idc", 3)>>)
              allowed == Require(idc, IF Idc(idc) = 3 THEN i # 1 ELSE i <= active_minus1 + 1)
              difference == ReadWhen(allowed, Idc(allowed) \in {0, 1},
                                     <<AskUe("abs_diff_pic_num_minus1", MaxUe)>>)
          IN  IF i > 1 /\ Idc(p) = 3 THEN p
              ELSE ReadWhen(difference, Idc(difference) = 2,
                            <<AskUe("long_term_pic_num", MaxUe)>>)
    IN  ReadTimes(parse, active_minus1 + 2, Round)

ListModifications(parse, pps, list) ==
    LET flag == ModificationFlag[list]
        read == ReadElements(parse, <<AskFlag(flag)>>)
    IN  IF Ok(read) /\ IsSet(read, flag)
        THEN Modifications(read, ActiveMinus1(read, pps, list)) ELSE read

(* parse_prediction_weight_list                                            *)
PredictionWeights(parse, active_minus1, has_chroma) ==
    LET Weight(p, i) ==
          LET luma_flag == ReadElements(p, <<AskFlag("luma_weight_flag")>>)
              luma == ReadWhen(luma_flag, IsSet(luma_flag, "luma_weight_flag"),
                               <<AskSe("luma_weight", -128, 127),
                                 AskSe("luma_offset", -128, 127)>>)
              chroma_flag == ReadWhen(luma, has_chroma, <<AskFlag("chroma_weight_flag")>>)
          IN  ReadWhen(chroma_flag, has_chroma /\ IsSet(chroma_flag, "chroma_weight_flag"),
                       <<AskSe("chroma_weight", -128, 127), AskSe("chroma_offset", -128, 127),
                         AskSe("chroma_weight", -128, 127), AskSe("chroma_offset", -128, 127)>>)
    IN  ReadTimes(parse, active_minus1 + 1, Weight)

(* parse_decoded_reference_picture_marking                                 *)
Occurrences(parse, field, value) ==
    Cardinality({i \in DOMAIN parse.read :
                   parse.read[i] = [field |-> field, value |-> value]})

MemoryManagement(parse) ==
    LET name == "memory_management_control_operation"
        Operation(p) == Value(p, name)
        Round(p, i) ==
          LET read == ReadElements(p, <<AskUe(name, 6)>>)
              op == Operation(read)
              allowed == Require(read, op # 0 =>
                           /\ i <= MaximumOperations
                           /\ op \in {4, 5, 6} => Occurrences(read, name, op) = 1)
              difference == ReadWhen(allowed, op \in {1, 3},
                                     <<AskUe("difference_of_pic_nums_minus1", MaxUe)>>)
              number == ReadWhen(difference, op = 2, <<AskUe("long_term_pic_num", MaxUe)>>)
              index == ReadWhen(number, op \in {3, 6},
                                <<AskUe("long_term_frame_idx", MaxUe)>>)
          IN  IF i > 1 /\ Operation(p) = 0 THEN p
              ELSE ReadWhen(index, op = 4, <<AskUe("max_long_term_frame_idx_plus1", MaxUe)>>)
    IN  ReadTimes(parse, MaximumOperations + 1, Round)

ReferencePictureMarking(parse, nal, sps) ==
    LET idr == ReadElements(parse, <<AskFlag("no_output_of_prior_pics_flag"),
                                     AskFlag("long_term_reference_flag")>>)
        adaptive == ReadElements(parse, <<AskFlag("adaptive_ref_pic_marking_mode_flag")>>)
    IN  IF ~ Ok(parse) \/ nal.nal_ref_idc = 0 THEN parse
        ELSE IF nal.nal_unit_type = 5
        THEN Require(idr, ~ /\ Value(sps, "max_num_ref_frames") = 0
                            /\ IsSet(idr, "long_term_reference_flag"))
        ELSE IF Ok(adaptive) /\ IsSet(adaptive, "adaptive_ref_pic_marking_mode_flag")
        THEN MemoryManagement(adaptive)
        ELSE adaptive

-----------------------------------------------------------------------------
(* The groups of fields of parse_slice_header, in their order.             *)

(* From colour_plane_id to idr_pic_id.                                     *)
PictureFields(parse, nal, sps) ==
    LET idr == nal.nal_unit_type = 5
        plane == ReadWhen(parse, IsSet(sps, "separate_colour_plane_flag"),
                          <<AskBits("colour_plane_id", 2, 2)>>)
        frame_num == ReadElements(plane,
          <<AskBits("frame_num", Value(sps, "log2_max_frame_num_minus4") + 4, MaxUe)>>)
        checked == Require(frame_num,
          /\ idr => /\ nal.nal_ref_idc # 0
                    /\ IsIntraSlice(TypeOf(parse))
                    /\ Value(frame_num, "frame_num") = 0
          /\ Value(sps, "max_num_ref_frames") = 0 => IsIntraSlice(TypeOf(parse)))
        field == ReadWhen(checked, ~ IsSet(sps, "frame_mbs_only_flag"),
                          <<AskFlag("field_pic_flag")>>)
        bottom == ReadWhen(field, IsSet(field, "field_pic_flag"),
                           <<AskFlag("bottom_field_flag")>>)
    IN  ReadWhen(bottom, idr, <<AskUe("idr_pic_id", 65535)>>)

OrderFields(parse, sps, pps) ==
    LET type == Value(sps, "pic_order_cnt_type")
        both == /\ IsSet(pps, "bottom_field_pic_order_in_frame_present_flag")
                /\ ~ IsSet(parse, "field_pic_flag")
        lsb == ReadWhen(parse, type = 0,
          <<AskBits("pic_order_cnt_lsb",
                    Value(sps, "log2_max_pic_order_cnt_lsb_minus4") + 4, MaxUe)>>)
        bottom == ReadWhen(lsb, type = 0 /\ both,
                           <<AskSe("delta_pic_order_bottom", MinSe, MaxSe)>>)
        deltas == type = 1 /\ ~ IsSet(sps, "delta_pic_order_always_zero_flag")
        first == ReadWhen(bottom, deltas, <<AskSe("delta_pic_order_cnt0", MinSe, MaxSe)>>)
        second == ReadWhen(first, deltas /\ both,
                           <<AskSe("delta_pic_order_cnt1", MinSe, MaxSe)>>)
    IN  ReadWhen(second, IsSet(pps, "redundant_pic_cnt_present_flag"),
                 <<AskUe("redundant_pic_cnt", 127)>>)

ReferenceFields(parse, pps) ==
    LET type == TypeOf(parse)
        flag == ReadElements(ReadWhen(parse, IsB(type), <<AskFlag("direct_spatial_mv_pred_flag")>>),
                             <<AskFlag("num_ref_idx_active_override_flag")>>)
        override == IsSet(flag, "num_ref_idx_active_override_flag")
        l0 == ReadWhen(flag, override, <<AskUe(ActiveField[1], MaxUe)>>)
        l1 == ReadWhen(l0, override /\ IsB(type),
                       <<AskUe(ActiveField[2], MaxUe)>>)
        checked == Require(l1, /\ ActiveMinus1(l1, pps, 1) <= 31
                               /\ IsB(type) => ActiveMinus1(l1, pps, 2) <= 31)
        list0 == ListModifications(checked, pps, 1)
    IN  IF ~ Ok(parse) \/ ~ UsesReferenceLists(type) THEN parse
        ELSE IF Ok(list0) /\ IsB(type)
        THEN ListModifications(list0, pps, 2)
        ELSE list0

HasWeights(parse, pps) ==
    \/ IsSet(pps, "weighted_pred_flag") /\ TypeOf(parse) \in {0, 3}
    \/ Value(pps, "weighted_bipred_idc") = 1 /\ IsB(TypeOf(parse))

WeightFields(parse, sps, pps) ==
    LET has_chroma == /\ ~ IsSet(sps, "separate_colour_plane_flag")
                      /\ ChromaFormat(sps) # 0
        luma == ReadElements(parse, <<AskUe("luma_log2_weight_denom", 7)>>)
        chroma == ReadWhen(luma, has_chroma, <<AskUe("chroma_log2_weight_denom", 7)>>)
        Weights(p, list) ==
          IF Ok(p) THEN PredictionWeights(p, ActiveMinus1(p, pps, list), has_chroma) ELSE p
        weights_l0 == Weights(chroma, 1)
    IN  IF ~ Ok(parse) \/ ~ HasWeights(parse, pps) THEN parse
        ELSE IF IsB(TypeOf(parse)) THEN Weights(weights_l0, 2) ELSE weights_l0

(* cabac_init_idc, the quantizers and the deblocking filter.               *)
QuantizerFields(parse, sps, pps) ==
    LET type == TypeOf(parse)
        cabac == ReadWhen(parse, IsSet(pps, "entropy_coding_mode_flag") /\ ~ IsIntraSlice(type),
                          <<AskUe("cabac_init_idc", 2)>>)
        initial == 26 + Value(pps, "pic_init_qp_minus26")
        qp == ReadElements(cabac,
                <<AskSe("slice_qp_delta", -6 * (BitDepthLuma(sps) - 8) - initial, 51 - initial)>>)
        switch == ReadWhen(qp, IsSp(type), <<AskFlag("sp_for_switch_flag")>>)
        initial_qs == 26 + Value(pps, "pic_init_qs_minus26")
        qs == ReadWhen(switch, IsSp(type) \/ IsSi(type),
                       <<AskSe("slice_qs_delta", -initial_qs, 51 - initial_qs)>>)
        filter == ReadWhen(qs, IsSet(pps, "deblocking_filter_control_present_flag"),
                           <<AskUe("disable_deblocking_filter_idc", 2)>>)
    IN  ReadWhen(filter, ValueOr(filter, "disable_deblocking_filter_idc", 1) # 1,
                 <<AskSe("slice_alpha_c0_offset_div2", -6, 6),
                   AskSe("slice_beta_offset_div2", -6, 6)>>)

(* ceil_log2 *)
CeilLog2(value) == Cardinality({bit \in 0..ValueWidth : (value - 1) \div 2^bit # 0})

(* slice_group_change_cycle                                                *)

(* Mutation: the last group that does not fill a cycle is forgotten.       *)
MaximumCycleOfWholeRates(size, rate) == size \div rate

MaximumCycle(size, rate) == size \div rate + (IF size % rate # 0 THEN 1 ELSE 0)

ChangeCycle(parse, sps, pps) ==
    LET size == (CodedWidth(sps) \div 16) * (CodedHeight(sps) \div (16 * FrameHeightFactor(sps)))
        maximum == MaximumCycle(size, Value(pps, "slice_group_change_rate_minus1") + 1)
        changes == /\ Value(pps, "num_slice_groups_minus1") > 0
                   /\ Value(pps, "slice_group_map_type") \in 3..5
    IN  ReadWhen(Require(parse, changes => maximum <= MaxUe), changes,
                 <<AskBits("slice_group_change_cycle", CeilLog2(maximum + 1), maximum)>>)

ParseSliceHeader(rbsp, nal, sps, pps) ==
    LET head == ReadElements(StartParse(rbsp), <<AskUe("first_mb_in_slice", MaxUe),
                                                 AskUe("slice_type", 9),
                                                 AskUe("pic_parameter_set_id", 255)>>)
        picture == PictureFields(head, nal, sps)
        order == IF Ok(picture) THEN OrderFields(picture, sps, pps) ELSE picture
        references == ReferenceFields(order, pps)
        weights == WeightFields(references, sps, pps)
        marking == ReferencePictureMarking(weights, nal, sps)
        quantizers == IF Ok(marking) THEN QuantizerFields(marking, sps, pps) ELSE marking
    IN  IF nal.nal_unit_type \notin {1, 5} THEN Fail(StartParse(rbsp), "invalid")
        ELSE IF ~ Ok(head) THEN head
        ELSE IF \/ ~ Ok(pps) \/ ~ Ok(sps)
                \/ Value(pps, "pic_parameter_set_id") # Value(head, "pic_parameter_set_id")
             THEN NotFound(head)
        ELSE ChangeCycle(quantizers, sps, pps)
=============================================================================
