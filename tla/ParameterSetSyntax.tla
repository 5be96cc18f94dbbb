------------------------- MODULE ParameterSetSyntax -------------------------
(***************************************************************************)
(* parse_sps and parse_pps (src/core/h264_syntax.cpp), next to the syntax  *)
(* tables of H.264 (7.3.2.1, 7.3.2.2) as writers of what they parse.       *)
(***************************************************************************)
EXTENDS SyntaxElements

CONSTANTS
    MaximumCycleLength,     \* maximum_pic_order_cycle_length
    MaximumMapUnitsMinus1   \* maximum_pic_size_in_map_units_minus1

-----------------------------------------------------------------------------
(* skip_scaling_list: deltas are read until the scale becomes zero.        *)
SkipScalingList(parse, size) ==
    LET NextScale(list) ==
          LET read == ReadElements(list.parse, <<AskSe("delta_scale", MinSe, MaxSe)>>)
              next == (list.last + Value(read, "delta_scale")) % 256
          IN  IF list.ended \/ ~ Ok(list.parse) THEN list
              ELSE IF ~ Ok(read) THEN [list EXCEPT !.parse = read]
              ELSE [parse |-> read, ended |-> next = 0,
                    last |-> IF next = 0 THEN list.last ELSE next]
        scales[i \in 0..size] ==
          IF i = 0 THEN [parse |-> parse, last |-> 8, ended |-> FALSE]
          ELSE NextScale(scales[i - 1])
    IN  scales[size].parse

(* The scaling lists of an SPS or a PPS: six small ones, then large ones.  *)
ReadScalingLists(parse, count, flag) ==
    LET List(p, i) ==
          LET present == ReadElements(p, <<AskFlag(flag)>>)
          IN  IF Ok(present) /\ IsSet(present, flag)
              THEN SkipScalingList(present, IF i <= 6 THEN 16 ELSE 64)
              ELSE present
    IN  ReadTimes(parse, count, List)

HasExtendedProfileFields(profile_idc) ==
    profile_idc \in {44, 83, 86, 100, 110, 118, 122, 128, 134, 135, 138, 139, 144, 244}

ChromaFormat(sps) == ValueOr(sps, "chroma_format_idc", 1)

BitDepthLuma(sps) == 8 + ValueOr(sps, "bit_depth_luma_minus8", 0)

(* parse_extended_profile_fields                                           *)
ExtendedProfileFields(parse) ==
    LET chroma == ReadElements(parse, <<AskUe("chroma_format_idc", 3)>>)
        planes == ReadWhen(chroma, ChromaFormat(chroma) = 3,
                           <<AskFlag("separate_colour_plane_flag")>>)
        depths == ReadElements(planes, <<AskUe("bit_depth_luma_minus8", MaxUe),
                                         AskUe("bit_depth_chroma_minus8", MaxUe)>>)
        checked == Require(depths, /\ Value(depths, "bit_depth_luma_minus8") <= 6
                                   /\ Value(depths, "bit_depth_chroma_minus8") <= 6)
        matrix == ReadElements(checked, <<AskFlag("qpprime_y_zero_transform_bypass_flag"),
                                          AskFlag("seq_scaling_matrix_present_flag")>>)
    IN  IF Ok(matrix) /\ IsSet(matrix, "seq_scaling_matrix_present_flag")
        THEN ReadScalingLists(matrix, IF ChromaFormat(matrix) = 3 THEN 12 ELSE 8,
                              "seq_scaling_list_present_flag")
        ELSE matrix

(* parse_picture_order_fields                                              *)
PictureOrderFields(parse) ==
    LET type == ReadElements(parse, <<AskUe("pic_order_cnt_type", 2)>>)
        IsType(n) == Value(type, "pic_order_cnt_type") = n
        lsb == ReadWhen(type, IsType(0), <<AskUe("log2_max_pic_order_cnt_lsb_minus4", 12)>>)
        cycle == ReadWhen(lsb, IsType(1),
                          <<AskFlag("delta_pic_order_always_zero_flag"),
                            AskSe("offset_for_non_ref_pic", MinSe, MaxSe),
                            AskSe("offset_for_top_to_bottom_field", MinSe, MaxSe),
                            AskUe("num_ref_frames_in_pic_order_cnt_cycle",
                                  MaximumCycleLength)>>)
        Offset(p, i) == ReadElements(p, <<AskSe("offset_for_ref_frame", MinSe, MaxSe)>>)
    IN  IF Ok(cycle) /\ IsType(1)
        THEN ReadTimes(cycle, Value(cycle, "num_ref_frames_in_pic_order_cnt_cycle"), Offset)
        ELSE cycle

FrameHeightFactor(sps) == IF IsSet(sps, "frame_mbs_only_flag") THEN 1 ELSE 2

(* coded_width, coded_height, width and height of calculate_dimensions.    *)
(* Its 64-bit products of 32-bit values do not wrap.                       *)
CodedWidth(sps) == (Value(sps, "pic_width_in_mbs_minus1") + 1) * 16

CodedHeight(sps) ==
    FrameHeightFactor(sps) * (Value(sps, "pic_height_in_map_units_minus1") + 1) * 16

ChromaArrayType(sps) ==
    IF IsSet(sps, "separate_colour_plane_flag") THEN 0 ELSE ChromaFormat(sps)

CropUnitX(sps) == IF ChromaArrayType(sps) \in {1, 2} THEN 2 ELSE 1

(* Mutation: all formats are cropped like 4:2:0.                           *)
CropUnitYOf420(sps) == 2 * FrameHeightFactor(sps)

CropUnitY(sps) ==
    IF ChromaArrayType(sps) = 1 THEN 2 * FrameHeightFactor(sps) ELSE FrameHeightFactor(sps)

Cropped(sps, first, second) == ValueOr(sps, first, 0) + ValueOr(sps, second, 0)

HorizontalCrop(sps) ==
    CropUnitX(sps) * Cropped(sps, "frame_crop_left_offset", "frame_crop_right_offset")

VerticalCrop(sps) ==
    CropUnitY(sps) * Cropped(sps, "frame_crop_top_offset", "frame_crop_bottom_offset")

PictureWidth(sps) == CodedWidth(sps) - HorizontalCrop(sps)

PictureHeight(sps) == CodedHeight(sps) - VerticalCrop(sps)

CalculateDimensions(parse) ==
    LET fits == Require(parse, CodedWidth(parse) <= MaxUe /\ CodedHeight(parse) <= MaxUe)
    IN  Require(fits, /\ HorizontalCrop(parse) < CodedWidth(parse)
                      /\ VerticalCrop(parse) < CodedHeight(parse))

ParseSps(rbsp) ==
    LET profile == ReadElements(StartParse(rbsp), <<AskBits("profile_idc", 8, 255),
                                                    AskBits("constraint_flags", 8, 255)>>)
        reserved == Require(profile, Value(profile, "constraint_flags") % 4 = 0)
        id == ReadElements(reserved, <<AskBits("level_idc", 8, 255),
                                       AskUe("seq_parameter_set_id", 31)>>)
        extended == IF Ok(id) /\ HasExtendedProfileFields(Value(id, "profile_idc"))
                    THEN ExtendedProfileFields(id) ELSE id
        frame_num == ReadElements(extended, <<AskUe("log2_max_frame_num_minus4", 12)>>)
        order == PictureOrderFields(frame_num)
        size == ReadElements(order, <<AskUe("max_num_ref_frames", MaxUe),
                                      AskFlag("gaps_in_frame_num_value_allowed_flag"),
                                      AskUe("pic_width_in_mbs_minus1", MaxUe),
                                      AskUe("pic_height_in_map_units_minus1", MaxUe),
                                      AskFlag("frame_mbs_only_flag")>>)
        adaptive == ReadWhen(size, ~ IsSet(size, "frame_mbs_only_flag"),
                             <<AskFlag("mb_adaptive_frame_field_flag")>>)
        cropping == ReadElements(adaptive, <<AskFlag("direct_8x8_inference_flag"),
                                             AskFlag("frame_cropping_flag")>>)
        crop == ReadWhen(cropping, IsSet(cropping, "frame_cropping_flag"),
                         <<AskUe("frame_crop_left_offset", MaxUe),
                           AskUe("frame_crop_right_offset", MaxUe),
                           AskUe("frame_crop_top_offset", MaxUe),
                           AskUe("frame_crop_bottom_offset", MaxUe)>>)
    IN  ReadElements(CalculateDimensions(crop), <<AskFlag("vui_parameters_present_flag")>>)

-----------------------------------------------------------------------------
(* more_rbsp_data: the remaining bits are not just a one and zeros.        *)

(* The bits of the element are a one and zeros.                            *)
IsStop(element) ==
    IF element.code = "u" THEN element.value = 2^(element.size - 1) ELSE element.value = 0

IsZero(element) == element.code = "u" /\ element.value = 0

Remaining(parse) == SubSeq(parse.rbsp, parse.position + 1, Len(parse.rbsp))

(* Mutation: any one bit is taken for the stop bit.                        *)
MoreRbspDataToFirstBit(parse) ==
    Remaining(parse) # <<>> /\ ~ IsStop(Head(Remaining(parse)))

MoreRbspData(parse) ==
    /\ Remaining(parse) # <<>>
    /\ ~ /\ IsStop(Head(Remaining(parse)))
         /\ \A element \in ToSet(Tail(Remaining(parse))) : IsZero(element)

(* consume_rbsp_trailing_bits                                              *)
ConsumeTrailingBits(parse) ==
    LET stop == ReadElements(parse, <<Ask("rbsp_stop_one_bit", "u", 1, 1, 1)>>)
        Alignment(p, i) ==
          ReadElements(p, <<Ask("rbsp_alignment_zero_bit", "u", 1, 0, 0)>>)
    IN  ReadTimes(stop, Len(Remaining(stop)), Alignment)

(* slice_group_id_bit_count *)
SliceGroupIdBitCount(num_slice_groups_minus1) ==
    1 + Cardinality({bit \in 1..ValueWidth : num_slice_groups_minus1 \div 2^bit # 0})

(* The slice group fields of parse_pps.                                    *)
SliceGroupFields(parse) ==
    LET type == ReadElements(parse, <<AskUe("slice_group_map_type", 6)>>)
        groups == Value(type, "num_slice_groups_minus1")
        RunLength(p, i) == ReadElements(p, <<AskUe("run_length_minus1", MaxUe)>>)
        Rectangle(p, i) ==
          LET corners == ReadElements(p, <<AskUe("top_left", MaxUe),
                                           AskUe("bottom_right", MaxUe)>>)
          IN  Require(corners, Value(corners, "top_left") <= Value(corners, "bottom_right"))
        map == ReadElements(type, <<AskUe("pic_size_in_map_units_minus1",
                                          MaximumMapUnitsMinus1)>>)
        GroupId(p, i) ==
          ReadElements(p, <<AskBits("slice_group_id", SliceGroupIdBitCount(groups), groups)>>)
    IN  IF ~ Ok(type) THEN type
        ELSE CASE Value(type, "slice_group_map_type") = 0 ->
                    ReadTimes(type, groups + 1, RunLength)
               [] Value(type, "slice_group_map_type") = 1 -> type
               [] Value(type, "slice_group_map_type") = 2 ->
                    ReadTimes(type, groups, Rectangle)
               [] Value(type, "slice_group_map_type") \in 3..5 ->
                    ReadElements(type, <<AskFlag("slice_group_change_direction_flag"),
                                         AskUe("slice_group_change_rate_minus1", MaxUe)>>)
               [] Value(type, "slice_group_map_type") = 6 ->
                    IF Ok(map)
                    THEN ReadTimes(map, Value(map, "pic_size_in_map_units_minus1") + 1, GroupId)
                    ELSE map

(* The extension of parse_pps behind redundant_pic_cnt_present_flag.       *)
PpsExtension(parse, chroma_format_idc) ==
    LET flags == ReadElements(parse, <<AskFlag("transform_8x8_mode_flag"),
                                       AskFlag("pic_scaling_matrix_present_flag")>>)
        large == IF ~ IsSet(flags, "transform_8x8_mode_flag") THEN 0
                 ELSE IF chroma_format_idc = 3 THEN 6 ELSE 2
        lists == IF Ok(flags) /\ IsSet(flags, "pic_scaling_matrix_present_flag")
                 THEN ReadScalingLists(flags, 6 + large, "pic_scaling_list_present_flag")
                 ELSE flags
    IN  ReadElements(lists, <<AskSe("second_chroma_qp_index_offset", -12, 12)>>)

(* An accepted SPS has a chroma_format_idc of at most 3, so the check of   *)
(* it at the top of parse_pps cannot fail.                                 *)
ParsePps(rbsp, chroma_format_idc) ==
    LET head == ReadElements(StartParse(rbsp),
                  <<AskUe("pic_parameter_set_id", 255),
                    AskUe("seq_parameter_set_id", 31),
                    AskFlag("entropy_coding_mode_flag"),
                    AskFlag("bottom_field_pic_order_in_frame_present_flag"),
                    AskUe("num_slice_groups_minus1", 7)>>)
        groups == IF Ok(head) /\ Value(head, "num_slice_groups_minus1") > 0
                  THEN SliceGroupFields(head) ELSE head
        references == ReadElements(groups,
                        <<AskUe("num_ref_idx_l0_default_active_minus1", MaxUe),
                          AskUe("num_ref_idx_l1_default_active_minus1", MaxUe)>>)
        checked == Require(references,
                     /\ Value(references, "num_ref_idx_l0_default_active_minus1") <= 31
                     /\ Value(references, "num_ref_idx_l1_default_active_minus1") <= 31)
        tail == ReadElements(checked,
                  <<AskFlag("weighted_pred_flag"),
                    AskBits("weighted_bipred_idc", 2, 2),
                    AskSe("pic_init_qp_minus26", -62, 25),
                    AskSe("pic_init_qs_minus26", -26, 25),
                    AskSe("chroma_qp_index_offset", -12, 12),
                    AskFlag("deblocking_filter_control_present_flag"),
                    AskFlag("constrained_intra_pred_flag"),
                    AskFlag("redundant_pic_cnt_present_flag")>>)
        extension == IF Ok(tail) /\ MoreRbspData(tail)
                     THEN PpsExtension(tail, chroma_format_idc) ELSE tail
    IN  ConsumeTrailingBits(extension)

-----------------------------------------------------------------------------
(* The reference: an SPS or PPS to be written is a record with a value for *)
(* every field, those included that its syntax leaves out.  What may be    *)
(* missing as a whole is <<>> or a sequence with one element.  A scaling   *)
(* list is the scales up to where the last one is repeated (none: the      *)
(* default list).                                                          *)

(* 7.3.2.1.1.1 *)
ScalingListElements(scales, size) ==
    LET Delta(i) == (IF i > Len(scales) THEN 0 ELSE scales[i])
                      - (IF i = 1 THEN 8 ELSE scales[i - 1])
        coded == IF Len(scales) < size THEN Len(scales) + 1 ELSE size
    IN  [i \in 1..coded |-> Se("delta_scale", ((Delta(i) + 128) % 256) - 128)]

ScalingMatrixElements(matrix, count, flag) ==
    Repeated(count, LAMBDA i :
      <<Flag(flag, Len(matrix[i]))>>
      \o Optional(matrix[i] # <<>>,
                  ScalingListElements(matrix[i][1], IF i <= 6 THEN 16 ELSE 64)))

HighProfiles == {44, 83, 86, 100, 110, 118, 122, 128, 134, 135, 138, 139, 144, 244}

IsHigh(h) == h.profile_idc \in HighProfiles

HighElements(h) ==
    UesOf(h, <<"chroma_format_idc">>)
    \o Optional(h.chroma_format_idc = 3, FlagsOf(h, <<"separate_colour_plane_flag">>))
    \o UesOf(h, <<"bit_depth_luma_minus8", "bit_depth_chroma_minus8">>)
    \o <<Flag("qpprime_y_zero_transform_bypass_flag", 0),
         Flag("seq_scaling_matrix_present_flag", Len(h.scaling_matrix))>>
    \o Optional(h.scaling_matrix # <<>>,
         ScalingMatrixElements(h.scaling_matrix[1],
                               IF h.chroma_format_idc # 3 THEN 8 ELSE 12,
                               "seq_scaling_list_present_flag"))

OrderElements(h) ==
    CASE h.pic_order_cnt_type = 0 -> UesOf(h, <<"log2_max_pic_order_cnt_lsb_minus4">>)
      [] h.pic_order_cnt_type = 1 ->
           <<Flag("delta_pic_order_always_zero_flag", h.delta_pic_order_always_zero_flag),
             Se("offset_for_non_ref_pic", MinSe), Se("offset_for_top_to_bottom_field", 1),
             Ue("num_ref_frames_in_pic_order_cnt_cycle", h.cycle_length)>>
           \o Repeated(h.cycle_length, LAMBDA i : <<Se("offset_for_ref_frame", -i)>>)
      [] OTHER -> <<>>

(* 7.3.2.1.1 *)
SpsElements(h) ==
    <<U("profile_idc", 8, h.profile_idc), U("constraint_flags", 8, h.constraint_flags),
      U("level_idc", 8, h.level_idc), Ue("seq_parameter_set_id", h.seq_parameter_set_id)>>
    \o Optional(IsHigh(h), HighElements(h))
    \o UesOf(h, <<"log2_max_frame_num_minus4", "pic_order_cnt_type">>)
    \o OrderElements(h)
    \o UesOf(h, <<"max_num_ref_frames">>)
    \o <<Flag("gaps_in_frame_num_value_allowed_flag", 1)>>
    \o UesOf(h, <<"pic_width_in_mbs_minus1", "pic_height_in_map_units_minus1">>)
    \o FlagsOf(h, <<"frame_mbs_only_flag">>)
    \o Optional(h.frame_mbs_only_flag = 0, <<Flag("mb_adaptive_frame_field_flag", 1)>>)
    \o <<Flag("direct_8x8_inference_flag", 1), Flag("frame_cropping_flag", Len(h.crop))>>
    \o Optional(h.crop # <<>>,
         UesOf(h.crop[1], <<"frame_crop_left_offset", "frame_crop_right_offset",
                            "frame_crop_top_offset", "frame_crop_bottom_offset">>))
    \o FlagsOf(h, <<"vui_parameters_present_flag">>)

SliceGroupElements(h) ==
    LET groups == h.num_slice_groups_minus1 + 1
        IdSize == CHOOSE size \in 1..4 : 2^size >= groups /\ 2^size < 2 * groups
    IN  CASE h.slice_group_map_type = 0 ->
               Repeated(groups, LAMBDA i : <<Ue("run_length_minus1", i)>>)
          [] h.slice_group_map_type = 2 ->
               Repeated(groups - 1, LAMBDA i : <<Ue("top_left", h.top_left),
                                                 Ue("bottom_right", i)>>)
          [] h.slice_group_map_type \in {3, 4, 5} ->
               <<Flag("slice_group_change_direction_flag", 1)>>
               \o UesOf(h, <<"slice_group_change_rate_minus1">>)
          [] h.slice_group_map_type = 6 ->
               <<Ue("pic_size_in_map_units_minus1", Len(h.slice_group_ids) - 1)>>
               \o Repeated(Len(h.slice_group_ids), LAMBDA i :
                    <<U("slice_group_id", IdSize, h.slice_group_ids[i])>>)
          [] OTHER -> <<>>

ExtensionElements(extension, chroma_format_idc) ==
    <<Flag("transform_8x8_mode_flag", extension.transform_8x8_mode_flag),
      Flag("pic_scaling_matrix_present_flag", Len(extension.scaling_matrix))>>
    \o Optional(extension.scaling_matrix # <<>>,
         ScalingMatrixElements(extension.scaling_matrix[1],
           6 + (IF chroma_format_idc # 3 THEN 2 ELSE 6) * extension.transform_8x8_mode_flag,
           "pic_scaling_list_present_flag"))
    \o SesOf(extension, <<"second_chroma_qp_index_offset">>)

(* 7.3.2.2 *)
PpsElements(h, chroma_format_idc) ==
    UesOf(h, <<"pic_parameter_set_id", "seq_parameter_set_id">>)
    \o FlagsOf(h, <<"entropy_coding_mode_flag",
                    "bottom_field_pic_order_in_frame_present_flag">>)
    \o UesOf(h, <<"num_slice_groups_minus1">>)
    \o Optional(h.num_slice_groups_minus1 > 0,
         UesOf(h, <<"slice_group_map_type">>) \o SliceGroupElements(h))
    \o UesOf(h, <<"num_ref_idx_l0_default_active_minus1",
                  "num_ref_idx_l1_default_active_minus1">>)
    \o FlagsOf(h, <<"weighted_pred_flag">>)
    \o <<U("weighted_bipred_idc", 2, h.weighted_bipred_idc)>>
    \o SesOf(h, <<"pic_init_qp_minus26", "pic_init_qs_minus26", "chroma_qp_index_offset">>)
    \o FlagsOf(h, <<"deblocking_filter_control_present_flag",
                    "constrained_intra_pred_flag", "redundant_pic_cnt_present_flag">>)
    \o Optional(h.extension # <<>>, ExtensionElements(h.extension[1], chroma_format_idc))
    \o <<Flag("rbsp_stop_one_bit", 1)>>
    \o Repeated(h.alignment, LAMBDA i : <<Flag("rbsp_alignment_zero_bit", 0)>>)

-----------------------------------------------------------------------------
(* What the semantics (7.4.2.1, 7.4.2.2) and Table 6-1 say of the fields.  *)

EffectiveChromaFormat(h) == IF IsHigh(h) THEN h.chroma_format_idc ELSE 1

IsSeparate(h) ==
    IsHigh(h) /\ h.chroma_format_idc = 3 /\ h.separate_colour_plane_flag = 1

(* Luma samples per chroma sample, and 1 where there is no chroma.         *)
SubWidthC(h) == IF EffectiveChromaFormat(h) \in {1, 2} THEN 2 ELSE 1

SubHeightC(h) == IF EffectiveChromaFormat(h) = 1 THEN 2 ELSE 1

FieldsPerFrame(h) == 2 - h.frame_mbs_only_flag

FrameWidth(h) == 16 * h.pic_width_in_mbs_minus1 + 16

FrameHeight(h) == 16 * FieldsPerFrame(h) * (h.pic_height_in_map_units_minus1 + 1)

(* The luma rows and columns inside the cropping rectangle.                *)
Columns(h) ==
    LET Edge(offset) == SubWidthC(h) * offset
    IN  IF h.crop = <<>> THEN FrameWidth(h)
        ELSE FrameWidth(h) - Edge(h.crop[1].frame_crop_right_offset)
                           - Edge(h.crop[1].frame_crop_left_offset)

Rows(h) ==
    LET Edge(offset) == FieldsPerFrame(h) * SubHeightC(h) * offset
    IN  IF h.crop = <<>> THEN FrameHeight(h)
        ELSE FrameHeight(h) - Edge(h.crop[1].frame_crop_bottom_offset)
                            - Edge(h.crop[1].frame_crop_top_offset)

(* The parameter sets within the limits of the parsers: the ranges of      *)
(* H.264, in places wider (README, 6), and the code's limits on sizes.     *)
IsLegalSps(h) ==
    /\ h.constraint_flags % 4 = 0
    /\ h.seq_parameter_set_id <= 31
    /\ IsHigh(h) => /\ h.chroma_format_idc <= 3
                    /\ {h.bit_depth_luma_minus8, h.bit_depth_chroma_minus8} \subseteq 0..6
    /\ h.log2_max_frame_num_minus4 <= 12
    /\ h.pic_order_cnt_type <= 2
    /\ h.pic_order_cnt_type = 0 => h.log2_max_pic_order_cnt_lsb_minus4 <= 12
    /\ h.pic_order_cnt_type = 1 => h.cycle_length <= MaximumCycleLength
    /\ {FrameWidth(h), FrameHeight(h)} \subseteq 0..MaxUe
    /\ Columns(h) >= 1 /\ Rows(h) >= 1

IsLegalPps(h) ==
    /\ h.pic_parameter_set_id <= 255
    /\ h.seq_parameter_set_id <= 31
    /\ h.num_slice_groups_minus1 <= 7
    /\ h.num_slice_groups_minus1 > 0 =>
         /\ h.slice_group_map_type <= 6
         /\ h.slice_group_map_type = 2 => h.top_left <= 1
         /\ h.slice_group_map_type = 6 =>
              /\ Len(h.slice_group_ids) <= MaximumMapUnitsMinus1 + 1
              /\ \A i \in DOMAIN h.slice_group_ids :
                   h.slice_group_ids[i] <= h.num_slice_groups_minus1
    /\ h.num_ref_idx_l0_default_active_minus1 <= 31
    /\ h.num_ref_idx_l1_default_active_minus1 <= 31
    /\ h.weighted_bipred_idc # 3
    /\ h.pic_init_qp_minus26 \in (-26 - 6 * 6)..25
    /\ h.pic_init_qs_minus26 \in -26..25
    /\ h.chroma_qp_index_offset \in -12..12
    /\ h.extension # <<>> => h.extension[1].second_chroma_qp_index_offset \in -12..12
=============================================================================
