------------------------------ MODULE MCParsers ------------------------------
(* Constants of the TLC run of Parsers.                                 *)
EXTENDS Parsers

(* The bytes the scanner and the converter tell apart; the header byte     *)
(* stands for all others.                                                  *)
MCBytes == {0, 1, 3}

-----------------------------------------------------------------------------
(* The streams: a legal SPS, PPS and slice, and groups of fields that are  *)
(* varied together, up to and past their limits.                           *)
MCSps ==
    [profile_idc |-> 100, constraint_flags |-> 4, level_idc |-> 30,
     seq_parameter_set_id |-> 0, chroma_format_idc |-> 1,
     separate_colour_plane_flag |-> 0, bit_depth_luma_minus8 |-> 0,
     bit_depth_chroma_minus8 |-> 0, scaling_matrix |-> <<>>,
     log2_max_frame_num_minus4 |-> 1, pic_order_cnt_type |-> 2,
     log2_max_pic_order_cnt_lsb_minus4 |-> 3, delta_pic_order_always_zero_flag |-> 0,
     cycle_length |-> 0, max_num_ref_frames |-> 1, pic_width_in_mbs_minus1 |-> 0,
     pic_height_in_map_units_minus1 |-> 0, frame_mbs_only_flag |-> 1, crop |-> <<>>,
     vui_parameters_present_flag |-> 0]

MCPps ==
    [pic_parameter_set_id |-> 0, seq_parameter_set_id |-> 0,
     entropy_coding_mode_flag |-> 0, bottom_field_pic_order_in_frame_present_flag |-> 0,
     num_slice_groups_minus1 |-> 0, slice_group_map_type |-> 1, top_left |-> 0,
     slice_group_ids |-> <<0>>, slice_group_change_rate_minus1 |-> 0,
     num_ref_idx_l0_default_active_minus1 |-> 1,
     num_ref_idx_l1_default_active_minus1 |-> 0, weighted_pred_flag |-> 0,
     weighted_bipred_idc |-> 0, pic_init_qp_minus26 |-> 0, pic_init_qs_minus26 |-> 0,
     chroma_qp_index_offset |-> -2, deblocking_filter_control_present_flag |-> 0,
     constrained_intra_pred_flag |-> 0, redundant_pic_cnt_present_flag |-> 0,
     extension |-> <<>>, alignment |-> 2]

MCSlice ==
    [nal_unit_type |-> 1, nal_ref_idc |-> 1, first_mb_in_slice |-> 3, slice_type |-> 0,
     pic_parameter_set_id |-> 0, colour_plane_id |-> 2, frame_num |-> 0,
     field_pic_flag |-> 0, bottom_field_flag |-> 1, idr_pic_id |-> 7,
     pic_order_cnt_lsb |-> 6, delta_pic_order_bottom |-> -2, delta_pic_order_cnt0 |-> 4,
     delta_pic_order_cnt1 |-> -4, redundant_pic_cnt |-> 1, override |-> <<>>,
     modifications |-> <<<<>>, <<>>>>, luma_log2_weight_denom |-> 5,
     chroma_log2_weight_denom |-> 6, luma_weight |-> -128, chroma_offset |-> 127,
     no_output_of_prior_pics_flag |-> 1, long_term_reference_flag |-> 0,
     operations |-> <<>>, cabac_init_idc |-> 1, slice_qp_delta |-> 3,
     slice_qs_delta |-> -3, disable_deblocking_filter_idc |-> 0,
     slice_alpha_c0_offset_div2 |-> 2, slice_beta_offset_div2 |-> -1,
     slice_group_change_cycle |-> 0]

Stream(s, p, g) == [sps |-> s @@ MCSps, pps |-> p @@ MCPps, slice |-> g @@ MCSlice]

(* Cropping of 16 columns and 16 or 32 rows, in units of 1, 2 and 4.       *)
PictureSizes ==
    {Stream([chroma_format_idc |-> format, separate_colour_plane_flag |-> separate,
             frame_mbs_only_flag |-> frames, crop |-> crop], <<>>, <<>>) :
       format \in 0..3, separate \in 0..1, frames \in 0..1,
       crop \in {<<>>} \cup
         {<<[frame_crop_left_offset |-> 3, frame_crop_right_offset |-> right,
             frame_crop_top_offset |-> 3, frame_crop_bottom_offset |-> bottom]>> :
            right \in {0, 4, 5, 12, 13}, bottom \in {0, 4, 5, 12, 13}}}
    \cup
    {Stream([pic_width_in_mbs_minus1 |-> width, pic_height_in_map_units_minus1 |-> height,
             frame_mbs_only_flag |-> frames], <<>>, <<>>) :
       width \in {2^14 - 2, 2^14 - 1}, height \in {2^13 - 2, 2^13 - 1, 2^14 - 2, 2^14 - 1},
       frames \in 0..1}

PictureOrders ==
    {Stream([profile_idc |-> profile, pic_order_cnt_type |-> type,
             delta_pic_order_always_zero_flag |-> zero, cycle_length |-> cycle,
             log2_max_pic_order_cnt_lsb_minus4 |-> lsb, log2_max_frame_num_minus4 |-> 12],
            <<>>, <<>>) :
       profile \in {66, 144}, type \in 0..3, zero \in 0..1, cycle \in {0, 2},
       lsb \in {0, 12, 13}}
    \cup {Stream([pic_order_cnt_type |-> 1, cycle_length |-> n], <<>>, <<>>) :
            n \in MaximumCycleLength..(MaximumCycleLength + 1)}

Scales == {<<>>, <<8>>, <<255, 1, 200>>, [i \in 1..16 |-> 17 - i], [i \in 1..64 |-> 256 - i]}

Matrices ==
    {[i \in 1..12 |-> IF i \in present THEN <<scales>> ELSE <<>>] :
       scales \in Scales, present \in {1..12, {6, 7}, {12}}}

ScalingMatrices ==
    {Stream([chroma_format_idc |-> format, scaling_matrix |-> <<matrix>>], <<>>, <<>>) :
       format \in {1, 3}, matrix \in Matrices}

SpsLimits ==
    {Stream(s, <<>>, <<>>) : s \in
       UNION {{[constraint_flags |-> n] : n \in 0..4},
              {[seq_parameter_set_id |-> n] : n \in {1, 31, 32}},
              {[chroma_format_idc |-> 4]},
              [bit_depth_luma_minus8 : {6, 7}, bit_depth_chroma_minus8 : {0, 6, 7}],
              {[log2_max_frame_num_minus4 |-> 13]}, {[vui_parameters_present_flag |-> 1]}}}

SliceGroups ==
    {Stream(<<>>, [num_slice_groups_minus1 |-> n, slice_group_map_type |-> type,
                   top_left |-> top_left,
                   slice_group_ids |-> IF long THEN <<0, n, 0, 0, n>> ELSE <<n, 0, n, n>>],
            <<>>) :
       n \in {0, 1, 2, 3, 7, 8}, type \in 0..7, top_left \in 0..2, long \in BOOLEAN}
    \cup {Stream(<<>>, [num_slice_groups_minus1 |-> n, slice_group_map_type |-> 6,
                        slice_group_ids |-> <<n + 1, 0>>], <<>>) : n \in {2, 4, 6}}

ExtensionMatrices ==
    {matrix \in Matrices : matrix[12] \in {<<>>, <<<<>>>>, <<<<255, 1, 200>>>>}}

Extensions ==
    {Stream([chroma_format_idc |-> format],
            [extension |-> <<[transform_8x8_mode_flag |-> transform, scaling_matrix |-> matrix,
                              second_chroma_qp_index_offset |-> second]>>,
             redundant_pic_cnt_present_flag |-> redundant, alignment |-> alignment],
            <<>>) :
       format \in 1..3, transform \in 0..1, second \in {0, 13}, redundant \in 0..1,
       alignment \in {0, 2}, matrix \in {<<>>} \cup {<<matrix>> : matrix \in ExtensionMatrices}}

PpsLimits ==
    {Stream(<<>>, p, <<>>) : p \in
       UNION {{[pic_parameter_set_id |-> n] : n \in {1, 255, 256}},
              {[seq_parameter_set_id |-> n] : n \in {1, 32}},
              [num_ref_idx_l0_default_active_minus1 : {31, 32},
               num_ref_idx_l1_default_active_minus1 : {31, 32}],
              {[weighted_bipred_idc |-> n] : n \in 1..3},
              {[pic_init_qp_minus26 |-> n] : n \in {-63, -62, 25, 26}},
              {[pic_init_qs_minus26 |-> n] : n \in {-27, -26, 25, 26}},
              {[chroma_qp_index_offset |-> n] : n \in {-13, -12, 12, 13}}}}

SliceTypes ==
    {Stream([max_num_ref_frames |-> references], <<>>,
            [nal_unit_type |-> type, nal_ref_idc |-> ref_idc, slice_type |-> slice_type,
             frame_num |-> frame_num, long_term_reference_flag |-> long_term]) :
       references \in 0..1, type \in {1, 2, 5}, ref_idc \in {0, 3}, slice_type \in 0..10,
       frame_num \in {0, 31}, long_term \in 0..1}
    \cup {Stream(<<>>, <<>>, [nal_unit_type |-> 5, slice_type |-> 7, idr_pic_id |-> n]) :
            n \in {0, 2^16 - 1, 2^16}}
    \cup {Stream(<<>>, <<>>, [pic_parameter_set_id |-> n]) : n \in {1, 255, 256}}

OrderCounts ==
    {Stream([pic_order_cnt_type |-> type, delta_pic_order_always_zero_flag |-> zero,
             frame_mbs_only_flag |-> frames, chroma_format_idc |-> 3,
             separate_colour_plane_flag |-> separate],
            [bottom_field_pic_order_in_frame_present_flag |-> both,
             redundant_pic_cnt_present_flag |-> redundant],
            [field_pic_flag |-> field, redundant_pic_cnt |-> count,
             colour_plane_id |-> plane]) :
       type \in 0..2, zero \in 0..1, frames \in 0..1, separate \in 0..1, both \in 0..1,
       redundant \in 0..1, field \in 0..1, count \in {127, 128}, plane \in 2..3}

Weights ==
    {Stream([chroma_format_idc |-> format, separate_colour_plane_flag |-> separate],
            [weighted_pred_flag |-> weighted, weighted_bipred_idc |-> bipred],
            [slice_type |-> type, override |-> override]) :
       format \in {0, 1, 3}, separate \in 0..1, weighted \in 0..1, bipred \in 0..2,
       type \in 0..4, override \in {<<>>, <<<<0, 2>>>>, <<<<3, 31>>>>, <<<<32, 0>>>>, <<<<0, 32>>>>}}
    \cup
    {Stream(<<>>, [weighted_pred_flag |-> 1],
            [luma_weight |-> luma, chroma_offset |-> chroma, override |-> <<<<2>>>>,
             luma_log2_weight_denom |-> luma_denom,
             chroma_log2_weight_denom |-> chroma_denom]) :
       luma \in {-129, 127, 128}, chroma \in {-128, -129, 128},
       luma_denom \in 7..8, chroma_denom \in 7..8}

Item(idc) == [idc |-> idc, value |-> 2 * idc]

ModificationLists ==
    {<<>>} \cup {<<list>> : list \in {<<>>, <<Item(0)>>, <<Item(2), Item(1)>>,
                                      <<Item(4)>>, <<Item(1), Item(0), Item(2)>>}}

ListChanges ==
    {Stream(<<>>, <<>>, [slice_type |-> type, override |-> override,
                         modifications |-> <<l0, l1>>]) :
       type \in 0..3, override \in {<<>>, <<<<0, 2>>>>},
       l0 \in ModificationLists, l1 \in ModificationLists}

Markings ==
    {Stream(<<>>, <<>>, [operations |-> <<operations>>, nal_ref_idc |-> ref_idc]) :
       operations \in UNION {[1..n -> 1..7] : n \in 0..3}, ref_idc \in 0..1}
    \cup {Stream(<<>>, <<>>, [operations |-> <<<<1, 2, 3, op>>>>]) : op \in {1, 6}}

Quantizers ==
    {Stream([bit_depth_luma_minus8 |-> depth], [pic_init_qp_minus26 |-> initial],
            [slice_qp_delta |-> qp - 26 - initial]) :
       depth \in {0, 6}, initial \in {-62, -26, 0, 25}, qp \in {-37, -36, -1, 0, 51, 52}}
    \cup
    {Stream(<<>>, [pic_init_qs_minus26 |-> initial, entropy_coding_mode_flag |-> entropy],
            [slice_type |-> type, slice_qs_delta |-> qs - 26 - initial,
             cabac_init_idc |-> cabac]) :
       initial \in {-26, 0, 25}, entropy \in 0..1, type \in 5..9, qs \in {-1, 0, 51, 52},
       cabac \in 2..3}
    \cup
    {Stream(<<>>, [deblocking_filter_control_present_flag |-> present],
            [disable_deblocking_filter_idc |-> idc, slice_alpha_c0_offset_div2 |-> alpha,
             slice_beta_offset_div2 |-> beta]) :
       present \in 0..1, idc \in 0..3, alpha \in {-7, -6, 6, 7}, beta \in {-7, -6, 6, 7}}

Cycles ==
    {s \in {Stream([pic_width_in_mbs_minus1 |-> size[1],
                    pic_height_in_map_units_minus1 |-> size[2], frame_mbs_only_flag |-> frames],
                   [num_slice_groups_minus1 |-> groups, slice_group_map_type |-> type,
                    slice_group_change_rate_minus1 |-> rate],
                   [slice_group_change_cycle |-> cycle]) :
              size \in {<<0, 0>>, <<2, 0>>, <<2, 4>>, <<2^14 - 2, 2^13 - 2>>},
              frames \in 0..1, groups \in 0..1, type \in {1, 3, 4, 5},
              rate \in {0, 1, 6, 14, 2^9, MaxUe}, cycle \in {0, 1, 2, 3, 8, 15}} :
       s.slice.slice_group_change_cycle < 2^CycleSize(s.sps, s.pps)}

MCStreamGroups ==
    {PictureSizes, PictureOrders, ScalingMatrices, SpsLimits, SliceGroups, Extensions,
     PpsLimits, SliceTypes, OrderCounts, Weights, ListChanges, Markings, Quantizers,
     Cycles}
=============================================================================
