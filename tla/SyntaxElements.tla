--------------------------- MODULE SyntaxElements ---------------------------
(***************************************************************************)
(* The syntax of NAL units (h264_stream.c): for each structure the syntax  *)
(* elements that its functions read or write, in their order, given the    *)
(* fields of the stream object.                                            *)
(*                                                                         *)
(* Of each structure h264_stream.c has three copies of one source, read_,  *)
(* write_ and read_debug_.  They are one definition here, with the kind of *)
(* function as the argument "mode" where the copies differ.  An element is *)
(* listed when the function reaches it, which depends only on fields that  *)
(* come before it or are not part of the structure: the first k elements   *)
(* are settled once the first k have been read.                            *)
(*                                                                         *)
(* Elements of one structure are listed by name; an element is the         *)
(* structure s and the name n of its field.  Elements without a field      *)
(* (zero bits) are left out.                                               *)
(***************************************************************************)
EXTENDS SyntaxFields, SequencesExt

When(condition, elements) == IF condition THEN elements ELSE <<>>

\* Group(0) \o ... \o Group(n - 1), nothing if n is negative
Each(n, Group(_)) ==
  When(n \in Nat, FlattenSeq([i \in 1..n |-> Group(i - 1)]))

In(s, names) == [i \in DOMAIN names |-> [s |-> s, n |-> names[i]]]

\* Rounded up; zero for one and less.
intlog2(x) == IF x <= 1 THEN 0 ELSE CHOOSE k \in 1..x : 2^(k-1) < x /\ x <= 2^k

P == 0
B == 1
I == 2
SP == 3
SI == 4
is_slice_type(slice_type, cmp_type) == slice_type % 5 = cmp_type

----------------------------------------------------------------------------
(***************************************************************************)
(* Sequence parameter sets.                                                *)
(***************************************************************************)

\* Mutant: read_ expects the four more lists whatever the format is.
Mut_ScalingLists(mode, s) == IF mode = "read" THEN 12 ELSE 8

\* Only one of the three copies knows the four more lists of 4:4:4.
ScalingLists(mode, s) ==
  IF mode = "read" /\ s.chroma_format_idc = 3 THEN 12 ELSE 8

\* For each list the flag, and the list if it is set.
FlaggedLists(flag, f, count) ==
  Each(count, LAMBDA i :
         <<At(flag, i)>> \o When(f[At(flag, i)] = 1, <<At("ScalingList", i)>>))

HighProfiles == {44, 83, 86, 100, 110, 118, 122, 128, 134, 138, 139, 244}

\* "kind" tells the structures of one type apart.
Hrd(f, kind) ==
  LET Of(names) == [i \in DOMAIN names |-> kind \o names[i]]
  IN Of(<<"cpb_cnt_minus1", "bit_rate_scale", "cpb_size_scale">>
        \o Each(f[kind \o "cpb_cnt_minus1"] + 1, LAMBDA i :
             <<At("bit_rate_value_minus1", i), At("cpb_size_value_minus1", i),
               At("cbr_flag", i)>>)
        \o <<"initial_cpb_removal_delay_length_minus1",
             "cpb_removal_delay_length_minus1",
             "dpb_output_delay_length_minus1", "time_offset_length">>)

SAR_Extended == 255

VideoSignal(f) ==
  <<"aspect_ratio_info_present_flag">>
  \o When(f.aspect_ratio_info_present_flag = 1,
          <<"aspect_ratio_idc">>
          \o When(f.aspect_ratio_idc = SAR_Extended, <<"sar_width", "sar_height">>))
  \o <<"overscan_info_present_flag">>
  \o When(f.overscan_info_present_flag = 1, <<"overscan_appropriate_flag">>)
  \o <<"video_signal_type_present_flag">>
  \o When(f.video_signal_type_present_flag = 1,
          <<"video_format", "video_full_range_flag",
            "colour_description_present_flag">>
          \o When(f.colour_description_present_flag = 1,
                  <<"colour_primaries", "transfer_characteristics",
                    "matrix_coefficients">>))
  \o <<"chroma_loc_info_present_flag">>
  \o When(f.chroma_loc_info_present_flag = 1,
          <<"chroma_sample_loc_type_top_field",
            "chroma_sample_loc_type_bottom_field">>)

HrdOfBothKinds(f) ==
  <<"nal_hrd_parameters_present_flag">>
  \o When(f.nal_hrd_parameters_present_flag = 1, Hrd(f, "nal_"))
  \o <<"vcl_hrd_parameters_present_flag">>
  \o When(f.vcl_hrd_parameters_present_flag = 1, Hrd(f, "vcl_"))
  \o When(1 \in {f.nal_hrd_parameters_present_flag,
                 f.vcl_hrd_parameters_present_flag},
          <<"low_delay_hrd_flag">>)

Restriction(f) ==
  <<"bitstream_restriction_flag">>
  \o When(f.bitstream_restriction_flag = 1,
          <<"motion_vectors_over_pic_boundaries_flag",
            "max_bytes_per_pic_denom", "max_bits_per_mb_denom",
            "log2_max_mv_length_horizontal", "log2_max_mv_length_vertical",
            "num_reorder_frames", "max_dec_frame_buffering">>)

Vui(f) ==
  VideoSignal(f)
  \o <<"timing_info_present_flag">>
  \o When(f.timing_info_present_flag = 1,
          <<"num_units_in_tick", "time_scale", "fixed_frame_rate_flag">>)
  \o HrdOfBothKinds(f) \o <<"pic_struct_present_flag">> \o Restriction(f)

ChromaAndScaling(mode, f) ==
  <<"chroma_format_idc">>
  \o When(f.chroma_format_idc = 3, <<"residual_colour_transform_flag">>)
  \o <<"bit_depth_luma_minus8", "bit_depth_chroma_minus8",
       "qpprime_y_zero_transform_bypass_flag", "seq_scaling_matrix_present_flag">>
  \o When(f.seq_scaling_matrix_present_flag = 1,
          FlaggedLists("seq_scaling_list_present_flag", f, ScalingLists(mode, f)))

PicOrder(f) ==
  <<"log2_max_frame_num_minus4", "pic_order_cnt_type">>
  \o When(f.pic_order_cnt_type = 0, <<"log2_max_pic_order_cnt_lsb_minus4">>)
  \o When(f.pic_order_cnt_type = 1,
       <<"delta_pic_order_always_zero_flag", "offset_for_non_ref_pic",
         "offset_for_top_to_bottom_field", "num_ref_frames_in_pic_order_cnt_cycle">>
       \o Each(f.num_ref_frames_in_pic_order_cnt_cycle,
               LAMBDA i : <<At("offset_for_ref_frame", i)>>))

FrameGeometry(f) ==
  <<"pic_width_in_mbs_minus1", "pic_height_in_map_units_minus1",
    "frame_mbs_only_flag">>
  \o When(f.frame_mbs_only_flag = 0, <<"mb_adaptive_frame_field_flag">>)
  \o <<"direct_8x8_inference_flag", "frame_cropping_flag">>
  \o When(f.frame_cropping_flag = 1,
       <<"frame_crop_left_offset", "frame_crop_right_offset",
         "frame_crop_top_offset", "frame_crop_bottom_offset">>)

\* Of an SPS, or of the SPS that a subset SPS begins with.
SeqParameterSet(mode, f) ==
  <<"profile_idc", "constraint_set_flags", "level_idc", "seq_parameter_set_id">>
  \o When(f.profile_idc \in HighProfiles, ChromaAndScaling(mode, f))
  \o PicOrder(f)
  \o <<"num_ref_frames", "gaps_in_frame_num_value_allowed_flag">>
  \o FrameGeometry(f)
  \o <<"vui_parameters_present_flag">>
  \o When(f.vui_parameters_present_flag = 1, Vui(f))

RefLayer(sps) ==
  When(sps.chroma_format_idc > 0,
       <<"seq_ref_layer_chroma_phase_x_plus1_flag",
         "seq_ref_layer_chroma_phase_y_plus1">>)
  \o <<"seq_scaled_ref_layer_left_offset", "seq_scaled_ref_layer_top_offset",
       "seq_scaled_ref_layer_right_offset", "seq_scaled_ref_layer_bottom_offset">>

\* f is the extension, sps the SPS before it.
SvcExtension(f, sps) ==
  <<"inter_layer_deblocking_filter_control_present_flag",
    "extended_spatial_scalability_idc">>
  \o When(sps.chroma_format_idc \in {1, 2}, <<"chroma_phase_x_plus1_flag">>)
  \o When(sps.chroma_format_idc = 1, <<"chroma_phase_y_plus1">>)
  \o When(f.extended_spatial_scalability_idc # 0, RefLayer(sps))
  \o <<"seq_tcoeff_level_prediction_flag">>
  \o When(f.seq_tcoeff_level_prediction_flag = 1,
          <<"adaptive_tcoeff_level_prediction_flag">>)
  \o <<"slice_header_restriction_flag">>

\* The parameters that follow the NAL HRD flag go to hrd_vcl, and conversely.
SvcVuiEntry(f, i, nal, vcl) ==
  <<At("vui_ext_dependency_id", i), At("vui_ext_quality_id", i),
    At("vui_ext_temporal_id", i), At("vui_ext_timing_info_present_flag", i)>>
  \o When(f[At("vui_ext_timing_info_present_flag", i)] = 1,
          <<At("vui_ext_num_units_in_tick", i), At("vui_ext_time_scale", i),
            At("vui_ext_fixed_frame_rate_flag", i)>>)
  \o <<nal>> \o When(f[nal] = 1, Hrd(f, At("vcl", i)))
  \o <<vcl>> \o When(f[vcl] = 1, Hrd(f, At("nal", i)))
  \o When(1 \in {f[nal], f[vcl]}, <<At("vui_ext_low_delay_hrd_flag", i)>>)
  \o <<At("vui_ext_pic_struct_present_flag", i)>>

SvcVui(f) ==
  <<"vui_ext_num_entries_minus1">>
  \o Each(f.vui_ext_num_entries_minus1 + 1, LAMBDA i :
       SvcVuiEntry(f, i, At("vui_ext_nal_hrd_parameters_present_flag", i),
                         At("vui_ext_vcl_hrd_parameters_present_flag", i)))

\* additional_extension2_flag is zero: while it is one, data follows up to the
\* end of the unit.
SubsetSps(mode, h) ==
  In("subset", SeqParameterSet(mode, h.subset))
  \o When(h.subset.profile_idc \in {83, 86},
       In("sps_svc_ext",
          SvcExtension(h.sps_svc_ext, h.subset)
          \o <<"svc_vui_parameters_present_flag">>
          \o When(h.sps_svc_ext.svc_vui_parameters_present_flag = 1,
                  SvcVui(h.sps_svc_ext))))
  \o In("sps_subset", <<"additional_extension2_flag">>)

----------------------------------------------------------------------------
(***************************************************************************)
(* Picture parameter sets.                                                 *)
(***************************************************************************)

\* Mutant: the writer forgets that an offset alone must be written too.
Mut_have_more_data(mode, f, more) ==
  IF mode # "write" THEN more
  ELSE 1 \in {f.transform_8x8_mode_flag, f.pic_scaling_matrix_present_flag}

\* Whether the optional end of a PPS is there: "more" for its reader, and the
\* choice of any other writer.
have_more_data(mode, f, more) ==
  IF mode # "write" THEN more
  ELSE \/ f.transform_8x8_mode_flag = 1 \/ f.pic_scaling_matrix_present_flag = 1
       \/ f.second_chroma_qp_index_offset # 0

SliceGroups(f) ==
  <<"slice_group_map_type">>
  \o CASE f.slice_group_map_type = 0 ->
            Each(f.num_slice_groups_minus1 + 1,
                 LAMBDA i : <<At("run_length_minus1", i)>>)
       [] f.slice_group_map_type = 2 ->
            Each(f.num_slice_groups_minus1,
                 LAMBDA i : <<At("top_left", i), At("bottom_right", i)>>)
       [] f.slice_group_map_type \in 3..5 ->
            <<"slice_group_change_direction_flag", "slice_group_change_rate_minus1">>
       [] f.slice_group_map_type = 6 ->
            <<"pic_size_in_map_units_minus1">>
            \o Each(f.pic_size_in_map_units_minus1 + 1,
                    LAMBDA i : <<At("slice_group_id", i)>>)
       [] OTHER -> <<>>

OptionalEnd(f) ==
  <<"transform_8x8_mode_flag", "pic_scaling_matrix_present_flag">>
  \o When(f.pic_scaling_matrix_present_flag = 1,
          FlaggedLists("pic_scaling_list_present_flag", f,
                       6 + 2 * f.transform_8x8_mode_flag))
  \o <<"second_chroma_qp_index_offset">>

PicParameterSet(mode, f, more) ==
  <<"pic_parameter_set_id", "seq_parameter_set_id", "entropy_coding_mode_flag",
    "pic_order_present_flag", "num_slice_groups_minus1">>
  \o When(f.num_slice_groups_minus1 > 0, SliceGroups(f))
  \o <<"num_ref_idx_l0_active_minus1", "num_ref_idx_l1_active_minus1",
       "weighted_pred_flag", "weighted_bipred_idc", "pic_init_qp_minus26",
       "pic_init_qs_minus26", "chroma_qp_index_offset",
       "deblocking_filter_control_present_flag", "constrained_intra_pred_flag",
       "redundant_pic_cnt_present_flag">>
  \o When(have_more_data(mode, f, more), OptionalEnd(f))

----------------------------------------------------------------------------
(***************************************************************************)
(* Slice headers, with the sets in force: h.pps, and h.sps or h.subset.    *)
(***************************************************************************)

\* A list of operations ends with the first one that is "end": how many there
\* are.  The code does not bound it by its array, only by the end of the unit.
Operations(op, f, end) ==
  CHOOSE k \in 1..ArrayMax :
    /\ \A i \in 0..(k - 2) : f[At(op, i)] # end
    /\ f[At(op, k - 1)] = end \/ k = ArrayMax

\* The reordering of list l0 or l1: its flag, and the operations idc.
Reordering(f, list, flag, idc) ==
  <<flag>>
  \o When(f[flag] = 1,
       Each(Operations(idc, f, 3), LAMBDA i :
         <<At(idc, i)>>
         \o When(f[At(idc, i)] \in {0, 1},
                 <<At("abs_diff_pic_num_minus1_" \o list, i)>>)
         \o When(f[At(idc, i)] = 2, <<At("long_term_pic_num_" \o list, i)>>)))

ref_pic_list_reordering(f) ==
  When(f.slice_type % 5 \notin {I, SI},
       Reordering(f, "l0", "ref_pic_list_reordering_flag_l0",
                  "reordering_of_pic_nums_idc_l0"))
  \o When(is_slice_type(f.slice_type, B),
       Reordering(f, "l1", "ref_pic_list_reordering_flag_l1",
                  "reordering_of_pic_nums_idc_l1"))

\* The weight and offset of one component, of which the two chroma planes are
\* one element each.
Weight(f, component, list, i) ==
  <<At(component \o "_weight_" \o list \o "_flag", i)>>
  \o When(f[At(component \o "_weight_" \o list \o "_flag", i)] = 1,
          <<At(component \o "_weight_" \o list, i),
            At(component \o "_offset_" \o list, i)>>)

\* The weights of list l0 or l1, as many as the PPS says, also if the slice
\* overrides it.
Weights(f, list, count, chroma) ==
  Each(count, LAMBDA i :
       Weight(f, "luma", list, i) \o When(chroma, Weight(f, "chroma", list, i)))

\* The format is that of the current SPS, in scalable slices too.
pred_weight_table(h) ==
  <<"luma_log2_weight_denom">>
  \o When(h.sps.chroma_format_idc # 0, <<"chroma_log2_weight_denom">>)
  \o Weights(h.sh, "l0", h.pps.num_ref_idx_l0_active_minus1 + 1,
             h.sps.chroma_format_idc # 0)
  \o When(is_slice_type(h.sh.slice_type, B),
          Weights(h.sh, "l1", h.pps.num_ref_idx_l1_active_minus1 + 1,
                  h.sps.chroma_format_idc # 0))

MarkingOperation(op, i) ==
  <<At("memory_management_control_operation", i)>>
  \o When(op \in {1, 3}, <<At("difference_of_pic_nums_minus1", i)>>)
  \o When(op = 2, <<At("long_term_pic_num", i)>>)
  \o When(op \in {3, 6}, <<At("long_term_frame_idx", i)>>)
  \o When(op = 4, <<At("max_long_term_frame_idx_plus1", i)>>)

dec_ref_pic_marking(h) ==
  IF h.nal.nal_unit_type = 5
  THEN <<"no_output_of_prior_pics_flag", "long_term_reference_flag">>
  ELSE <<"adaptive_ref_pic_marking_mode_flag">>
       \o When(h.sh.adaptive_ref_pic_marking_mode_flag = 1,
            Each(Operations("memory_management_control_operation", h.sh, 0), LAMBDA i :
              MarkingOperation(h.sh[At("memory_management_control_operation", i)], i)))

\* What the two kinds of slice headers begin and end with alike; "frame" is
\* whether the order of the bottom field is given too.
SliceHeaderStart(h, sps, frame) ==
  <<"first_mb_in_slice", "slice_type", "pic_parameter_set_id">>
  \o When(sps.residual_colour_transform_flag = 1, <<"colour_plane_id">>)
  \o <<"frame_num">>
  \o When(sps.frame_mbs_only_flag = 0,
          <<"field_pic_flag">>
          \o When(h.sh.field_pic_flag = 1, <<"bottom_field_flag">>))
  \o When(h.nal.nal_unit_type = 5, <<"idr_pic_id">>)
  \o When(sps.pic_order_cnt_type = 0,
          <<"pic_order_cnt_lsb">> \o When(frame, <<"delta_pic_order_cnt_bottom">>))
  \o When(sps.pic_order_cnt_type = 1 /\ sps.delta_pic_order_always_zero_flag = 0,
          <<"delta_pic_order_cnt0">> \o When(frame, <<"delta_pic_order_cnt1">>))
  \o When(h.pps.redundant_pic_cnt_present_flag = 1, <<"redundant_pic_cnt">>)

BothFields(h) == h.pps.pic_order_present_flag = 1 /\ h.sh.field_pic_flag = 0

\* inter: the types of slices with reference lists.
RefIdxOverride(f, inter) ==
  When(is_slice_type(f.slice_type, B), <<"direct_spatial_mv_pred_flag">>)
  \o When(f.slice_type % 5 \in inter,
       <<"num_ref_idx_active_override_flag">>
       \o When(f.num_ref_idx_active_override_flag = 1,
            <<"num_ref_idx_l0_active_minus1">>
            \o When(is_slice_type(f.slice_type, B),
                    <<"num_ref_idx_l1_active_minus1">>)))

DeblockingAndGroups(h) ==
  When(h.pps.deblocking_filter_control_present_flag = 1,
       <<"disable_deblocking_filter_idc">>
       \o When(h.sh.disable_deblocking_filter_idc # 1,
               <<"slice_alpha_c0_offset_div2", "slice_beta_offset_div2">>))
  \o When(h.pps.num_slice_groups_minus1 > 0 /\ h.pps.slice_group_map_type \in 3..5,
          <<"slice_group_change_cycle">>)

slice_header(h) ==
  SliceHeaderStart(h, h.sps, BothFields(h))
  \o RefIdxOverride(h.sh, {P, SP, B})
  \o ref_pic_list_reordering(h.sh)
  \o When(\/ h.pps.weighted_pred_flag = 1 /\ h.sh.slice_type % 5 \in {P, SP}
          \/ h.pps.weighted_bipred_idc = 1 /\ is_slice_type(h.sh.slice_type, B),
          pred_weight_table(h))
  \o When(h.nal.nal_ref_idc # 0, dec_ref_pic_marking(h))
  \o When(h.pps.entropy_coding_mode_flag = 1 /\ h.sh.slice_type % 5 \notin {I, SI},
          <<"cabac_init_idc">>)
  \o <<"slice_qp_delta">>
  \o When(is_slice_type(h.sh.slice_type, SP), <<"sp_for_switch_flag">>)
  \o When(h.sh.slice_type % 5 \in {SP, SI}, <<"slice_qs_delta">>)
  \o DeblockingAndGroups(h)

----------------------------------------------------------------------------
(***************************************************************************)
(* Scalable extension.                                                     *)
(***************************************************************************)

\* The operation is one field, not an array: zero here, since the writer does
\* not return from a list that it would repeat until its one field is zero.
dec_ref_base_pic_marking(f) ==
  <<"adaptive_ref_base_pic_marking_mode_flag">>
  \o When(f.adaptive_ref_base_pic_marking_mode_flag = 1,
       <<"memory_management_base_control_operation">>
       \o When(f.memory_management_base_control_operation = 1,
               <<"difference_of_base_pic_nums_minus1">>)
       \o When(f.memory_management_base_control_operation = 2,
               <<"long_term_base_pic_num">>))

SvcSlice(names) == In("sh_svc_ext", names)

\* Weights of a scalable slice: its own unless those of the base are taken.
SvcWeights(h, x) ==
  When(\/ h.pps.weighted_pred_flag = 1 /\ is_slice_type(h.sh.slice_type, P)
       \/ h.pps.weighted_bipred_idc = 1 /\ is_slice_type(h.sh.slice_type, B),
       When(h.nal_svc_ext.no_inter_layer_pred_flag = 0,
            SvcSlice(<<"base_pred_weight_table_flag">>))
       \o When(\/ h.nal_svc_ext.no_inter_layer_pred_flag = 1
               \/ x.base_pred_weight_table_flag = 0,
               In("sh", pred_weight_table(h))))

\* Of a slice of quality level 0.
SvcReferences(h, x) ==
  In("sh", RefIdxOverride(h.sh, {P, B}) \o ref_pic_list_reordering(h.sh))
  \o SvcWeights(h, x)
  \o When(h.nal.nal_ref_idc # 0,
       In("sh", dec_ref_pic_marking(h))
       \o When(h.sps_svc_ext.slice_header_restriction_flag = 0,
            SvcSlice(<<"store_ref_base_pic_flag">>)
            \o When(/\ 1 \in {h.nal_svc_ext.use_ref_base_pic_flag,
                             x.store_ref_base_pic_flag}
                    /\ h.nal.nal_unit_type # 5,
                    In("prefix_nal_svc", dec_ref_base_pic_marking(h.prefix_nal_svc)))))

InterLayerDeblocking(h, svc) ==
  <<"ref_layer_dq_id">>
  \o When(svc.inter_layer_deblocking_filter_control_present_flag = 1,
       <<"disable_inter_layer_deblocking_filter_idc">>
       \o When(h.sh_svc_ext.disable_inter_layer_deblocking_filter_idc # 1,
            <<"inter_layer_slice_alpha_c0_offset_div2",
              "inter_layer_slice_beta_offset_div2">>))
  \o <<"constrained_intra_resampling_flag">>
  \o When(svc.extended_spatial_scalability_idc = 2,
       When(h.subset.chroma_format_idc > 0,
            <<"ref_layer_chroma_phase_x_plus1_flag",
              "ref_layer_chroma_phase_y_plus1">>)
       \o <<"scaled_ref_layer_left_offset", "scaled_ref_layer_top_offset",
            "scaled_ref_layer_right_offset", "scaled_ref_layer_bottom_offset">>)

InterLayerPrediction(x) ==
  <<"slice_skip_flag">>
  \o IF x.slice_skip_flag = 1 THEN <<"num_mbs_in_slice_minus1">>
     ELSE <<"adaptive_base_mode_flag">>
          \o When(x.adaptive_base_mode_flag = 0, <<"default_base_mode_flag">>)
          \o When(x.default_base_mode_flag = 0,
               <<"adaptive_motion_prediction_flag">>
               \o When(x.adaptive_motion_prediction_flag = 0,
                       <<"default_motion_prediction_flag">>))
          \o <<"adaptive_residual_prediction_flag">>
          \o When(x.adaptive_residual_prediction_flag = 0,
                  <<"default_residual_prediction_flag">>)

slice_header_in_scalable_extension(h) ==
  In("sh", SliceHeaderStart(h, h.subset, BothFields(h)))
  \o When(h.nal_svc_ext.quality_id = 0, SvcReferences(h, h.sh_svc_ext))
  \o In("sh",
       When(h.pps.entropy_coding_mode_flag = 1 /\ ~is_slice_type(h.sh.slice_type, I),
            <<"cabac_init_idc">>)
       \o <<"slice_qp_delta">>
       \o DeblockingAndGroups(h))
  \o SvcSlice(
       When(h.nal_svc_ext.no_inter_layer_pred_flag = 0,
         When(h.nal_svc_ext.quality_id = 0, InterLayerDeblocking(h, h.sps_svc_ext))
         \o InterLayerPrediction(h.sh_svc_ext)
         \o When(h.sps_svc_ext.adaptive_tcoeff_level_prediction_flag = 1,
                 <<"tcoeff_level_prediction_flag">>))
       \o When(/\ h.sps_svc_ext.slice_header_restriction_flag = 0
               /\ h.sh_svc_ext.slice_skip_flag = 0,
               <<"scan_idx_start", "scan_idx_end">>))

nal_unit_header_svc_extension ==
  <<"idr_flag", "priority_id", "no_inter_layer_pred_flag", "dependency_id",
    "quality_id", "temporal_id", "use_ref_base_pic_flag", "discardable_flag",
    "output_flag", "reserved_three_2bits">>

\* additional_prefix_nal_unit_extension_flag is zero, as the flag of SubsetSps.
prefix_nal_unit_svc(h, f) ==
  When(h.nal.nal_ref_idc # 0,
       <<"store_ref_base_pic_flag">>
       \o When(/\ 1 \in {h.nal_svc_ext.use_ref_base_pic_flag, f.store_ref_base_pic_flag}
               /\ h.nal_svc_ext.idr_flag = 0,
               dec_ref_base_pic_marking(f))
       \o <<"additional_prefix_nal_unit_extension_flag">>)

----------------------------------------------------------------------------
(***************************************************************************)
(* NAL units.                                                              *)
(***************************************************************************)

NalHeader(nal) ==
  In("nal", <<"nal_ref_idc", "nal_unit_type">>)
  \o When(nal.nal_unit_type \in {14, 20},
       In("nal", <<"svc_extension_flag">>)
       \o When(nal.svc_extension_flag = 1,
               In("nal_svc_ext", nal_unit_header_svc_extension)))

Payload(mode, h, more) ==
  CASE h.nal.nal_unit_type \in {1, 5, 19} -> In("sh", slice_header(h))
    [] h.nal.nal_unit_type = 7  -> In("sps", SeqParameterSet(mode, h.sps))
    [] h.nal.nal_unit_type = 8  -> In("pps", PicParameterSet(mode, h.pps, more))
    [] h.nal.nal_unit_type = 9  -> In("aud", <<"primary_pic_type">>)
    [] h.nal.nal_unit_type = 14 ->
         When(h.nal.svc_extension_flag = 1,
              In("prefix_nal_svc", prefix_nal_unit_svc(h, h.prefix_nal_svc)))
    [] h.nal.nal_unit_type = 15 -> SubsetSps(mode, h)
    [] h.nal.nal_unit_type = 20 -> slice_header_in_scalable_extension(h)
    [] OTHER -> <<>>  \* types 10 and 11

NalUnit(mode, h, more) == NalHeader(h.nal) \o Payload(mode, h, more)

\* The coding of an element, where h has the sets in force.
CodingOf(e, h, sps) ==
  IF Coding[e.s][e.n] # Varies THEN Coding[e.s][e.n]
  ELSE IF e.s = "pps" THEN intlog2(h.pps.num_slice_groups_minus1 + 1)  \* slice_group_id
  ELSE CASE e.n = "frame_num" -> sps.log2_max_frame_num_minus4 + 4
         [] e.n = "pic_order_cnt_lsb" -> sps.log2_max_pic_order_cnt_lsb_minus4 + 4
         [] OTHER -> intlog2(h.pps.pic_size_in_map_units_minus1  \* slice_group_change_cycle
                               + h.pps.slice_group_change_rate_minus1 + 1)

ActiveSps(h) == IF h.nal.nal_unit_type = 20 THEN h.subset ELSE h.sps
============================================================================
