---------------------------- MODULE SyntaxFields ----------------------------
(***************************************************************************)
(* The fields of an h264_stream_t (h264_stream.h) that NAL units fill, and *)
(* how each of them is coded (h264_stream.c): a table of the codings, by   *)
(* name, for each structure.                                               *)
(*                                                                         *)
(* Entries of arrays are fields of their own, with the index at the end of *)
(* the name.  The six constraint flags are one field, and so are the two   *)
(* chroma planes of a weight.                                              *)
(***************************************************************************)
EXTENDS ScalingDeltas, TLC

CONSTANT ArrayMax  \* entries of arrays and of lists of operations

ASSUME ArraysHaveEntries == ArrayMax \in Nat \ {0}

At(name, i) == name \o ToString(i)
Indices == 0..(ArrayMax - 1)
Array(name) == {At(name, i) : i \in Indices}
Arrays(names) == UNION {Array(name) : name \in names}
ListNames(count) == {At("ScalingList", i) : i \in 0..(count - 1)}

\* A coding is a number of bits, or one of these.
Golomb == -1
Deltas == -2  \* of a scaling list
Varies == -3  \* bits whose number depends on other fields

Coded(coding, names) == [n \in names |-> coding]

\* Both tables; a name that is in both is coded as the first says.
f ++ g == [n \in DOMAIN f \cup DOMAIN g |-> IF n \in DOMAIN f THEN f[n] ELSE g[n]]

----------------------------------------------------------------------------
\* hrd_t, under the name that tells it from others of its structure
HrdCoding(kind) ==
  LET Of(coding, names) == Coded(coding, {kind \o n : n \in names})
  IN Of(4, {"bit_rate_scale", "cpb_size_scale"})
     ++ Of(5, {"initial_cpb_removal_delay_length_minus1",
               "cpb_removal_delay_length_minus1",
               "dpb_output_delay_length_minus1", "time_offset_length"})
     ++ Of(1, Array("cbr_flag"))
     ++ Of(Golomb, {"cpb_cnt_minus1"}
                   \cup Arrays({"bit_rate_value_minus1", "cpb_size_value_minus1"}))

VuiCoding ==
  Coded(1, {"aspect_ratio_info_present_flag", "overscan_info_present_flag",
            "overscan_appropriate_flag", "video_signal_type_present_flag",
            "video_full_range_flag", "colour_description_present_flag",
            "chroma_loc_info_present_flag", "timing_info_present_flag",
            "fixed_frame_rate_flag", "nal_hrd_parameters_present_flag",
            "vcl_hrd_parameters_present_flag", "low_delay_hrd_flag",
            "pic_struct_present_flag", "bitstream_restriction_flag",
            "motion_vectors_over_pic_boundaries_flag"})
  ++ Coded(3, {"video_format"})
  ++ Coded(8, {"aspect_ratio_idc", "colour_primaries",
               "transfer_characteristics", "matrix_coefficients"})
  ++ Coded(16, {"sar_width", "sar_height"})
  ++ Coded(32, {"num_units_in_tick", "time_scale"})
  ++ Coded(Golomb, {"chroma_sample_loc_type_top_field",
                    "chroma_sample_loc_type_bottom_field",
                    "max_bytes_per_pic_denom", "max_bits_per_mb_denom",
                    "log2_max_mv_length_horizontal", "log2_max_mv_length_vertical",
                    "num_reorder_frames", "max_dec_frame_buffering"})
  ++ HrdCoding("nal_") ++ HrdCoding("vcl_")

\* sps_t
SpsCoding ==
  Coded(1, {"residual_colour_transform_flag",
            "qpprime_y_zero_transform_bypass_flag",
            "seq_scaling_matrix_present_flag", "delta_pic_order_always_zero_flag",
            "gaps_in_frame_num_value_allowed_flag", "frame_mbs_only_flag",
            "mb_adaptive_frame_field_flag", "direct_8x8_inference_flag",
            "frame_cropping_flag", "vui_parameters_present_flag"}
           \cup {At("seq_scaling_list_present_flag", i) : i \in 0..11})
  ++ Coded(6, {"constraint_set_flags"})
  ++ Coded(8, {"profile_idc", "level_idc"})
  ++ Coded(Golomb, {"seq_parameter_set_id", "chroma_format_idc",
                    "bit_depth_luma_minus8", "bit_depth_chroma_minus8",
                    "log2_max_frame_num_minus4", "pic_order_cnt_type",
                    "log2_max_pic_order_cnt_lsb_minus4", "offset_for_non_ref_pic",
                    "offset_for_top_to_bottom_field",
                    "num_ref_frames_in_pic_order_cnt_cycle", "num_ref_frames",
                    "pic_width_in_mbs_minus1", "pic_height_in_map_units_minus1",
                    "frame_crop_left_offset", "frame_crop_right_offset",
                    "frame_crop_top_offset", "frame_crop_bottom_offset"}
                   \cup Array("offset_for_ref_frame"))
  ++ Coded(Deltas, ListNames(12))
  ++ VuiCoding

SvcVuiCoding ==
  Coded(1, Arrays({"vui_ext_timing_info_present_flag",
                   "vui_ext_fixed_frame_rate_flag",
                   "vui_ext_nal_hrd_parameters_present_flag",
                   "vui_ext_vcl_hrd_parameters_present_flag",
                   "vui_ext_low_delay_hrd_flag", "vui_ext_pic_struct_present_flag"}))
  ++ Coded(3, Arrays({"vui_ext_dependency_id", "vui_ext_temporal_id"}))
  ++ Coded(4, Array("vui_ext_quality_id"))
  ++ Coded(32, Arrays({"vui_ext_num_units_in_tick", "vui_ext_time_scale"}))
  ++ Coded(Golomb, {"vui_ext_num_entries_minus1"})
  ++ [n \in UNION {DOMAIN HrdCoding(At(k, i)) : k \in {"nal", "vcl"}, i \in Indices} |->
        (CHOOSE c \in {HrdCoding(At(k, i)) : k \in {"nal", "vcl"}, i \in Indices} :
           n \in DOMAIN c)[n]]

\* sps_svc_ext_t
SvcExtCoding ==
  Coded(1, {"inter_layer_deblocking_filter_control_present_flag",
            "chroma_phase_x_plus1_flag", "seq_ref_layer_chroma_phase_x_plus1_flag",
            "seq_tcoeff_level_prediction_flag",
            "adaptive_tcoeff_level_prediction_flag",
            "slice_header_restriction_flag", "svc_vui_parameters_present_flag"})
  ++ Coded(2, {"extended_spatial_scalability_idc", "chroma_phase_y_plus1",
               "seq_ref_layer_chroma_phase_y_plus1"})
  ++ Coded(Golomb, {"seq_scaled_ref_layer_left_offset",
                    "seq_scaled_ref_layer_top_offset",
                    "seq_scaled_ref_layer_right_offset",
                    "seq_scaled_ref_layer_bottom_offset"})
  ++ SvcVuiCoding

\* pps_t
PpsCoding ==
  Coded(1, {"entropy_coding_mode_flag", "pic_order_present_flag",
            "slice_group_change_direction_flag", "weighted_pred_flag",
            "deblocking_filter_control_present_flag", "constrained_intra_pred_flag",
            "redundant_pic_cnt_present_flag", "transform_8x8_mode_flag",
            "pic_scaling_matrix_present_flag"}
           \cup {At("pic_scaling_list_present_flag", i) : i \in 0..7})
  ++ Coded(2, {"weighted_bipred_idc"})
  ++ Coded(Golomb, {"pic_parameter_set_id", "seq_parameter_set_id",
                    "num_slice_groups_minus1", "slice_group_map_type",
                    "slice_group_change_rate_minus1",
                    "pic_size_in_map_units_minus1", "num_ref_idx_l0_active_minus1",
                    "num_ref_idx_l1_active_minus1", "pic_init_qp_minus26",
                    "pic_init_qs_minus26", "chroma_qp_index_offset",
                    "second_chroma_qp_index_offset"}
                   \cup Arrays({"run_length_minus1", "top_left", "bottom_right"}))
  ++ Coded(Deltas, ListNames(8))
  ++ Coded(Varies, Array("slice_group_id"))

ReorderingFlags == {"ref_pic_list_reordering_flag_l0", "ref_pic_list_reordering_flag_l1"}
WeightFlags ==
  Arrays({"luma_weight_l0_flag", "luma_weight_l1_flag",
          "chroma_weight_l0_flag", "chroma_weight_l1_flag"})

\* The parts of slice_header_t for reference lists, weights and marking
ListCoding ==
  Coded(1, ReorderingFlags \cup WeightFlags
           \cup {"no_output_of_prior_pics_flag", "long_term_reference_flag",
                 "adaptive_ref_pic_marking_mode_flag"})
  ++ Coded(Golomb,
       {"luma_log2_weight_denom", "chroma_log2_weight_denom"}
       \cup Arrays({n \o l : n \in {"luma_weight_", "luma_offset_",
                                    "chroma_weight_", "chroma_offset_",
                                    "reordering_of_pic_nums_idc_",
                                    "abs_diff_pic_num_minus1_", "long_term_pic_num_"},
                             l \in {"l0", "l1"}})
       \cup Arrays({"memory_management_control_operation",
                    "difference_of_pic_nums_minus1", "long_term_pic_num",
                    "long_term_frame_idx", "max_long_term_frame_idx_plus1"}))

\* slice_header_t
SliceCoding ==
  Coded(1, {"field_pic_flag", "bottom_field_flag", "direct_spatial_mv_pred_flag",
            "num_ref_idx_active_override_flag", "sp_for_switch_flag"})
  ++ Coded(2, {"colour_plane_id"})
  ++ Coded(Varies, {"frame_num", "pic_order_cnt_lsb", "slice_group_change_cycle"})
  ++ Coded(Golomb, {"first_mb_in_slice", "slice_type", "pic_parameter_set_id",
                    "idr_pic_id", "delta_pic_order_cnt_bottom",
                    "delta_pic_order_cnt0", "delta_pic_order_cnt1",
                    "redundant_pic_cnt", "num_ref_idx_l0_active_minus1",
                    "num_ref_idx_l1_active_minus1", "cabac_init_idc",
                    "slice_qp_delta", "slice_qs_delta",
                    "disable_deblocking_filter_idc", "slice_alpha_c0_offset_div2",
                    "slice_beta_offset_div2"})
  ++ ListCoding

\* slice_header_svc_ext_t
SvcSliceCoding ==
  Coded(1, {"base_pred_weight_table_flag", "store_ref_base_pic_flag",
            "constrained_intra_resampling_flag",
            "ref_layer_chroma_phase_x_plus1_flag", "slice_skip_flag",
            "adaptive_base_mode_flag", "default_base_mode_flag",
            "adaptive_motion_prediction_flag", "default_motion_prediction_flag",
            "adaptive_residual_prediction_flag", "default_residual_prediction_flag",
            "tcoeff_level_prediction_flag"})
  ++ Coded(2, {"ref_layer_chroma_phase_y_plus1"})
  ++ Coded(4, {"scan_idx_start", "scan_idx_end"})
  ++ Coded(Golomb, {"ref_layer_dq_id", "disable_inter_layer_deblocking_filter_idc",
                    "inter_layer_slice_alpha_c0_offset_div2",
                    "inter_layer_slice_beta_offset_div2",
                    "scaled_ref_layer_left_offset", "scaled_ref_layer_top_offset",
                    "scaled_ref_layer_right_offset", "scaled_ref_layer_bottom_offset",
                    "num_mbs_in_slice_minus1"})

\* nal_t
NalCoding ==
  [nal_ref_idc |-> 2, nal_unit_type |-> 5, svc_extension_flag |-> 1]

\* nal_svc_ext_t
NalSvcExtCoding ==
  [idr_flag |-> 1, priority_id |-> 6, no_inter_layer_pred_flag |-> 1,
   dependency_id |-> 3, quality_id |-> 4, temporal_id |-> 3,
   use_ref_base_pic_flag |-> 1, discardable_flag |-> 1, output_flag |-> 1,
   reserved_three_2bits |-> 2]

\* prefix_nal_svc_t
PrefixCoding ==
  Coded(1, {"store_ref_base_pic_flag", "additional_prefix_nal_unit_extension_flag",
            "adaptive_ref_base_pic_marking_mode_flag"})
  ++ Coded(Golomb, {"memory_management_base_control_operation",
                    "difference_of_base_pic_nums_minus1", "long_term_base_pic_num"})

Coding ==
  [nal |-> NalCoding, nal_svc_ext |-> NalSvcExtCoding,
   prefix_nal_svc |-> PrefixCoding, sps |-> SpsCoding, subset |-> SpsCoding,
   sps_svc_ext |-> SvcExtCoding, sps_subset |-> [additional_extension2_flag |-> 1],
   pps |-> PpsCoding, sh |-> SliceCoding, sh_svc_ext |-> SvcSliceCoding,
   aud |-> [primary_pic_type |-> 3]]

----------------------------------------------------------------------------
\* A scaling list, with its UseDefaultScalingMatrixFlag.
NoList == [list |-> [j \in 1..ListMax |-> 0], default |-> 0]

Zeros(s) == [n \in DOMAIN Coding[s] |-> IF Coding[s][n] = Deltas THEN NoList ELSE 0]

\* What h264_new returns: structures of zeros.
h264_new == [s \in DOMAIN Coding |-> Zeros(s)]
============================================================================
