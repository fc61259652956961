------------------------------ MODULE MCSyntax ------------------------------
(***************************************************************************)
(* Instances of Syntax.  In each stream, the fields that decide what else  *)
(* a unit holds vary; the others have one value, and not zero if they can. *)
(***************************************************************************)
EXTENDS Syntax

AllFields == UNION {DOMAIN h264_new[s] : s \in DOMAIN h264_new}
List(a, b, c, f) == [list |-> [j \in 1..ListMax |-> <<a, b, c>>[j]], default |-> f]

\* Flags and numbers on which other fields depend, and ids.
Zero ==
  {"aspect_ratio_info_present_flag", "colour_description_present_flag",
   "overscan_info_present_flag", "video_signal_type_present_flag",
   "chroma_loc_info_present_flag", "timing_info_present_flag",
   "nal_hrd_parameters_present_flag", "vcl_hrd_parameters_present_flag",
   "bitstream_restriction_flag", "vui_parameters_present_flag",
   "seq_parameter_set_id", "pic_parameter_set_id", "chroma_format_idc",
   "residual_colour_transform_flag", "seq_scaling_matrix_present_flag",
   "log2_max_frame_num_minus4", "pic_order_cnt_type",
   "delta_pic_order_always_zero_flag", "frame_cropping_flag",
   "extended_spatial_scalability_idc", "seq_tcoeff_level_prediction_flag",
   "slice_header_restriction_flag", "svc_vui_parameters_present_flag",
   "vui_ext_num_entries_minus1", "additional_extension2_flag",
   "num_slice_groups_minus1", "slice_group_map_type", "weighted_pred_flag",
   "weighted_bipred_idc", "redundant_pic_cnt_present_flag",
   "entropy_coding_mode_flag", "pic_order_present_flag",
   "deblocking_filter_control_present_flag", "transform_8x8_mode_flag",
   "pic_scaling_matrix_present_flag", "num_ref_idx_active_override_flag",
   "num_ref_idx_l0_active_minus1", "num_ref_idx_l1_active_minus1",
   "adaptive_ref_pic_marking_mode_flag", "quality_id", "use_ref_base_pic_flag",
   "store_ref_base_pic_flag", "additional_prefix_nal_unit_extension_flag",
   "memory_management_base_control_operation",
   "adaptive_ref_base_pic_marking_mode_flag", "slice_skip_flag",
   "num_ref_frames_in_pic_order_cnt_cycle", "cpb_cnt_minus1",
   "nal_cpb_cnt_minus1", "vcl_cpb_cnt_minus1", "slice_group_change_cycle"}
  \cup Arrays({"nalcpb", "vui_ext_timing_info_present_flag",
               "vui_ext_nal_hrd_parameters_present_flag",
               "vui_ext_vcl_hrd_parameters_present_flag"})
  \cup {At(k, i) \o "cpb_cnt_minus1" : k \in {"nal", "vcl"}, i \in Indices}
  \cup {At(n, i) : n \in {"seq_scaling_list_present_flag",
                          "pic_scaling_list_present_flag"}, i \in 0..11}
  \cup ReorderingFlags \cup WeightFlags

\* The last operation of a list ends it.
EndOf(op, end) == At(op, ArrayMax - 1) :> {end}

Usual ==
  EndOf("reordering_of_pic_nums_idc_l0", 3) @@ EndOf("reordering_of_pic_nums_idc_l1", 3)
  @@ EndOf("memory_management_control_operation", 0)
  @@ ("profile_idc" :> {66}) @@ ("svc_extension_flag" :> {1})
  @@ [n \in AllFields |-> IF n \in ListNames(12) THEN {List(8, 16, 4, 0)}
                          ELSE IF n \in Zero THEN {0} ELSE {1}]

\* A field without values here has its usual ones.
UnitOf(types, values) == [types |-> types, values |-> values, tail |-> {FALSE}]
Completed(streams) ==
  [s \in DOMAIN streams |-> [i \in DOMAIN streams[s] |->
     [streams[s][i] EXCEPT !.values = @ @@ Usual]]]
Unit(type, values) == UnitOf({type}, values)
Bits(names) == [n \in names |-> {0, 1}]

Sps(values) == Unit(7, values)
Pps(values) == Unit(8, values)

Flags(n, s) == [x \in {At(n, i) : i \in s} |-> {0, 1}]
Lists(n) == At("ScalingList", n) :> {List(255, 1, 1, 0), List(8, 8, 8, 1)}

High == "profile_idc" :> {100}
Vui1 == ("vui_parameters_present_flag" :> {1})
PlainSps == Sps("profile_idc" :> {66})
PlainPps == Pps(<<>>)
WithTail(unit) == [unit EXCEPT !.tail = {FALSE, TRUE}]
Lists8(i) == At("ScalingList", i) :> {List(8, 1, 255, 0), List(9, 9, 9, 0)}

Slice(unit_types, types, values) ==
  UnitOf(unit_types, values @@ ("slice_type" :> types))
PlainSlice == Slice({1}, {I}, "nal_ref_idc" :> {0})
LayerSlice(types, values) == Slice({20}, types, values)
Subset(values) == Unit(15, values @@ ("profile_idc" :> {83}))

ReorderingBits == Bits(ReorderingFlags)
NoReordering == [n \in ReorderingFlags |-> {0}]
Weighted == Bits({At("luma_weight_l0_flag", 0), At("chroma_weight_l0_flag", 0),
                  At("chroma_weight_l1_flag", 1)})

MCStreams == Completed([
  \* SPSs: the one of a simple profile follows to find what was left behind.
  high |-> <<Sps(High @@ ("chroma_format_idc" :> {0, 1}) @@ Lists(0) @@ Lists(7)
                 @@ Bits({"seq_scaling_matrix_present_flag"})
                 @@ Flags("seq_scaling_list_present_flag", {0, 7})),
             PlainSps>>,
  sps |-> <<Sps(Bits({"frame_mbs_only_flag", "frame_cropping_flag",
                      "residual_colour_transform_flag"})
                @@ ("profile_idc" :> {66, 244}) @@ ("chroma_format_idc" :> {3})
                @@ ("pic_order_cnt_type" :> {0, 1, 2})
                @@ ("num_ref_frames_in_pic_order_cnt_cycle" :> {0, 2})),
            PlainSps>>,
  vui |-> <<Sps(Vui1 @@ Bits({"aspect_ratio_info_present_flag",
                      "overscan_info_present_flag", "chroma_loc_info_present_flag",
                      "video_signal_type_present_flag", "timing_info_present_flag",
                      "colour_description_present_flag"})
                @@ ("aspect_ratio_idc" :> {1, SAR_Extended})),
            PlainSps>>,
  hrd |-> <<Sps(Vui1 @@ Bits({"nal_hrd_parameters_present_flag",
                      "vcl_hrd_parameters_present_flag", "nal_cpb_cnt_minus1",
                      "vcl_cpb_cnt_minus1", "bitstream_restriction_flag"})),
            PlainSps>>,
  \* PPSs, each followed by one with little in it.
  groups |-> <<Pps(("num_slice_groups_minus1" :> {0, 1})
                   @@ ("slice_group_map_type" :> {0, 1, 2, 3, 5, 6})
                   @@ Bits({"weighted_pred_flag", "redundant_pic_cnt_present_flag"})),
               PlainPps>>,
  tail |-> <<WithTail(Pps(Lists8(0) @@ Lists8(6)
                          @@ Bits({"transform_8x8_mode_flag",
                                   "pic_scaling_matrix_present_flag"})
                          @@ Flags("pic_scaling_list_present_flag", {0, 6})
                          @@ ("second_chroma_qp_index_offset" :> {0, 3}))),
             PlainPps>>,
  \* Slices, each followed by one with little in it.
  order |-> <<Sps(Bits({"delta_pic_order_always_zero_flag", "frame_mbs_only_flag"})
                  @@ ("pic_order_cnt_type" :> {0, 1, 2})
                  @@ ("log2_max_frame_num_minus4" :> {0, 1})),
              Pps(Bits({"pic_order_present_flag"})),
              Slice({1, 5}, {I}, Bits({"field_pic_flag"})), PlainSlice>>,
  planes |-> <<Sps(("profile_idc" :> {244}) @@ ("chroma_format_idc" :> {3})
                   @@ Bits({"residual_colour_transform_flag"})),
               Pps(Bits({"redundant_pic_cnt_present_flag"})),
               Slice({1, 5}, {I}, Bits({"nal_ref_idc"})), PlainSlice>>,
  lists |-> <<PlainSps, PlainPps,
              Slice({1}, {P, B, SP + 5},
                    ReorderingBits @@ Bits({"num_ref_idx_active_override_flag"})
                    @@ (At("reordering_of_pic_nums_idc_l0", 0) :> {0, 2, 3})),
              PlainSlice>>,
  weights |-> <<PlainSps,
                Pps(Bits({"weighted_pred_flag", "num_ref_idx_l1_active_minus1"})
                    @@ ("weighted_bipred_idc" :> {0, 1, 2})),
                Slice({1}, {P, B, SP}, Weighted @@ NoReordering), PlainSlice>>,
  grey |-> <<Sps(High @@ ("chroma_format_idc" :> {0, 2})),
             Pps("weighted_bipred_idc" :> {1}),
             Slice({1}, {B}, Weighted @@ NoReordering), PlainSlice>>,
  marking |-> <<PlainSps, PlainPps,
                Slice({1, 5}, {I, SI},
                      Bits({"nal_ref_idc", "adaptive_ref_pic_marking_mode_flag"})
                      @@ (At("memory_management_control_operation", 0) :> 0..6)),
                PlainSlice>>,
  tools |-> <<PlainSps,
              Pps(Bits({"entropy_coding_mode_flag", "num_slice_groups_minus1",
                        "deblocking_filter_control_present_flag"})
                  @@ ("slice_group_map_type" :> {2, 4})),
              Slice({1}, {P, I, SP, SI},
                    NoReordering @@ ("disable_deblocking_filter_idc" :> {0, 1})),
              PlainSlice>>,
  \* Scalable streams.
  subset |-> <<Subset(("chroma_format_idc" :> {0, 1, 2})
                      @@ ("extended_spatial_scalability_idc" :> {0, 1, 2})
                      @@ Bits({"seq_tcoeff_level_prediction_flag"})
                      @@ ("profile_idc" :> {83, 86, 100})), PlainSps>>,
  svcvui |-> <<Subset(("svc_vui_parameters_present_flag" :> {1})
                      @@ Bits({"vui_ext_num_entries_minus1",
                               At("vui_ext_timing_info_present_flag", 1)})
                      @@ Flags("vui_ext_nal_hrd_parameters_present_flag", {0, 1})
                      @@ Flags("vui_ext_vcl_hrd_parameters_present_flag", {0})),
               PlainSps>>,
  layer |-> <<PlainSps, Subset(<<>>), PlainPps,
              LayerSlice({P, B}, ReorderingBits
                       @@ Bits({"nal_ref_idc", "use_ref_base_pic_flag",
                                "store_ref_base_pic_flag",
                                "adaptive_ref_base_pic_marking_mode_flag"})),
              LayerSlice({I}, "nal_ref_idc" :> {0})>>,
  interlayer |-> <<PlainSps,
                   Subset(("extended_spatial_scalability_idc" :> {0, 2})
                          @@ Bits({"slice_header_restriction_flag",
                                   "seq_tcoeff_level_prediction_flag"})),
                   PlainPps,
                   LayerSlice({I}, ("nal_ref_idc" :> {0})
                     @@ Bits({"no_inter_layer_pred_flag", "quality_id",
                              "slice_skip_flag", "adaptive_base_mode_flag"})),
                   LayerSlice({I}, ("no_inter_layer_pred_flag" :> {1}))>>,
  \* Two subset SPSs.  That the reader does not clear the extension of the first
  \* is not seen if the second holds all of the fields that slices depend on.
  layers |-> <<PlainSps, PlainPps,
               Subset(Bits({"seq_tcoeff_level_prediction_flag",
                            "adaptive_tcoeff_level_prediction_flag",
                            "slice_header_restriction_flag"})),
               LayerSlice({I}, "nal_ref_idc" :> {0}),
               Subset(("seq_tcoeff_level_prediction_flag" :> {1})
                      @@ Bits({"adaptive_tcoeff_level_prediction_flag",
                               "slice_header_restriction_flag"})),
               LayerSlice({I}, "nal_ref_idc" :> {0})>>,
  baseweights |-> <<PlainSps, Subset("chroma_format_idc" :> {0}),
                    Pps(("weighted_pred_flag" :> {1}) @@ ("weighted_bipred_idc" :> {1})
                        @@ Bits({"entropy_coding_mode_flag"})),
                    LayerSlice({P, B}, NoReordering
                      @@ Bits({"no_inter_layer_pred_flag", "base_pred_weight_table_flag"})),
                    LayerSlice({I}, <<>>)>>,
  prefix |-> <<Unit(14, Bits({"nal_ref_idc", "svc_extension_flag", "idr_flag",
                              "store_ref_base_pic_flag", "use_ref_base_pic_flag",
                              "adaptive_ref_base_pic_marking_mode_flag"})),
               PlainSlice, Unit(14, "nal_ref_idc" :> {0})>>,
  others |-> <<Unit(9, "primary_pic_type" :> {0, 7}), Unit(10, <<>>), PlainSps,
               Unit(11, <<>>), PlainPps, Slice({5, 19}, {I}, <<>>), PlainSlice>>
])

\* In this stream only the lists of 4:4:4 are at stake.
MCLists == Completed([
  lists444 |-> <<Sps(High @@ ("chroma_format_idc" :> {1, 3}) @@ Lists(0) @@ Lists(8)
                     @@ Bits({"residual_colour_transform_flag", "frame_mbs_only_flag",
                              "seq_scaling_matrix_present_flag"})
                     @@ Flags("seq_scaling_list_present_flag", {0, 8})),
                 PlainSps>>
])
============================================================================
