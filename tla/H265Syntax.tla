----------------------------- MODULE H265Syntax -----------------------------
(* What an encoder writes: the syntax tables of H.265 for the parameter     *)
(* sets (7.3.2, 7.3.3, 7.3.4, annexes E to I), the slice segment header and *)
(* st_ref_pic_set() (7.3.6, 7.3.7), with the values inferred for what is    *)
(* absent (7.4) and the pictures of a reference picture set (7.4.8).  This  *)
(* is the other side of the bitstream, and no part of the repository.       *)
EXTENDS SyntaxElements

WritesProfile ==
     U(2, "profile_space") \o Flag("tier_flag") \o U(5, "profile_idc")
  \o Times(32, Flag("profile_compatibility_flag"))
  \o Flag("progressive_source_flag") \o Flag("interlaced_source_flag")
  \o Flag("non_packed_constraint_flag") \o Flag("frame_only_constraint_flag")
  \o U(44, "reserved_zero_44bits")

(* The flags of eight sub-layers, two bits each, whatever their number. *)
WritesProfileTierLevel(c) ==
  LET Layer(i) == When(c.layer_profile[i], WritesProfile) \o When(c.layer_level[i], U(8, "level_idc"))
  IN  WritesProfile \o U(8, "level_idc")
      \o Loop(c.max_sub, LAMBDA i : Flag("sub_layer_profile_present_flag")
                                    \o Flag("sub_layer_level_present_flag"))
      \o When(c.max_sub > 0, Times(8 - c.max_sub, U(2, "reserved_zero_2bits")))
      \o Loop(c.max_sub, Layer)

WritesSubLayerOrdering(c) ==
  LET Layer == Ue("max_dec_pic_buffering_minus1") \o Ue("max_num_reorder_pics")
               \o Ue("max_latency_increase_plus1")
      signalled(i) == IF c.all_layers THEN i ELSE c.max_sub
  IN  Flag("sub_layer_ordering_info_present_flag")
      \o FlattenSeq([i \in 1 .. 1 + c.max_sub - signalled(0) |-> Layer])
      \o Is("sub_layer_ordering_info", [i \in 0 .. c.max_sub |-> c.ordering[signalled(i)]])

---------------------------------------------------------------------------

WritesHrdCommon(c) ==
     Flag("nal_hrd_parameters_present_flag") \o Flag("vcl_hrd_parameters_present_flag")
  \o When(c.nal \/ c.vcl, Flag("sub_pic_hrd_params_present_flag"))
  \o When((c.nal \/ c.vcl) /\ c.sub_pic,
          U(8, "tick_divisor_minus2") \o U(5, "du_cpb_removal_delay_increment_length_minus1")
          \o Flag("sub_pic_cpb_params_in_pic_timing_sei_flag")
          \o U(5, "dpb_output_delay_du_length_minus1"))
  \o When(c.nal \/ c.vcl, U(4, "bit_rate_scale") \o U(4, "cpb_size_scale"))
  \o When((c.nal \/ c.vcl) /\ c.sub_pic, U(4, "cpb_size_du_scale"))
  \o When(c.nal \/ c.vcl, U(5, "initial_cpb_removal_delay_length_minus1")
                          \o U(5, "au_cpb_removal_delay_length_minus1")
                          \o U(5, "dpb_output_delay_length_minus1"))

(* A general fixed rate is one within the sequence; a low-delay sub-layer   *)
(* has one schedule.                                                        *)
WritesHrdSubLayer(c) ==
  LET Schedule == Ue("bit_rate_value_minus1") \o Ue("cpb_size_value_minus1")
                  \o When(c.sub_pic, Ue("cpb_size_du_value_minus1")
                                     \o Ue("bit_rate_du_value_minus1"))
                  \o Flag("cbr_flag")
      fixed == c.general \/ c.within_cvs
      schedules == IF ~fixed /\ c.low_delay THEN 1 ELSE c.cpb_cnt
  IN  Flag("fixed_pic_rate_general_flag")
      \o When(~c.general, Flag("fixed_pic_rate_within_cvs_flag"))
      \o When(fixed, Ue("elemental_duration_in_tc_minus1"))
      \o When(~fixed, Flag("low_delay_hrd_flag"))
      \o When(fixed \/ ~c.low_delay, Ue("cpb_cnt_minus1"))
      \o Times((IF c.nal THEN schedules ELSE 0) + (IF c.vcl THEN schedules ELSE 0), Schedule)

(* Without a common part the one of the structure before applies. *)
WritesHrd(c) == When(c.common, WritesHrdCommon(c)) \o Times(c.max_sub + 1, WritesHrdSubLayer(c))

---------------------------------------------------------------------------

WritesWindow == Ue("left_offset") \o Ue("right_offset") \o Ue("top_offset") \o Ue("bottom_offset")

WritesVuiDisplay(c) ==
     Flag("aspect_ratio_info_present_flag")
  \o When(c.aspect, U(8, "aspect_ratio_idc"))
  \o When(c.aspect /\ c.extended_sar, U(16, "sar_width") \o U(16, "sar_height"))
  \o Flag("overscan_info_present_flag") \o When(c.overscan, Flag("overscan_appropriate_flag"))
  \o Flag("video_signal_type_present_flag")
  \o When(c.signal, U(3, "video_format") \o Flag("video_full_range_flag")
                    \o Flag("colour_description_present_flag"))
  \o When(c.signal /\ c.colour, U(8, "colour_primaries") \o U(8, "transfer_characteristics")
                                \o U(8, "matrix_coeffs"))
  \o Flag("chroma_loc_info_present_flag")
  \o When(c.location, Ue("chroma_sample_loc_type_top_field")
                      \o Ue("chroma_sample_loc_type_bottom_field"))
  \o Flag("neutral_chroma_indication_flag") \o Flag("field_seq_flag")
  \o Flag("frame_field_info_present_flag")
  \o Flag("default_display_window_flag") \o When(c.window, WritesWindow)

WritesVuiTiming(c) ==
     Flag("vui_timing_info_present_flag")
  \o When(c.timing, U(32, "num_units_in_tick") \o U(32, "time_scale")
                    \o Flag("poc_proportional_to_timing_flag"))
  \o When(c.timing /\ c.proportional, Ue("num_ticks_poc_diff_one_minus1"))
  \o When(c.timing, Flag("hrd_parameters_present_flag"))
  \o When(c.timing /\ c.hrd, WritesHrd(c))
  \o Flag("bitstream_restriction_flag")
  \o When(c.restricted,
          Flag("tiles_fixed_structure_flag") \o Flag("motion_vectors_over_pic_boundaries_flag")
          \o Flag("restricted_ref_pic_lists_flag") \o Ue("min_spatial_segmentation_idc")
          \o Ue("max_bytes_per_pic_denom") \o Ue("max_bits_per_min_cu_denom")
          \o Ue("log2_max_mv_length_horizontal") \o Ue("log2_max_mv_length_vertical"))

(* Six matrices of each size, but two of the largest. *)
WritesScalingLists(c) ==
  LET Matrix(size, id) ==
        Flag("scaling_list_pred_mode_flag")
        \o IF <<size, id>> \in c.predicted THEN Ue("scaling_list_pred_matrix_id_delta")
           ELSE When(size > 1, Se("scaling_list_dc_coef_minus8"))
                \o Times(IF size = 0 THEN 16 ELSE 64, Se("scaling_list_delta_coef"))
  IN  Loop(6, LAMBDA m : Matrix(0, m - 1)) \o Loop(6, LAMBDA m : Matrix(1, m - 1))
      \o Loop(6, LAMBDA m : Matrix(2, m - 1)) \o Matrix(3, 0) \o Matrix(3, 3)

---------------------------------------------------------------------------
(* Video parameter set *)

WritesVpsStart(c) ==
     U(4, "vps_video_parameter_set_id") \o Flag("vps_base_layer_internal_flag")
  \o Flag("vps_base_layer_available_flag") \o U(6, "vps_max_layers_minus1")
  \o U(3, "vps_max_sub_layers_minus1") \o Flag("vps_temporal_id_nesting_flag")
  \o U(16, "vps_reserved_0xffff_16bits")

WritesVpsLayerSets(c) ==
     U(6, "vps_max_layer_id") \o Ue("vps_num_layer_sets_minus1")
  \o Times(c.layer_sets * (c.max_layer_id + 1), Flag("layer_id_included_flag"))
  \o Is("layer_ids", [i \in 0 .. c.layer_sets |->
                        IF i = 0 THEN {0} ELSE {j \in 0 .. c.max_layer_id : c.included[i][j]}])

WritesVpsTiming(c) ==
     Flag("vps_timing_info_present_flag")
  \o When(c.timing,
          U(32, "num_units_in_tick") \o U(32, "time_scale") \o Flag("poc_proportional_to_timing_flag")
          \o When(c.proportional, Ue("num_ticks_poc_diff_one_minus1"))
          \o Ue("vps_num_hrd_parameters")
          \o When(c.hrds > 0, Ue("hrd_layer_set_idx") \o WritesHrd([c EXCEPT !.common = TRUE]))
          \o Times(c.hrds - 1, Ue("hrd_layer_set_idx") \o Flag("cprms_present_flag") \o WritesHrd(c)))

WritesExtension(c) == Times(c.data, Flag("extension_data_flag"))
WritesVpsExtension(c) == Flag("vps_extension_flag") \o When(c.extension, WritesExtension(c))

---------------------------------------------------------------------------
(* Sequence parameter set *)

WritesSpsStart(c) ==
     U(4, "sps_video_parameter_set_id") \o U(3, "sps_max_sub_layers_minus1")
  \o Flag("sps_temporal_id_nesting_flag") \o WritesProfileTierLevel(c)
  \o Ue("sps_seq_parameter_set_id") \o Ue("chroma_format_idc")
  \o When(c.chroma_format = 3, Flag("separate_colour_plane_flag"))

(* The conformance window in luma samples, of which the picture has some. *)
WritesSpsPicture(c) ==
  LET width == <<1, 2, 2, 1>>[c.chroma_format + 1]
      height == <<1, 2, 1, 1>>[c.chroma_format + 1]
      o == c.offsets
  IN  Ue("pic_width_in_luma_samples") \o Ue("pic_height_in_luma_samples")
      \o Flag("conformance_window_flag") \o When(c.window, WritesWindow)
      \o Is("display", <<c.width - width * (o[1] + o[2]), c.height - height * (o[3] + o[4])>>)

WritesSpsCoding(c) ==
     Ue("bit_depth_luma_minus8") \o Ue("bit_depth_chroma_minus8")
  \o Ue("log2_max_pic_order_cnt_lsb_minus4")
  \o WritesSubLayerOrdering(c)
  \o Ue("log2_min_luma_coding_block_size_minus3") \o Ue("log2_diff_max_min_luma_coding_block_size")
  \o Ue("log2_min_luma_transform_block_size_minus2")
  \o Ue("log2_diff_max_min_luma_transform_block_size")
  \o Ue("max_transform_hierarchy_depth_inter") \o Ue("max_transform_hierarchy_depth_intra")

WritesSpsTools(c) ==
     Flag("scaling_list_enabled_flag")
  \o When(c.scaling, Flag("sps_scaling_list_data_present_flag"))
  \o When(c.scaling /\ c.lists, WritesScalingLists(c))
  \o Flag("amp_enabled_flag") \o Flag("sample_adaptive_offset_enabled_flag")
  \o Flag("pcm_enabled_flag")
  \o When(c.pcm, U(4, "pcm_sample_bit_depth_luma_minus1")
                 \o U(4, "pcm_sample_bit_depth_chroma_minus1")
                 \o Ue("log2_min_pcm_luma_coding_block_size_minus3")
                 \o Ue("log2_diff_max_min_pcm_luma_coding_block_size")
                 \o Flag("pcm_loop_filter_disabled_flag"))
  \o Ue("num_short_term_ref_pic_sets")

WritesSpsReferences(c) ==
     Flag("long_term_ref_pics_present_flag")
  \o When(c.long_term, Ue("num_long_term_ref_pics_sps")
                       \o Times(c.sps_count, U(c.lsb_bits, "lt_ref_pic_poc_lsb_sps")
                                             \o Flag("used_by_curr_pic_lt_sps_flag")))
  \o Flag("sps_temporal_mvp_enabled_flag") \o Flag("strong_intra_smoothing_enabled_flag")
  \o Flag("vui_parameters_present_flag")

WritesPalette(first, second, planes, entries, name) ==
  Times(entries, U(first, name)) \o Times((planes - 1) * entries, U(second, name))

WritesSpsScc(c) ==
     Flag("sps_curr_pic_ref_enabled_flag") \o Flag("palette_mode_enabled_flag")
  \o When(c.palette, Ue("palette_max_size") \o Ue("delta_palette_max_predictor_size")
                     \o Flag("sps_palette_predictor_initializers_present_flag"))
  \o When(c.palette /\ c.initialisers > 0,
          Ue("sps_num_palette_predictor_initializers_minus1")
          \o WritesPalette(c.luma_depth, c.chroma_depth, IF c.chroma_format = 0 THEN 1 ELSE 3,
                           c.initialisers, "sps_palette_predictor_initializer"))
  \o U(2, "motion_vector_resolution_control_idc") \o Flag("intra_boundary_filtering_disabled_flag")

WritesSps3d ==
     Flag("iv_di_mc_enabled_flag") \o Flag("iv_mv_scal_enabled_flag")
  \o Ue("log2_ivmc_sub_pb_size_minus3") \o Flag("iv_res_pred_enabled_flag")
  \o Flag("depth_ref_enabled_flag") \o Flag("vsp_mc_enabled_flag") \o Flag("dbbp_enabled_flag")
  \o Flag("iv_di_mc_enabled_flag") \o Flag("iv_mv_scal_enabled_flag")
  \o Flag("tex_mc_enabled_flag") \o Ue("log2_texmc_sub_pb_size_minus3")
  \o Flag("intra_contour_enabled_flag") \o Flag("intra_dc_only_wedge_enabled_flag")
  \o Flag("cqt_cu_part_pred_enabled_flag") \o Flag("inter_dc_only_enabled_flag")
  \o Flag("skip_intra_enabled_flag")

WritesSpsRange ==
     Flag("transform_skip_rotation_enabled_flag") \o Flag("transform_skip_context_enabled_flag")
  \o Flag("implicit_rdpcm_enabled_flag") \o Flag("explicit_rdpcm_enabled_flag")
  \o Flag("extended_precision_processing_flag") \o Flag("intra_smoothing_disabled_flag")
  \o Flag("high_precision_offsets_enabled_flag") \o Flag("persistent_rice_adaptation_enabled_flag")
  \o Flag("cabac_bypass_alignment_enabled_flag")

WritesSpsExtension(c) ==
     Flag("sps_extension_present_flag")
  \o When(c.extension, Flag("range_extension_flag") \o Flag("multilayer_extension_flag")
                       \o Flag("3d_extension_flag") \o Flag("scc_extension_flag")
                       \o Times(4, Flag("extension_4bits")))
  \o When(c.extension /\ c.range, WritesSpsRange)
  \o When(c.extension /\ c.multilayer, Flag("inter_view_mv_vert_constraint_flag"))
  \o When(c.extension /\ c.depth, WritesSps3d)
  \o When(c.extension /\ c.scc, WritesSpsScc(c))
  \o When(c.extension, WritesExtension(c))

---------------------------------------------------------------------------
(* Picture parameter set *)

WritesPpsStart(c) ==
     Ue("pps_pic_parameter_set_id") \o Ue("pps_seq_parameter_set_id")
  \o Flag("dependent_slice_segments_enabled_flag") \o Flag("output_flag_present_flag")
  \o U(3, "num_extra_slice_header_bits") \o Flag("sign_data_hiding_enabled_flag")
  \o Flag("cabac_init_present_flag") \o Ue("num_ref_idx_l0_default_active_minus1")
  \o Ue("num_ref_idx_l1_default_active_minus1") \o Se("init_qp_minus26")
  \o Flag("constrained_intra_pred_flag") \o Flag("transform_skip_enabled_flag")
  \o Flag("cu_qp_delta_enabled_flag") \o When(c.cu_qp_delta, Ue("diff_cu_qp_delta_depth"))
  \o Se("pps_cb_qp_offset") \o Se("pps_cr_qp_offset")
  \o Flag("pps_slice_chroma_qp_offsets_present_flag") \o Flag("weighted_pred_flag")
  \o Flag("weighted_bipred_flag") \o Flag("transquant_bypass_enabled_flag")

WritesPpsTiles(c) ==
     Flag("tiles_enabled_flag") \o Flag("entropy_coding_sync_enabled_flag")
  \o When(c.tiles, Ue("num_tile_columns_minus1") \o Ue("num_tile_rows_minus1")
                   \o Flag("uniform_spacing_flag"))
  \o When(c.tiles /\ ~c.uniform, Times(c.columns - 1, Ue("column_width_minus1"))
                                 \o Times(c.rows - 1, Ue("row_height_minus1")))
  \o When(c.tiles, Flag("loop_filter_across_tiles_enabled_flag"))

WritesPpsTail(c) ==
     Flag("pps_loop_filter_across_slices_enabled_flag")
  \o Flag("deblocking_filter_control_present_flag")
  \o When(c.control, Flag("deblocking_filter_override_enabled_flag")
                     \o Flag("pps_deblocking_filter_disabled_flag"))
  \o When(c.control /\ ~c.disabled, Se("pps_beta_offset_div2") \o Se("pps_tc_offset_div2"))
  \o Is("pps_deblocking_filter_disabled_flag", c.disabled)
  \o Flag("pps_scaling_list_data_present_flag") \o When(c.lists, WritesScalingLists(c))
  \o Flag("lists_modification_present_flag") \o Ue("log2_parallel_merge_level_minus2")
  \o Flag("slice_segment_header_extension_present_flag")

WritesPpsRange(c) ==
     When(c.transform_skip, Ue("log2_max_transform_skip_block_size_minus2"))
  \o Flag("cross_component_prediction_enabled_flag") \o Flag("chroma_qp_offset_list_enabled_flag")
  \o When(c.offset_lists > 0, Ue("diff_cu_chroma_qp_offset_depth")
                              \o Ue("chroma_qp_offset_list_len_minus1"))
  \o Times(c.offset_lists, Se("cb_qp_offset_list") \o Se("cr_qp_offset_list"))
  \o Ue("log2_sao_offset_scale_luma") \o Ue("log2_sao_offset_scale_chroma")

WritesPpsScc(c) ==
     Flag("pps_curr_pic_ref_enabled_flag") \o Flag("residual_adaptive_colour_transform_enabled_flag")
  \o When(c.act, Flag("pps_slice_act_qp_offsets_present_flag") \o Se("pps_act_y_qp_offset_plus5")
                 \o Se("pps_act_cb_qp_offset_plus5") \o Se("pps_act_cr_qp_offset_plus3"))
  \o Flag("pps_palette_predictor_initializers_present_flag")
  \o When(c.palette, Ue("pps_num_palette_predictor_initializers"))
  \o When(c.palette /\ c.initialisers > 0,
          Flag("monochrome_palette_flag") \o Ue("luma_bit_depth_entry_minus8")
          \o When(~c.monochrome, Ue("chroma_bit_depth_entry_minus8"))
          \o WritesPalette(c.luma_depth, c.chroma_depth, IF c.monochrome THEN 1 ELSE 3,
                           c.initialisers, "pps_palette_predictor_initializer"))

WritesPpsLocations(c) ==
  LET Offsets4(name) == Times(4, Se(name))
      Location ==
           U(6, "ref_loc_offset_layer_id")
        \o Flag("scaled_ref_layer_offset_present_flag")
        \o When(c.scaled, Offsets4("scaled_ref_layer_offset"))
        \o Flag("ref_region_offset_present_flag") \o When(c.region, Offsets4("ref_region_offset"))
        \o Flag("resample_phase_set_present_flag")
        \o When(c.phase, Ue("phase_hor_luma") \o Ue("phase_ver_luma")
                         \o Ue("phase_hor_chroma_plus8") \o Ue("phase_ver_chroma_plus8"))
  IN  Flag("poc_reset_info_present_flag") \o Flag("pps_infer_scaling_list_flag")
      \o When(c.inferred_lists, U(6, "pps_scaling_list_ref_layer_id"))
      \o Ue("num_ref_loc_offsets") \o Times(c.locations, Location)

(* The octants split, down to the depth of the table at most. *)
WritesPpsColourMapping(c) ==
  LET rest == 10 + c.input_depth - c.output_depth - c.quant_bits - c.flc_bits
      Residual == Ue("res_coeff_q") \o U(IF rest < 0 THEN 0 ELSE rest, "res_coeff_r")
                  \o When(c.nonzero, Flag("res_coeff_s"))
      Leaf == Times(4 * 2 ^ c.y_parts, Flag("coded_res_flag") \o When(c.coded, Times(3, Residual)))
      Tree[depth \in 0 .. c.octant_depth] ==
        IF depth = c.octant_depth THEN Leaf
        ELSE Flag("split_octant_flag") \o IF c.split THEN Times(8, Tree[depth + 1]) ELSE Leaf
  IN  Flag("colour_mapping_enabled_flag")
      \o When(c.colour_mapping,
              Ue("num_cm_ref_layers_minus1") \o Times(c.cm_layers, U(6, "cm_ref_layer_id"))
              \o U(2, "cm_octant_depth") \o U(2, "cm_y_part_num_log2")
              \o Ue("luma_bit_depth_cm_input_minus8") \o Ue("chroma_bit_depth_cm_input_minus8")
              \o Ue("luma_bit_depth_cm_output_minus8") \o Ue("chroma_bit_depth_cm_output_minus8")
              \o U(2, "cm_res_quant_bits") \o U(2, "cm_delta_flc_bits_minus1")
              \o When(c.octant_depth = 1, Se("cm_adapt_threshold_u_delta")
                                          \o Se("cm_adapt_threshold_v_delta"))
              \o Tree[0])

(* delta_dlt(): the first value, then the differences that exceed the least. *)
WritesDeltaDlt(c) ==
  LET max_diff == IF c.values > 1 THEN c.max_diff ELSE 0
      min_diff == IF c.values > 2 /\ max_diff > 0 THEN c.min_diff ELSE max_diff
  IN  U(c.value_bits, "num_val_delta_dlt")
      \o When(c.values > 1, U(c.value_bits, "max_diff"))
      \o When(c.values > 2 /\ max_diff > 0, U(CodeLength(max_diff + 1), "min_diff_minus1"))
      \o When(c.values > 0, U(c.value_bits, "delta_dlt_val0"))
      \o When(max_diff > min_diff,
              Times(c.values - 1, U(CodeLength(max_diff - min_diff + 1), "delta_val_diff_minus_min")))

WritesPps3d(c) ==
  LET Table ==
        Flag("dlt_flag") \o When(c.table, Flag("dlt_pred_flag"))
        \o When(c.table /\ ~c.predicted_table,
                Flag("dlt_val_flags_present_flag")
                \o IF c.value_flags THEN Times(2 ^ c.value_bits, Flag("dlt_value_flag"))
                   ELSE WritesDeltaDlt(c))
  IN  Flag("dlts_present_flag")
      \o When(c.dlts, U(6, "pps_depth_layers_minus1") \o U(4, "pps_bit_depth_for_depth_layers_minus8")
                      \o Times(c.depth_layers, Table))

WritesPpsExtensions(c) ==
     Flag("pps_extension_present_flag")
  \o When(c.extension, Flag("range_extension_flag") \o Flag("multilayer_extension_flag")
                       \o Flag("3d_extension_flag") \o Flag("scc_extension_flag")
                       \o Times(4, Flag("extension_4bits")))
  \o When(c.extension /\ c.range, WritesPpsRange(c))
  \o When(c.extension /\ c.multilayer, WritesPpsLocations(c) \o WritesPpsColourMapping(c))
  \o When(c.extension /\ c.depth, WritesPps3d(c))
  \o When(c.extension /\ c.scc, WritesPpsScc(c))
  \o When(c.extension, WritesExtension(c))

---------------------------------------------------------------------------
(* Slice segment header *)

ChromaArrayType(c) == IF c.planes THEN 0 ELSE c.chroma_format
Inter(c) == c.type \in {0, 1}
Bidirectional(c) == c.type = 0

CtbsOf(samples, ctb) == CHOOSE n \in 0 .. samples : ctb * n >= samples /\ ctb * (n - 1) < samples

WritesSegmentStart(c) ==
     Flag("first_slice_segment_in_pic_flag")
  \o When(c.irap, Flag("no_output_of_prior_pics_flag"))
  \o Ue("slice_pic_parameter_set_id")
  \o When(~c.first,
          When(c.dependent_enabled, Flag("dependent_slice_segment_flag"))
          \o U(CodeLength(CtbsOf(c.width, c.ctb) * CtbsOf(c.height, c.ctb)),
               "slice_segment_address"))

WritesSliceKind(c) ==
     Loop(c.extra_bits, LAMBDA i : Flag("slice_reserved_flag"))
  \o Ue("slice_type")
  \o When(c.output_present, Flag("pic_output_flag"))
  \o Is("pic_output_flag", c.output)
  \o When(c.planes, U(2, "colour_plane_id"))

WritesReferenceSetChoice(c) ==
     U(c.lsb_bits, "slice_pic_order_cnt_lsb")
  \o Flag("short_term_ref_pic_set_sps_flag")
  \o When(c.from_sps, U(CodeLength(c.sets), "short_term_ref_pic_set_idx"))

WritesLongTermReferences(c) ==
  LET Entry(i) ==
           IF i <= c.from_sps
           THEN U(CodeLength(c.sps_count), "lt_idx_sps")
           ELSE U(c.lsb_bits, "poc_lsb_lt") \o Flag("used_by_curr_pic_lt_flag")
      Msb(i) == Flag("delta_poc_msb_present_flag") \o When(c.msb[i], Ue("delta_poc_msb_cycle_lt"))
  IN  When(c.long_term_present,
           When(c.sps_count > 0, Ue("num_long_term_sps"))
           \o Ue("num_long_term_pics")
           \o Loop(c.from_sps + c.own, LAMBDA i : Entry(i) \o Msb(i)))

WritesTemporalMvp(c) ==
     When(~c.idr /\ c.sps_temporal_mvp, Flag("slice_temporal_mvp_enabled_flag"))
  \o Is("slice_temporal_mvp_enabled_flag", c.tmvp)

WritesSampleAdaptiveOffset(c) ==
     When(c.sao_enabled,
          Flag("slice_sao_luma_flag")
          \o When(ChromaArrayType(c) # 0, Flag("slice_sao_chroma_flag")))
  \o Is("slice_sao_luma_flag", c.sao_luma)
  \o Is("slice_sao_chroma_flag", c.sao_chroma)

WritesReferenceCounts(c) ==
     When(Inter(c),
          Flag("num_ref_idx_active_override_flag")
          \o When(c.override,
                  Ue("num_ref_idx_l0_active_minus1")
                  \o When(Bidirectional(c), Ue("num_ref_idx_l1_active_minus1"))))
  \o Is("num_ref_idx_active",
        [list \in 1 .. 2 |-> IF ~Inter(c) \/ (list = 2 /\ ~Bidirectional(c)) THEN 0
                             ELSE IF c.override THEN c.active[list] ELSE c.default[list]])

WritesListModification(c) ==
  LET Lists == IF Bidirectional(c) THEN 2 ELSE 1
      flag == <<"ref_pic_list_modification_flag_l0", "ref_pic_list_modification_flag_l1">>
  IN  When(Inter(c) /\ c.lists_modification_present /\ c.total > 1,
           Loop(Lists, LAMBDA x :
             Flag(flag[x])
             \o When(c.modified[x],
                     Loop(c.n[x], LAMBDA i : U(CodeLength(c.total), "list_entry")))))

WritesMvdAndCabac(c) ==
  When(Inter(c),
       When(Bidirectional(c), Flag("mvd_l1_zero_flag"))
       \o When(c.cabac_init_present, Flag("cabac_init_flag")))

WritesCollocated(c) ==
     When(Inter(c) /\ c.tmvp,
          When(Bidirectional(c), Flag("collocated_from_l0_flag"))
          \o When((c.from_l0 /\ c.n[1] > 1) \/ (~c.from_l0 /\ c.n[2] > 1),
                  Ue("collocated_ref_idx")))
  \o Is("collocated_from_l0_flag", c.from_l0)

WritesWeightTable(c) ==
  LET colour == ChromaArrayType(c) # 0
      Flags(x) == Loop(c.n[x], LAMBDA i : Flag("luma_weight_flag"))
                  \o When(colour, Loop(c.n[x], LAMBDA i : Flag("chroma_weight_flag")))
      Luma(x, i) == When(c.luma[x][i], Se("delta_luma_weight") \o Se("luma_offset"))
      Chroma(x, i) == When(colour /\ c.chroma[x][i],
                           Loop(2, LAMBDA j : Se("delta_chroma_weight")
                                              \o Se("delta_chroma_offset")))
      List(x) == Flags(x) \o Loop(c.n[x], LAMBDA i : Luma(x, i) \o Chroma(x, i))
  IN  When((c.weighted_pred /\ c.type = 1) \/ (c.weighted_bipred /\ c.type = 0),
           Ue("luma_log2_weight_denom")
           \o When(colour, Se("delta_chroma_log2_weight_denom"))
           \o List(1) \o When(Bidirectional(c), List(2)))

WritesMergeAndQp(c) ==
     When(Inter(c), Ue("five_minus_max_num_merge_cand")
                    \o When(c.integer_mv_choice, Flag("use_integer_mv_flag")))
  \o Is("five_minus_max_num_merge_cand", c.five_minus)
  \o Se("slice_qp_delta")
  \o When(c.chroma_qp_offsets_present, Se("slice_cb_qp_offset") \o Se("slice_cr_qp_offset"))
  \o When(c.act_offsets_present, Loop(3, LAMBDA i : Se("slice_act_qp_offset")))
  \o When(c.chroma_offset_list, Flag("cu_chroma_qp_offset_enabled_flag"))

WritesDeblocking(c) ==
     When(c.override_enabled, Flag("deblocking_filter_override_flag"))
  \o When(c.override,
          Flag("slice_deblocking_filter_disabled_flag")
          \o When(~c.disabled, Se("slice_beta_offset_div2") \o Se("slice_tc_offset_div2")))
  \o Is("slice_deblocking_filter_disabled_flag", c.disabled)

WritesFilterAcross(c) ==
     When(c.pps_across /\ (c.sao_luma \/ c.sao_chroma \/ ~c.disabled),
          Flag("slice_loop_filter_across_slices_enabled_flag"))
  \o Is("slice_loop_filter_across_slices_enabled_flag", c.across)

WritesEntryPoints(c) ==
  When(c.tiles \/ c.entropy_sync,
       Ue("num_entry_point_offsets")
       \o When(c.entries > 0,
               Ue("offset_len_minus1")
               \o Loop(c.entries, LAMBDA i : U(c.offset_len, "entry_point_offset_minus1"))))

WritesSliceExtension(c) ==
  When(c.extension_present,
       Ue("slice_segment_header_extension_length")
       \o Loop(c.extension, LAMBDA i : U(8, "slice_segment_header_extension_data_byte")))

---------------------------------------------------------------------------
(* st_ref_pic_set() and the pictures it stands for: before and after are   *)
(* the deltas of a set, nearest first, with whether they are used (7-61,   *)
(* 7-62); the flags of a prediction follow the reference's before, after,  *)
(* and the reference picture itself.                                       *)

NoSet == [before |-> << >>, after |-> << >>]
PicsOf(set) == set.before \o set.after

ExplicitSet(c) ==
  LET Sum(d, i) == FoldLeft(+, 0, SubSeq(d, 1, i))
  IN  [before |-> [i \in DOMAIN c.neg |-> [delta |-> -Sum(c.neg, i), used |-> c.neg_used[i]]],
       after |-> [i \in DOMAIN c.pos |-> [delta |-> Sum(c.pos, i), used |-> c.pos_used[i]]]]

PredictedSet(reference, c) ==
  LET pics == Append(PicsOf(reference), [delta |-> 0, used |-> FALSE])
      Candidate(j) == [delta |-> pics[j].delta + c.delta, used |-> c.entries[j] = "used"]
      taken == {Candidate(j) : j \in {i \in DOMAIN pics : c.entries[i] # "dropped"}}
      Nearer(a, b) == a.delta * a.delta < b.delta * b.delta
  IN  [before |-> SetToSortSeq({p \in taken : p.delta < 0}, Nearer),
       after |-> SetToSortSeq({p \in taken : p.delta > 0}, Nearer)]

SetWritten(sets, c) == IF c.inter THEN PredictedSet(sets[c.ref], c) ELSE ExplicitSet(c)

WritesRefPicSet(sets, c) ==
  LET Pic(i) == Ue("delta_poc_minus1") \o Flag("used_by_curr_pic_flag")
  IN  When(sets # << >>, Flag("inter_ref_pic_set_prediction_flag"))
      \o When(c.inter,
              When(c.in_slice, Ue("delta_idx_minus1"))
              \o Flag("delta_rps_sign") \o Ue("abs_delta_rps_minus1")
              \o Loop(Len(PicsOf(sets[c.ref])) + 1, LAMBDA j :
                   Flag("used_by_curr_pic_flag")
                   \o When(c.entries[j] # "used", Flag("use_delta_flag"))))
      \o When(~c.inter,
              Ue("num_negative_pics") \o Ue("num_positive_pics")
              \o Loop(Len(c.neg) + Len(c.pos), Pic))
=============================================================================
