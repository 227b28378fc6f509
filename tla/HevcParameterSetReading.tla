---------------------- MODULE HevcParameterSetReading ----------------------
(* The video, sequence and picture parameter sets of HEVC as their parsers *)
(* read them, with the profile, HRD, VUI and scaling-list syntax they      *)
(* share: one operator per parse function, from the fields c of the        *)
(* structure to the elements that are read and the values the structure    *)
(* then holds                                                              *)
(* (src/parser/hevc_{vps,sps,pps,profile_tier_level,hrd,vui}_parser.hpp).  *)
(* Below, one action per group of parse functions, with the fields that an *)
(* encoder may choose there.  Fields that no other choice touches have a   *)
(* value of their own in the record that each choice falls back on.        *)
EXTENDS SyntaxReading, H265Syntax

Monochrome == 0
YUV420 == 1
YUV422 == 2
YUV444 == 3

---------------------------------------------------------------------------
(* profile_tier_level() *)

Profile == U(2, "profile_space") \o Flag("tier_flag") \o U(5, "profile_idc")
           \o Times(32, Flag("profile_compatibility_flag"))
           \o Each(Flag, <<"progressive_source_flag", "interlaced_source_flag",
                           "non_packed_constraint_flag", "frame_only_constraint_flag">>)
           \o U(44, "reserved_zero_44bits")

(* Two reserved bits for each sub-layer that is not there but the last. *)
ProfileTierLevel(c) ==
     Require(c.max_sub < 8, "MaxNumSubLayersMinus1")
  \o Profile \o U(8, "level_idc")
  \o Loop(c.max_sub, LAMBDA i : Flag("sub_layer_profile_present_flag")
                                \o Flag("sub_layer_level_present_flag"))
  \o When(c.max_sub > 0, Times(8 - (c.max_sub + 1), U(2, "reserved_zero_2bits")))
  \o Loop(c.max_sub, LAMBDA i : When(c.layer_profile[i], Profile)
                                \o When(c.layer_level[i], U(8, "level_idc")))

(* The same of the SPS and of the VPS: without the flag only the highest   *)
(* sub-layer is read, and copied to the others.                            *)
SubLayerOrdering(c) ==
     Flag("sub_layer_ordering_info_present_flag")
  \o Times(IF c.all_layers THEN c.max_sub + 1 ELSE 1,
           Each(Ue, <<"max_dec_pic_buffering_minus1", "max_num_reorder_pics",
                      "max_latency_increase_plus1">>))
  \o Is("sub_layer_ordering_info",
        [i \in 0 .. c.max_sub |-> IF c.all_layers THEN c.ordering[i] ELSE c.ordering[c.max_sub]])

---------------------------------------------------------------------------
(* hrd_parameters(); c.common is the commonInfPresentFlag.                 *)

HrdCommon(c) ==
     Flag("nal_hrd_parameters_present_flag") \o Flag("vcl_hrd_parameters_present_flag")
  \o When(c.nal \/ c.vcl,
          Flag("sub_pic_hrd_params_present_flag")
          \o When(c.sub_pic, U(8, "tick_divisor_minus2")
                             \o U(5, "du_cpb_removal_delay_increment_length_minus1")
                             \o Flag("sub_pic_cpb_params_in_pic_timing_sei_flag")
                             \o U(5, "dpb_output_delay_du_length_minus1"))
          \o U(4, "bit_rate_scale") \o U(4, "cpb_size_scale")
          \o When(c.sub_pic, U(4, "cpb_size_du_scale"))
          \o U(5, "initial_cpb_removal_delay_length_minus1")
          \o U(5, "au_cpb_removal_delay_length_minus1") \o U(5, "dpb_output_delay_length_minus1"))

SubLayerHrd(c) ==
  Require(c.cpb_cnt <= 32, "cpb_cnt_minus1")
  \o Times(c.cpb_cnt,
           Ue("bit_rate_value_minus1") \o Ue("cpb_size_value_minus1")
           \o When(c.sub_pic, Ue("cpb_size_du_value_minus1") \o Ue("bit_rate_du_value_minus1"))
           \o Flag("cbr_flag"))

(* Fault: the number of schedules is read for a low-delay sub-layer too. *)
HrdSubLayerAlwaysCounted(c) ==
  Flag("fixed_pic_rate_general_flag")
  \o When(~c.general, Flag("fixed_pic_rate_within_cvs_flag"))
  \o (IF c.general \/ c.within_cvs THEN Ue("elemental_duration_in_tc_minus1")
      ELSE Flag("low_delay_hrd_flag"))
  \o Ue("cpb_cnt_minus1")
  \o When(c.nal, SubLayerHrd(c)) \o When(c.vcl, SubLayerHrd(c))

(* One schedule where the number of schedules is not read. *)
HrdSubLayer(c) ==
  LET within == c.general \/ c.within_cvs
      low == ~within /\ c.low_delay
      d == [c EXCEPT !.cpb_cnt = IF low THEN 1 ELSE c.cpb_cnt]
  IN  Flag("fixed_pic_rate_general_flag")
      \o When(~c.general, Flag("fixed_pic_rate_within_cvs_flag"))
      \o (IF within THEN Ue("elemental_duration_in_tc_minus1") ELSE Flag("low_delay_hrd_flag"))
      \o When(~low, Ue("cpb_cnt_minus1"))
      \o When(c.nal, SubLayerHrd(d))
      \o When(c.vcl, SubLayerHrd(d))

(* A structure without common part is read as one that has no schedules. *)
HrdParameters(c) ==
  LET d == IF c.common THEN c ELSE [c EXCEPT !.nal = FALSE, !.vcl = FALSE, !.sub_pic = FALSE]
  IN  When(c.common, HrdCommon(c)) \o Times(c.max_sub + 1, HrdSubLayer(d))

---------------------------------------------------------------------------
(* vui_parameters() *)

VuiAspectRatio(c) ==
  Flag("aspect_ratio_info_present_flag")
  \o When(c.aspect, U(8, "aspect_ratio_idc")
                    \o When(c.extended_sar, U(16, "sar_width") \o U(16, "sar_height")))

VuiOverscan(c) == Flag("overscan_info_present_flag")
                  \o When(c.overscan, Flag("overscan_appropriate_flag"))

VuiVideoSignalType(c) ==
  Flag("video_signal_type_present_flag")
  \o When(c.signal, U(3, "video_format") \o Flag("video_full_range_flag")
                    \o Flag("colour_description_present_flag")
                    \o When(c.colour, Each(LAMBDA n : U(8, n), <<"colour_primaries",
                                 "transfer_characteristics", "matrix_coeffs">>)))

VuiChromaLocation(c) ==
  Flag("chroma_loc_info_present_flag")
  \o When(c.location, Ue("chroma_sample_loc_type_top_field")
                      \o Ue("chroma_sample_loc_type_bottom_field"))

(* A window is its four offsets. *)
Window == Each(Ue, <<"left_offset", "right_offset", "top_offset", "bottom_offset">>)
VuiDisplayWindow(c) == Flag("default_display_window_flag") \o When(c.window, Window)

VuiTiming(c) ==
  Flag("vui_timing_info_present_flag")
  \o When(c.timing, U(32, "num_units_in_tick") \o U(32, "time_scale")
                    \o Flag("poc_proportional_to_timing_flag")
                    \o When(c.proportional, Ue("num_ticks_poc_diff_one_minus1"))
                    \o Flag("hrd_parameters_present_flag")
                    \o When(c.hrd, HrdParameters(c)))

VuiBitstreamRestriction(c) ==
  Flag("bitstream_restriction_flag")
  \o When(c.restricted,
          Each(Flag, <<"tiles_fixed_structure_flag", "motion_vectors_over_pic_boundaries_flag",
                       "restricted_ref_pic_lists_flag">>)
          \o Each(Ue, <<"min_spatial_segmentation_idc", "max_bytes_per_pic_denom",
                        "max_bits_per_min_cu_denom", "log2_max_mv_length_horizontal",
                        "log2_max_mv_length_vertical">>))

VuiBeforeTiming(c) ==
  Require(c.max_sub < 8, "MaxNumSubLayersMinus1")
  \o VuiAspectRatio(c) \o VuiOverscan(c) \o VuiVideoSignalType(c)
  \o VuiChromaLocation(c)
  \o Flag("neutral_chroma_indication_flag") \o Flag("field_seq_flag")
  \o Flag("frame_field_info_present_flag") \o VuiDisplayWindow(c)

---------------------------------------------------------------------------
(* scaling_list_data(): the SPS and the PPS have the same code twice. A    *)
(* matrix is [predicted, ref]; ref is the distance to the matrix it copies. *)

MatrixIds(size) == IF size = 3 THEN {0, 3} ELSE 0 .. 5
NextMatrixId(size, id) == id + (IF size = 3 THEN 3 ELSE 1)
Coefficients(size) == IF size = 0 THEN 16 ELSE 64

(* Fault: a matrix may not copy the first one of its size. *)
ScalingListMatrixBeforeFirst(size, id, m) ==
     Flag("scaling_list_pred_mode_flag")
  \o IF m.predicted
     THEN Ue("scaling_list_pred_matrix_id_delta")
          \o Require(m.ref < id, "scaling_list_pred_matrix_id_delta")
     ELSE When(size > 1, Se("scaling_list_dc_coef_minus8"))
          \o Times(Coefficients(size), Se("scaling_list_delta_coef"))

ScalingListMatrix(size, id, m) ==
     Flag("scaling_list_pred_mode_flag")
  \o IF m.predicted
     THEN Ue("scaling_list_pred_matrix_id_delta")
          \o Require(m.ref <= id, "scaling_list_pred_matrix_id_delta")
     ELSE When(size > 1, Se("scaling_list_dc_coef_minus8"))
          \o Times(Coefficients(size), Se("scaling_list_delta_coef"))

ScalingListData(size, matrices) ==
  LET Ids[k \in 1 .. Cardinality(MatrixIds(size))] ==
        IF k = 1 THEN 0 ELSE NextMatrixId(size, Ids[k - 1])
  IN  Loop(Cardinality(MatrixIds(size)),
           LAMBDA k : ScalingListMatrix(size, Ids[k], matrices[Ids[k]]))

---------------------------------------------------------------------------
(* video_parameter_set_rbsp() *)

VpsId(c) ==
     U(4, "vps_video_parameter_set_id") \o Flag("vps_base_layer_internal_flag")
  \o Flag("vps_base_layer_available_flag") \o U(6, "vps_max_layers_minus1")
  \o U(3, "vps_max_sub_layers_minus1") \o Flag("vps_temporal_id_nesting_flag")
  \o U(16, "vps_reserved_0xffff_16bits")
  \o Require(c.max_sub <= 7, "vps_max_sub_layers_minus1")
  \o Require(c.reserved = 65535, "vps_reserved_0xffff_16bits")

VpsProfileTierLevel(c) == ProfileTierLevel(c)

(* Set 0 is the base layer; the flags of the others are read. *)
VpsLayerSets(c) ==
  LET included(i) == IF i = 0 THEN {0} ELSE {j \in 0 .. c.max_layer_id : c.included[i][j]}
  IN  U(6, "vps_max_layer_id") \o Ue("vps_num_layer_sets_minus1")
      \o Times(c.layer_sets, Times(c.max_layer_id + 1, Flag("layer_id_included_flag")))
      \o Is("layer_ids", [i \in 0 .. c.layer_sets |-> included(i)])

VpsTiming(c) ==
  LET Hrd(i) == Ue("hrd_layer_set_idx") \o When(i > 1, Flag("cprms_present_flag"))
                \o HrdParameters([c EXCEPT !.common = (i = 1) \/ c.common])
  IN  Flag("vps_timing_info_present_flag")
      \o When(c.timing,
              U(32, "num_units_in_tick") \o U(32, "time_scale")
              \o Flag("poc_proportional_to_timing_flag")
              \o When(c.proportional, Ue("num_ticks_poc_diff_one_minus1"))
              \o Ue("vps_num_hrd_parameters") \o Loop(c.hrds, Hrd))

(* Whatever follows is passed over, as in the SPS and the PPS. *)
ExtensionData(c) == Times(c.data, Flag("extension_data_flag"))

VpsExtension(c) == Flag("vps_extension_flag") \o When(c.extension, ExtensionData(c))

---------------------------------------------------------------------------
(* seq_parameter_set_rbsp() *)

SpsStart(c) ==
     U(4, "sps_video_parameter_set_id") \o U(3, "sps_max_sub_layers_minus1")
  \o Require(c.max_sub <= 7, "sps_max_sub_layers_minus1")
  \o Flag("sps_temporal_id_nesting_flag")
  \o ProfileTierLevel(c)
  \o Ue("sps_seq_parameter_set_id") \o Require(c.sps_id <= 15, "sps_seq_parameter_set_id")
  \o Ue("chroma_format_idc") \o Require(c.chroma_format \in Monochrome .. YUV444, "chroma_format_idc")
  \o When(c.chroma_format = YUV444, Flag("separate_colour_plane_flag"))

SpsDimensions(c) ==
     Ue("pic_width_in_luma_samples") \o Ue("pic_height_in_luma_samples")
  \o Flag("conformance_window_flag") \o When(c.window, Window)
  \o Require(c.width > 0 /\ c.height > 0, "picture dimensions")

SubWidthC(format) == IF format \in {YUV420, YUV422} THEN 2 ELSE 1
SubHeightC(format) == IF format = YUV420 THEN 2 ELSE 1

(* The display size; a window that leaves nothing counts as no picture. *)
ApplyWindow(width, height, format, offsets) ==
  LET across == (offsets[1] + offsets[2]) * SubWidthC(format)
      down == (offsets[3] + offsets[4]) * SubHeightC(format)
  IN  IF across >= width \/ down >= height THEN <<0, 0>> ELSE <<width - across, height - down>>

SpsGeometry(c) ==
  Is("display", ApplyWindow(c.width, c.height, c.chroma_format,
                            IF c.window THEN c.offsets ELSE [k \in 1 .. 4 |-> 0]))

SpsBitDepthAndPoc(c) ==
  Each(Ue, <<"bit_depth_luma_minus8", "bit_depth_chroma_minus8",
             "log2_max_pic_order_cnt_lsb_minus4">>)
  \o Require(c.lsb_bits <= 16, "log2_max_pic_order_cnt_lsb_minus4")

SpsCodingBlocks ==
  Each(Ue, <<"log2_min_luma_coding_block_size_minus3",
             "log2_diff_max_min_luma_coding_block_size",
             "log2_min_luma_transform_block_size_minus2",
             "log2_diff_max_min_luma_transform_block_size",
             "max_transform_hierarchy_depth_inter", "max_transform_hierarchy_depth_intra">>)

AllScalingLists(c) ==
  Loop(4, LAMBDA k : ScalingListData(k - 1, [id \in 0 .. 5 |->
                       IF <<k - 1, id>> \in c.predicted THEN [predicted |-> TRUE, ref |-> c.ref]
                       ELSE [predicted |-> FALSE]]))

SpsCodingTools(c) ==
     Flag("scaling_list_enabled_flag")
  \o When(c.scaling, Flag("sps_scaling_list_data_present_flag")
                     \o When(c.lists, AllScalingLists(c)))
  \o Flag("amp_enabled_flag") \o Flag("sample_adaptive_offset_enabled_flag")

SpsPcm(c) ==
  Flag("pcm_enabled_flag")
  \o When(c.pcm, U(4, "pcm_sample_bit_depth_luma_minus1")
                 \o U(4, "pcm_sample_bit_depth_chroma_minus1")
                 \o Ue("log2_min_pcm_luma_coding_block_size_minus3")
                 \o Ue("log2_diff_max_min_pcm_luma_coding_block_size")
                 \o Flag("pcm_loop_filter_disabled_flag"))

SpsLongTermRps(c) ==
  Flag("long_term_ref_pics_present_flag")
  \o When(c.long_term,
          Ue("num_long_term_ref_pics_sps")
          \o Times(c.sps_count, U(c.lsb_bits, "lt_ref_pic_poc_lsb_sps")
                                \o Flag("used_by_curr_pic_lt_sps_flag")))

SpsSetCount == Ue("num_short_term_ref_pic_sets")

SpsTail ==
  Flag("sps_temporal_mvp_enabled_flag") \o Flag("strong_intra_smoothing_enabled_flag")
  \o Flag("vui_parameters_present_flag")

SpsRangeExtension ==
  Each(Flag, <<"transform_skip_rotation_enabled_flag", "transform_skip_context_enabled_flag",
               "implicit_rdpcm_enabled_flag", "explicit_rdpcm_enabled_flag",
               "extended_precision_processing_flag", "intra_smoothing_disabled_flag",
               "high_precision_offsets_enabled_flag", "persistent_rice_adaptation_enabled_flag",
               "cabac_bypass_alignment_enabled_flag">>)

Sps3dExtension ==
  LET Motion == Flag("iv_di_mc_enabled_flag") \o Flag("iv_mv_scal_enabled_flag")
      Texture == Ue("log2_ivmc_sub_pb_size_minus3")
                 \o Each(Flag, <<"iv_res_pred_enabled_flag", "depth_ref_enabled_flag",
                                "vsp_mc_enabled_flag", "dbbp_enabled_flag">>)
      Depth == Flag("tex_mc_enabled_flag") \o Ue("log2_texmc_sub_pb_size_minus3")
               \o Each(Flag, <<"intra_contour_enabled_flag", "intra_dc_only_wedge_enabled_flag",
                              "cqt_cu_part_pred_enabled_flag", "inter_dc_only_enabled_flag",
                              "skip_intra_enabled_flag">>)
  IN  Motion \o Texture \o Motion \o Depth

(* Initialisers have the bit depths of the sequence. *)
SpsSccExtension(c) ==
  LET Initialiser(k) == U(IF k = 1 THEN c.luma_depth ELSE c.chroma_depth,
                          "sps_palette_predictor_initializer")
  IN  Flag("sps_curr_pic_ref_enabled_flag") \o Flag("palette_mode_enabled_flag")
      \o When(c.palette,
              Ue("palette_max_size") \o Ue("delta_palette_max_predictor_size")
              \o Flag("sps_palette_predictor_initializers_present_flag")
              \o When(c.initialisers > 0,
                      Ue("sps_num_palette_predictor_initializers_minus1")
                      \o Loop(IF c.chroma_format = Monochrome THEN 1 ELSE 3,
                              LAMBDA k : Times(c.initialisers, Initialiser(k)))))
      \o U(2, "motion_vector_resolution_control_idc")
      \o Flag("intra_boundary_filtering_disabled_flag")

SpsExtension(c) ==
     Flag("sps_extension_present_flag")
  \o When(c.extension,
          Each(Flag, <<"range_extension_flag", "multilayer_extension_flag", "3d_extension_flag",
                       "scc_extension_flag">>)
          \o Times(4, Flag("extension_4bits"))
          \o When(c.range, SpsRangeExtension)
          \o When(c.multilayer, Flag("inter_view_mv_vert_constraint_flag"))
          \o When(c.depth, Sps3dExtension)
          \o When(c.scc, SpsSccExtension(c))
          \o ExtensionData(c))

---------------------------------------------------------------------------
(* The picture parameter set as parse_picture_parameter_set() reads it,    *)
(* with its range, multilayer, 3D and screen-content extensions            *)
(* (src/parser/hevc_pps_parser.hpp).                                       *)

PpsStart(c) ==
     Ue("pps_pic_parameter_set_id") \o Require(c.pps_id <= 63, "pps_pic_parameter_set_id")
  \o Ue("pps_seq_parameter_set_id") \o Require(c.sps_id <= 15, "pps_seq_parameter_set_id")
  \o Flag("dependent_slice_segments_enabled_flag") \o Flag("output_flag_present_flag")
  \o U(3, "num_extra_slice_header_bits")
  \o Require(c.extra_bits <= 2, "num_extra_slice_header_bits")
  \o Flag("sign_data_hiding_enabled_flag") \o Flag("cabac_init_present_flag")
  \o Ue("num_ref_idx_l0_default_active_minus1") \o Ue("num_ref_idx_l1_default_active_minus1")
  \o Se("init_qp_minus26")
  \o Flag("constrained_intra_pred_flag") \o Flag("transform_skip_enabled_flag")
  \o Flag("cu_qp_delta_enabled_flag") \o When(c.cu_qp_delta, Ue("diff_cu_qp_delta_depth"))
  \o Se("pps_cb_qp_offset") \o Se("pps_cr_qp_offset")
  \o Each(Flag, <<"pps_slice_chroma_qp_offsets_present_flag", "weighted_pred_flag",
                 "weighted_bipred_flag", "transquant_bypass_enabled_flag">>)

(* The sizes of all tiles but the last in a row and in a column are read. *)
PpsTiles(c) ==
  Flag("tiles_enabled_flag") \o Flag("entropy_coding_sync_enabled_flag")
  \o When(c.tiles,
          Ue("num_tile_columns_minus1") \o Ue("num_tile_rows_minus1")
          \o Flag("uniform_spacing_flag")
          \o When(~c.uniform, Times(c.columns - 1, Ue("column_width_minus1"))
                              \o Times(c.rows - 1, Ue("row_height_minus1")))
          \o Flag("loop_filter_across_tiles_enabled_flag"))

PpsDeblocking(c) ==
  Flag("deblocking_filter_control_present_flag")
  \o When(c.control, Flag("deblocking_filter_override_enabled_flag")
                     \o Flag("pps_deblocking_filter_disabled_flag")
                     \o When(~c.disabled, Se("pps_beta_offset_div2") \o Se("pps_tc_offset_div2")))
  \o Is("pps_deblocking_filter_disabled_flag", c.control /\ c.disabled)

PpsTail(c) ==
     Flag("pps_loop_filter_across_slices_enabled_flag")
  \o PpsDeblocking(c)
  \o Flag("pps_scaling_list_data_present_flag") \o When(c.lists, AllScalingLists(c))
  \o Flag("lists_modification_present_flag") \o Ue("log2_parallel_merge_level_minus2")
  \o Flag("slice_segment_header_extension_present_flag")

PpsRangeExtension(c) ==
     Ue("log2_max_transform_skip_block_size_minus2")
  \o Flag("cross_component_prediction_enabled_flag")
  \o Flag("chroma_qp_offset_list_enabled_flag")
  \o When(c.offset_lists > 0,
          Ue("diff_cu_chroma_qp_offset_depth") \o Ue("chroma_qp_offset_list_len_minus1")
          \o Times(c.offset_lists, Se("cb_qp_offset_list") \o Se("cr_qp_offset_list")))
  \o Ue("log2_sao_offset_scale_luma") \o Ue("log2_sao_offset_scale_chroma")

PpsSccExtension(c) ==
  LET Initialiser(k) == U(IF k = 1 THEN c.luma_depth ELSE c.chroma_depth,
                          "pps_palette_predictor_initializer")
  IN  Flag("pps_curr_pic_ref_enabled_flag")
      \o Flag("residual_adaptive_colour_transform_enabled_flag")
      \o When(c.act, Flag("pps_slice_act_qp_offsets_present_flag")
                     \o Each(Se, <<"pps_act_y_qp_offset_plus5", "pps_act_cb_qp_offset_plus5",
                                  "pps_act_cr_qp_offset_plus3">>))
      \o Flag("pps_palette_predictor_initializers_present_flag")
      \o When(c.palette,
              Ue("pps_num_palette_predictor_initializers")
              \o When(c.initialisers > 0,
                      Flag("monochrome_palette_flag") \o Ue("luma_bit_depth_entry_minus8")
                      \o When(~c.monochrome, Ue("chroma_bit_depth_entry_minus8"))
                      \o Loop(IF c.monochrome THEN 1 ELSE 3,
                              LAMBDA k : Times(c.initialisers, Initialiser(k)))))

---------------------------------------------------------------------------
(* The multilayer extension: reference locations, then the colour mapping  *)
(* table, whose octants split until they are at the depth of the table.    *)

NotBelowZero(n) == IF n < 0 THEN 0 ELSE n

PpsColourMappingOctants(c) ==
  LET rest == NotBelowZero(10 + c.input_depth - c.output_depth - c.quant_bits - c.flc_bits)
      Coefficient == Ue("res_coeff_q") \o U(rest, "res_coeff_r")
                     \o When(c.nonzero, Flag("res_coeff_s"))
      Parts == Times(2 ^ c.y_parts * 4,
                     Flag("coded_res_flag") \o When(c.coded, Times(3, Coefficient)))
      Octant[left \in 0 .. c.octant_depth] ==
        When(left > 0, Flag("split_octant_flag"))
        \o (IF left > 0 /\ c.split THEN Times(8, Octant[left - 1]) ELSE Parts)
  IN  Octant[c.octant_depth]

PpsColourMappingTable(c) ==
     Ue("num_cm_ref_layers_minus1") \o Times(c.cm_layers, U(6, "cm_ref_layer_id"))
  \o U(2, "cm_octant_depth") \o U(2, "cm_y_part_num_log2")
  \o Each(Ue, <<"luma_bit_depth_cm_input_minus8", "chroma_bit_depth_cm_input_minus8",
               "luma_bit_depth_cm_output_minus8", "chroma_bit_depth_cm_output_minus8">>)
  \o U(2, "cm_res_quant_bits") \o U(2, "cm_delta_flc_bits_minus1")
  \o When(c.octant_depth = 1, Se("cm_adapt_threshold_u_delta") \o Se("cm_adapt_threshold_v_delta"))
  \o PpsColourMappingOctants(c)

Offsets(kind) == Times(4, Se(kind))

PpsMultilayerExtension(c) ==
  LET Location == U(6, "ref_loc_offset_layer_id")
                  \o Flag("scaled_ref_layer_offset_present_flag")
                  \o When(c.scaled, Offsets("scaled_ref_layer_offset"))
                  \o Flag("ref_region_offset_present_flag")
                  \o When(c.region, Offsets("ref_region_offset"))
                  \o Flag("resample_phase_set_present_flag")
                  \o When(c.phase, Each(Ue, <<"phase_hor_luma", "phase_ver_luma",
                                             "phase_hor_chroma_plus8", "phase_ver_chroma_plus8">>))
  IN  Flag("poc_reset_info_present_flag") \o Flag("pps_infer_scaling_list_flag")
      \o When(c.inferred_lists, U(6, "pps_scaling_list_ref_layer_id"))
      \o Ue("num_ref_loc_offsets") \o Require(c.locations < 64, "num_ref_loc_offsets")
      \o Times(c.locations, Location)
      \o Flag("colour_mapping_enabled_flag")
      \o When(c.colour_mapping, PpsColourMappingTable(c))

---------------------------------------------------------------------------
(* The 3D extension: depth look-up tables, coded as flags or as deltas.    *)

FloorLog2(value) == CHOOSE k \in 0 .. value : 2 ^ k <= value /\ value < 2 ^ (k + 1)
BitsOf(value) == FloorLog2(value) + 1

PpsDeltaDlt(c) ==
  LET max_diff == IF c.values > 1 THEN c.max_diff ELSE 0
      has_min == c.values > 2 /\ max_diff # 0
      min_diff == IF has_min THEN c.min_diff ELSE 0  \* min_diff_minus1 + 1
  IN  U(c.value_bits, "num_val_delta_dlt")
      \o When(c.values > 1, U(c.value_bits, "max_diff"))
      \o When(has_min, U(BitsOf(max_diff), "min_diff_minus1"))
      \o When(c.values > 0 /\ max_diff > min_diff,
              Times(c.values - 1, U(BitsOf(max_diff - min_diff), "delta_val_diff_minus_min")))

Pps3dExtension(c) ==
  LET Table == Flag("dlt_flag")
               \o When(c.table,
                       Flag("dlt_pred_flag")
                       \o When(~c.predicted_table,
                               Flag("dlt_val_flags_present_flag")
                               \o IF c.value_flags THEN Times(2 ^ c.value_bits, Flag("dlt_value_flag"))
                                  ELSE PpsDeltaDlt(c)))
  IN  Flag("dlts_present_flag")
      \o When(c.dlts, U(6, "pps_depth_layers_minus1")
                      \o U(4, "pps_bit_depth_for_depth_layers_minus8")
                      \o Times(c.depth_layers, Table))

PpsExtensions(c) ==
     Flag("pps_extension_present_flag")
  \o When(c.extension,
          Each(Flag, <<"range_extension_flag", "multilayer_extension_flag", "3d_extension_flag",
                       "scc_extension_flag">>)
          \o Times(4, Flag("extension_4bits"))
          \o When(c.range, PpsRangeExtension(c))
          \o When(c.multilayer, PpsMultilayerExtension(c))
          \o When(c.depth, Pps3dExtension(c))
          \o When(c.scc, PpsSccExtension(c))
          \o ExtensionData(c))

---------------------------------------------------------------------------
(* What an encoder may choose, part by part. *)

ParameterSetStarts == [part : {"vps", "sps", "pps"}, fields : {<< >>}]

(* Profiles and levels of the temporal sub-layers below the highest. *)
LayerChoices ==
  [max_sub : IF Uses("sub_layers") THEN 0 .. 2 ELSE {0},
   layer_profile : [1 .. 2 -> BOOLEAN], layer_level : [1 .. 2 -> BOOLEAN]]

(* The schedules of a decoder; sub_pic needs one of the first two. *)
NoHrd == [common |-> TRUE, nal |-> FALSE, vcl |-> FALSE, sub_pic |-> FALSE, general |-> TRUE,
          within_cvs |-> FALSE, low_delay |-> FALSE, cpb_cnt |-> 1, max_sub |-> 0]

HrdChoices ==
  [common : {TRUE}, nal : BOOLEAN, vcl : BOOLEAN, sub_pic : BOOLEAN, general : BOOLEAN,
   within_cvs : BOOLEAN, low_delay : BOOLEAN, cpb_cnt : {1, 2, 32}, max_sub : 0 .. 1]

---------------------------------------------------------------------------
(* Video parameter set *)

VpsStartChoices == {c @@ [reserved |-> 65535] : c \in LayerChoices}

ParseVpsStart ==
  Part("vps", "vps_layers", {}, VpsStartChoices,
    LAMBDA c : VpsId(c) \o VpsProfileTierLevel(c),
    LAMBDA c : WritesVpsStart(c) \o WritesProfileTierLevel(c))

ParseVpsLayers ==
  Part("vps_layers", "vps_timing", {},
    [max_sub : 0 .. 2, all_layers : BOOLEAN, ordering : {[i \in 0 .. 2 |-> i]},
     max_layer_id : 0 .. 1, layer_sets : 0 .. 2, included : [1 .. 2 -> [0 .. 1 -> BOOLEAN]]],
    LAMBDA c : SubLayerOrdering(c) \o VpsLayerSets(c),
    LAMBDA c : WritesSubLayerOrdering(c) \o WritesVpsLayerSets(c))

(* With the common part of the first structure the later ones do without.  *)
VpsTimingChoices ==
  {c @@ NoHrd : c \in [timing : BOOLEAN, proportional : BOOLEAN, hrds : {0}, extension : BOOLEAN,
                       data : 0 .. 2]}
  \cup {c @@ d : c \in [timing : {TRUE}, proportional : {FALSE}, hrds : 1 .. 2, extension : {FALSE},
                        data : {0}, common : IF Uses("shared_hrd") THEN BOOLEAN ELSE {TRUE}],
                 d \in HrdChoices}

ParseVpsTiming ==
  Part("vps_timing", "done", {}, VpsTimingChoices,
    LAMBDA c : VpsTiming(c) \o VpsExtension(c),
    LAMBDA c : WritesVpsTiming(c) \o WritesVpsExtension(c))

---------------------------------------------------------------------------
(* Sequence parameter set *)

SpsStartChoices ==
  {c @@ d : c \in LayerChoices, d \in [sps_id : {0, 15}, chroma_format : Monochrome .. YUV444]}

ParseSpsStart == Part("sps", "sps_picture", {}, SpsStartChoices, SpsStart, WritesSpsStart)

ParseSpsPicture ==
  Part("sps_picture", "sps_coding", {},
    {c \in [width : {8, 16}, height : {8}, chroma_format : Monochrome .. YUV444, window : BOOLEAN,
            offsets : [1 .. 4 -> 0 .. 2]] :
       /\ ~c.window => \A k \in 1 .. 4 : c.offsets[k] = 0
       /\ 2 * (c.offsets[1] + c.offsets[2]) < c.width
       /\ 2 * (c.offsets[3] + c.offsets[4]) < c.height},
    LAMBDA c : SpsDimensions(c) \o SpsGeometry(c), WritesSpsPicture)

ParseSpsCoding ==
  Part("sps_coding", "sps_tools", {},
    [lsb_bits : {4, 16}, max_sub : 0 .. 2, all_layers : BOOLEAN, ordering : [0 .. 2 -> 0 .. 1]],
    LAMBDA c : SpsBitDepthAndPoc(c) \o SubLayerOrdering(c) \o SpsCodingBlocks, WritesSpsCoding)

(* No matrix is coded, or one of each size is predicted from the one ref   *)
(* before it.                                                              *)
Predicted == {{}, {<<0, 1>>, <<1, 5>>, <<2, 1>>, <<3, 3>>}, {<<0, 0>>, <<3, 0>>}}

ParseSpsTools ==
  Part("sps_tools", "sps_references", {},
    {c \in [scaling : BOOLEAN, lists : BOOLEAN, predicted : Predicted, ref : 0 .. 1, pcm : BOOLEAN] :
       \A m \in c.predicted : c.ref <= m[2]},
    LAMBDA c : SpsCodingTools(c) \o SpsPcm(c) \o SpsSetCount, WritesSpsTools)

ParseSpsReferences ==
  \E vui \in BOOLEAN :
    Part("sps_references", IF vui THEN "vui" ELSE "sps_extension", {},
      [long_term : BOOLEAN, sps_count : 0 .. 3, lsb_bits : {4, 16}],
      LAMBDA c : SpsLongTermRps(c) \o SpsTail, WritesSpsReferences)

ParseVuiDisplay ==
  Part("vui", "vui_timing", {},
    [max_sub : {0, 7}, aspect : BOOLEAN, extended_sar : BOOLEAN, overscan : BOOLEAN,
     signal : BOOLEAN, colour : BOOLEAN, location : BOOLEAN, window : BOOLEAN],
    VuiBeforeTiming, WritesVuiDisplay)

VuiTimingChoices ==
  {c @@ NoHrd : c \in [timing : BOOLEAN, proportional : BOOLEAN, hrd : {FALSE}, restricted : BOOLEAN]}
  \cup {c @@ [timing |-> TRUE, proportional |-> FALSE, hrd |-> TRUE, restricted |-> TRUE] : c \in HrdChoices}

ParseVuiTiming ==
  Part("vui_timing", "sps_extension", {}, VuiTimingChoices,
    LAMBDA c : VuiTiming(c) \o VuiBitstreamRestriction(c), WritesVuiTiming)

NoSpsExtension ==
  [extension |-> FALSE, range |-> FALSE, multilayer |-> FALSE, depth |-> FALSE, scc |-> FALSE,
   data |-> 0, palette |-> FALSE, initialisers |-> 0, luma_depth |-> 8, chroma_depth |-> 10,
   chroma_format |-> YUV420]

SpsExtensionChoices ==
  {NoSpsExtension}
  \cup {c @@ NoSpsExtension : c \in [extension : {TRUE}, range : BOOLEAN, multilayer : BOOLEAN,
                                     depth : BOOLEAN, data : 0 .. 2]}
  \cup {c @@ NoSpsExtension : c \in [extension : {TRUE}, scc : {TRUE}, palette : BOOLEAN,
                                     initialisers : 0 .. 2, chroma_format : {0, 1, 3}]}

ParseSpsExtension ==
  Part("sps_extension", "done", {}, SpsExtensionChoices, SpsExtension, WritesSpsExtension)

---------------------------------------------------------------------------
(* Picture parameter set *)

ParsePpsStart ==
  Part("pps", "pps_tiles", {},
    [pps_id : {0, 63}, sps_id : {0, 15}, extra_bits : 0 .. 2, cu_qp_delta : BOOLEAN],
    PpsStart, WritesPpsStart)

ParsePpsTiles ==
  Part("pps_tiles", "pps_tail", {},
    [tiles : BOOLEAN, uniform : BOOLEAN, columns : 1 .. 3, rows : 1 .. 3],
    PpsTiles, WritesPpsTiles)

ParsePpsTail ==
  Part("pps_tail", "pps_extension", {},
    {c \in [control : BOOLEAN, disabled : BOOLEAN, lists : BOOLEAN, predicted : Predicted,
            ref : {0}] : c.disabled => c.control},
    PpsTail, WritesPpsTail)

NoPpsExtension ==
  [extension |-> FALSE, range |-> FALSE, multilayer |-> FALSE, depth |-> FALSE, scc |-> FALSE,
   data |-> 0, transform_skip |-> TRUE, offset_lists |-> 0, inferred_lists |-> FALSE,
   locations |-> 0, scaled |-> FALSE, region |-> FALSE, phase |-> FALSE,
   colour_mapping |-> FALSE, dlts |-> FALSE, act |-> FALSE, palette |-> FALSE]

RangeChoices ==
  {c \in [range : {TRUE}, transform_skip : BOOLEAN, offset_lists : 0 .. 2] :
     c.transform_skip \/ Uses("range_extension")}

LocationChoices ==
  [multilayer : {TRUE}, inferred_lists : BOOLEAN, locations : 0 .. 2, scaled : BOOLEAN,
   region : BOOLEAN, phase : BOOLEAN]

ColourMappingChoices ==
  [multilayer : {TRUE}, colour_mapping : {TRUE}, cm_layers : 1 .. 2, octant_depth : 0 .. 1,
   y_parts : 0 .. 1, split : BOOLEAN, coded : BOOLEAN, nonzero : BOOLEAN, input_depth : {8},
   output_depth : {8, 14}, quant_bits : {0, 3}, flc_bits : {1, 4}]

DepthChoices ==
  {c \in [depth : {TRUE}, dlts : BOOLEAN, depth_layers : 1 .. 2, table : BOOLEAN,
          predicted_table : BOOLEAN, value_flags : BOOLEAN, value_bits : {8}, values : 0 .. 3,
          max_diff : {0, 1, 4}, min_diff : {1}] :
     c.dlts /\ c.table /\ ~c.predicted_table /\ ~c.value_flags /\ c.values > 0
       => Uses("depth_tables")}

ScreenContentChoices ==
  [scc : {TRUE}, act : BOOLEAN, palette : BOOLEAN, initialisers : 0 .. 2, monochrome : BOOLEAN,
   luma_depth : {8}, chroma_depth : {10}]

PpsExtensionChoices ==
  {c @@ NoPpsExtension : c \in [extension : BOOLEAN, data : 0 .. 2]}
  \cup {c @@ [extension |-> TRUE] @@ NoPpsExtension :
          c \in UNION {RangeChoices, LocationChoices, ColourMappingChoices, DepthChoices,
                       ScreenContentChoices}}

ParsePpsExtensions ==
  Part("pps_extension", "done", {}, PpsExtensionChoices, PpsExtensions, WritesPpsExtensions)

---------------------------------------------------------------------------

ParseParameterSets ==
  \/ ParseVpsStart \/ ParseVpsLayers \/ ParseVpsTiming
  \/ ParseSpsStart \/ ParseSpsPicture \/ ParseSpsCoding \/ ParseSpsTools
  \/ ParseSpsReferences \/ ParseVuiDisplay \/ ParseVuiTiming \/ ParseSpsExtension
  \/ ParsePpsStart \/ ParsePpsTiles \/ ParsePpsTail \/ ParsePpsExtensions
============================================================================
