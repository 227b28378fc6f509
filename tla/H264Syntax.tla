------------------------------ MODULE H264Syntax ------------------------------
(* What an encoder writes: the syntax tables of H.264 for the parameter sets *)
(* (7.3.2.1, 7.3.2.2, annex E) and the slice header (7.3.3), with the values *)
(* inferred for what is absent (7.4).  This is the other side of the         *)
(* bitstream, and no part of the repository.                                 *)
EXTENDS SyntaxElements

(* Profiles whose sequence parameter sets say how chroma is coded. *)
HasChromaFormat(c) ==
  c.profile \in {100, 110, 122, 244, 44, 83, 86, 118, 128, 138, 139, 134, 135}

ChromaArrayType(c) == IF c.planes THEN 0 ELSE c.chroma_format

(* scaling_list(): deltas until the next coefficient would be zero; the last *)
(* coefficient then stands for the rest, or the default list for all.        *)
WritesScalingList(size, kind) ==
  Times(CASE kind = "default" -> 1 [] kind = "stopped" -> 3 [] OTHER -> size, Se("delta_scale"))
  \o When(kind # "default",
          Is("remaining coefficients", IF kind = "stopped" THEN "last" ELSE kind))

WritesScalingLists(c, large) ==
  Loop(6 + large, LAMBDA i : Flag("scaling_list_present_flag")
                             \o When(c.lists[i] # "absent",
                                     WritesScalingList(IF i <= 6 THEN 16 ELSE 64, c.lists[i])))

LargeLists(c) == IF c.chroma_format = 3 THEN 6 ELSE 2

WritesSpsStart(c) ==
     U(8, "profile_idc") \o Times(6, Flag("constraint_set_flag")) \o U(2, "reserved_zero_2bits")
  \o U(8, "level_idc") \o Ue("seq_parameter_set_id")
  \o When(HasChromaFormat(c),
          Ue("chroma_format_idc") \o When(c.chroma_format = 3, Flag("separate_colour_plane_flag"))
          \o Ue("bit_depth_luma_minus8") \o Ue("bit_depth_chroma_minus8")
          \o Flag("qpprime_y_zero_transform_bypass_flag") \o Flag("seq_scaling_matrix_present_flag"))
  \o When(HasChromaFormat(c) /\ c.matrix, WritesScalingLists(c, LargeLists(c)))
  \o Is("chroma_format_idc", IF HasChromaFormat(c) THEN c.chroma_format ELSE 1)

WritesSpsPicOrderCnt(c) ==
     Ue("log2_max_frame_num_minus4") \o Ue("pic_order_cnt_type")
  \o CASE c.poc_type = 0 -> Ue("log2_max_pic_order_cnt_lsb_minus4")
       [] c.poc_type = 1 -> Flag("delta_pic_order_always_zero_flag") \o Se("offset_for_non_ref_pic")
                            \o Se("offset_for_top_to_bottom_field")
                            \o Ue("num_ref_frames_in_pic_order_cnt_cycle")
                            \o Times(c.cycle, Se("offset_for_ref_frame"))
       [] OTHER -> << >>

(* CropUnitX, CropUnitY and the cropped frame in luma samples. *)
WritesSpsPicture(c) ==
  LET type == ChromaArrayType(c)
      unit_x == IF type \in {1, 2} THEN 2 ELSE 1
      unit_y == (IF type = 1 THEN 2 ELSE 1) * (IF c.frame_mbs_only THEN 1 ELSE 2)
      height == c.map_units * (IF c.frame_mbs_only THEN 16 ELSE 32)
      crop == IF c.cropping THEN c.crop ELSE [k \in 1 .. 4 |-> 0]
  IN  Ue("max_num_ref_frames") \o Flag("gaps_in_frame_num_value_allowed_flag")
      \o Ue("pic_width_in_mbs_minus1") \o Ue("pic_height_in_map_units_minus1")
      \o Flag("frame_mbs_only_flag")
      \o When(~c.frame_mbs_only, Flag("mb_adaptive_frame_field_flag"))
      \o Flag("direct_8x8_inference_flag") \o Flag("frame_cropping_flag")
      \o When(c.cropping, Ue("left_offset") \o Ue("right_offset") \o Ue("top_offset") \o Ue("bottom_offset"))
      \o Is("pic_width_in_luma_samples", 16 * c.mbs - unit_x * (crop[1] + crop[2]))
      \o Is("pic_height_in_luma_samples", height - unit_y * (crop[3] + crop[4]))
      \o Flag("vui_parameters_present_flag")

WritesVuiDisplay(c) ==
     Flag("aspect_ratio_info_present_flag") \o When(c.aspect, U(8, "aspect_ratio_idc"))
  \o When(c.aspect /\ c.extended_sar, U(16, "sar_width") \o U(16, "sar_height"))
  \o Flag("overscan_info_present_flag") \o When(c.overscan, Flag("overscan_appropriate_flag"))
  \o Flag("video_signal_type_present_flag")
  \o When(c.signal, U(3, "video_format") \o Flag("video_full_range_flag")
                    \o Flag("colour_description_present_flag"))
  \o When(c.signal /\ c.colour, U(8, "colour_primaries") \o U(8, "transfer_characteristics")
                                \o U(8, "matrix_coefficients"))
  \o Flag("chroma_loc_info_present_flag")
  \o When(c.location, Ue("chroma_sample_loc_type_top_field")
                      \o Ue("chroma_sample_loc_type_bottom_field"))

WritesVuiDecoder(c) ==
  LET Hrd == Ue("cpb_cnt_minus1") \o U(4, "bit_rate_scale") \o U(4, "cpb_size_scale")
             \o Times(c.cpb_cnt,
                      Ue("bit_rate_value_minus1") \o Ue("cpb_size_value_minus1") \o Flag("cbr_flag"))
             \o U(5, "initial_cpb_removal_delay_length_minus1")
             \o U(5, "cpb_removal_delay_length_minus1") \o U(5, "dpb_output_delay_length_minus1")
             \o U(5, "time_offset_length")
  IN  Flag("timing_info_present_flag")
      \o When(c.timing, U(32, "num_units_in_tick") \o U(32, "time_scale")
                        \o Flag("fixed_frame_rate_flag"))
      \o Flag("nal_hrd_parameters_present_flag") \o When(c.nal, Hrd)
      \o Flag("vcl_hrd_parameters_present_flag") \o When(c.vcl, Hrd)
      \o When(c.nal \/ c.vcl, Flag("low_delay_hrd_flag"))
      \o Flag("pic_struct_present_flag") \o Flag("bitstream_restriction_flag")
      \o When(c.restricted, Flag("motion_vectors_over_pic_boundaries_flag")
                            \o Ue("max_bytes_per_pic_denom") \o Ue("max_bits_per_mb_denom")
                            \o Ue("log2_max_mv_length_horizontal") \o Ue("log2_max_mv_length_vertical")
                            \o Ue("max_num_reorder_frames") \o Ue("max_dec_frame_buffering"))

---------------------------------------------------------------------------

WritesPpsStart(c) ==
     Ue("pic_parameter_set_id") \o Ue("seq_parameter_set_id") \o Flag("entropy_coding_mode_flag")
  \o Flag("bottom_field_pic_order_in_frame_present_flag") \o Ue("num_slice_groups_minus1")
  \o When(c.groups > 1, Ue("slice_group_map_type"))
  \o When(c.groups > 1 /\ c.map_type = 0, Times(c.groups, Ue("run_length_minus1")))
  \o When(c.groups > 1 /\ c.map_type = 2, Times(c.groups - 1, Ue("top_left") \o Ue("bottom_right")))
  \o When(c.groups > 1 /\ c.map_type \in {3, 4, 5},
          Flag("slice_group_change_direction_flag") \o Ue("slice_group_change_rate_minus1"))
  \o When(c.groups > 1 /\ c.map_type = 6,
          Ue("pic_size_in_map_units_minus1")
          \o Times(c.map_units, U(CodeLength(c.groups), "slice_group_id")))

(* The large lists only with the large transform. *)
WritesPpsTail(c) ==
     Ue("num_ref_idx_l0_default_active_minus1") \o Ue("num_ref_idx_l1_default_active_minus1")
  \o Flag("weighted_pred_flag") \o U(2, "weighted_bipred_idc") \o Se("pic_init_qp_minus26")
  \o Se("pic_init_qs_minus26") \o Se("chroma_qp_index_offset")
  \o Flag("deblocking_filter_control_present_flag") \o Flag("constrained_intra_pred_flag")
  \o Flag("redundant_pic_cnt_present_flag")
  \o When(c.more, Flag("transform_8x8_mode_flag") \o Flag("pic_scaling_matrix_present_flag"))
  \o When(c.more /\ c.matrix, WritesScalingLists(c, IF c.transform_8x8 THEN LargeLists(c) ELSE 0))
  \o When(c.more, Se("second_chroma_qp_index_offset"))
  \o Is("second_chroma_qp_index_offset", IF c.more THEN c.second_offset ELSE c.chroma_offset)

---------------------------------------------------------------------------

WritesSliceStart(c) ==
  LET type == CASE c.raw_type \in {0, 5} -> 0 [] c.raw_type \in {1, 6} -> 1 [] c.raw_type \in {2, 7} -> 2
                [] c.raw_type \in {3, 8} -> 3 [] OTHER -> 4
      frame == c.frame_mbs_only \/ ~c.field
  IN  Ue("first_mb_in_slice") \o Ue("slice_type") \o Is("slice_type", type)
      \o Ue("pic_parameter_set_id") \o When(c.planes, U(2, "colour_plane_id"))
      \o U(c.frame_num_bits, "frame_num") \o When(~c.frame_mbs_only, Flag("field_pic_flag"))
      \o When(~frame, Flag("bottom_field_flag"))
      \o When(c.idr, Ue("idr_pic_id"))
      \o When(c.poc_type = 0, U(c.lsb_bits, "pic_order_cnt_lsb"))
      \o When(c.poc_type = 0 /\ frame /\ c.bottom_present, Se("delta_pic_order_cnt_bottom"))
      \o When(c.poc_type = 1 /\ ~c.always_zero, Se("delta_pic_order_cnt"))
      \o When(c.poc_type = 1 /\ ~c.always_zero /\ frame /\ c.bottom_present, Se("delta_pic_order_cnt"))
      \o When(c.redundant, Ue("redundant_pic_cnt"))

WritesListModification(ops) ==
  LET Operation(idc) == Ue("reordering_of_pic_nums_idc")
                        \o CASE idc \in {0, 1} -> Ue("abs_diff_pic_num_minus1")
                             [] idc = 2 -> Ue("long_term_pic_num")
                             [] OTHER -> << >>
  IN  Flag("modification_flag")
      \o When(ops # << >>, FlattenSeq([k \in 1 .. Len(ops) + 1 |-> Operation(Append(ops, 3)[k])]))

WritesWeightTable(c, counts) ==
  LET chroma == ChromaArrayType(c) # 0
      Entry(i) ==
        Flag("luma_weight_flag") \o When(c.luma[i], Se("luma_weight") \o Se("luma_offset"))
        \o When(chroma, Flag("chroma_weight_flag"))
        \o When(chroma /\ c.chroma[i], Se("chroma_weight") \o Se("chroma_offset")
                                       \o Se("chroma_weight") \o Se("chroma_offset"))
  IN  Ue("luma_log2_weight_denom") \o When(chroma, Ue("chroma_log2_weight_denom"))
      \o Loop(Len(counts), LAMBDA list : Loop(counts[list], Entry))

(* Two lists for B slices, one for P and SP slices, none for I and SI. *)
WritesSliceReferences(c) ==
  LET lists == CASE c.type = 1 -> 2 [] c.type \in {0, 3} -> 1 [] OTHER -> 0
      given == <<c.l0, c.l1>>
      default == <<c.default_l0, c.default_l1>>
      counts == [k \in 1 .. lists |-> 1 + IF c.override THEN given[k] ELSE default[k]]
      weighted == (c.weighted /\ lists = 1) \/ (c.bipred = 1 /\ lists = 2)
  IN  When(lists = 2, Flag("direct_spatial_mv_pred_flag"))
      \o When(lists > 0, Flag("num_ref_idx_active_override_flag"))
      \o When(lists > 0 /\ c.override, Ue("num_ref_idx_l0_active_minus1"))
      \o When(lists = 2 /\ c.override, Ue("num_ref_idx_l1_active_minus1"))
      \o Times(lists, WritesListModification(c.ops))
      \o When(weighted, WritesWeightTable(c, counts))

WritesMarking(c) ==
  LET Operation(op) ==
        Ue("memory_management_control_operation")
        \o CASE op = 1 -> Ue("difference_of_pic_nums_minus1")
             [] op = 2 -> Ue("long_term_pic_num")
             [] op = 3 -> Ue("difference_of_pic_nums_minus1") \o Ue("long_term_frame_idx")
             [] op = 4 -> Ue("max_long_term_frame_idx_plus1")
             [] op = 6 -> Ue("long_term_frame_idx")
             [] OTHER -> << >>
  IN  IF c.idr THEN Flag("no_output_of_prior_pics_flag") \o Flag("long_term_reference_flag")
      ELSE Flag("adaptive_ref_pic_marking_mode_flag")
           \o When(c.mmco # << >>, FlattenSeq([k \in 1 .. Len(c.mmco) + 1 |-> Operation(Append(c.mmco, 0)[k])]))

(* The change cycle counts up to the units of the picture in steps of the  *)
(* change rate.                                                            *)
WritesSliceTail(c) ==
     When(c.ref_idc # 0, WritesMarking(c))
  \o When(c.cabac /\ c.type \in {0, 1, 3}, Ue("cabac_init_idc"))
  \o Se("slice_qp_delta")
  \o When(c.type = 3, Flag("sp_for_switch_flag")) \o When(c.type \in {3, 4}, Se("slice_qs_delta"))
  \o When(c.deblocking, Ue("disable_deblocking_filter_idc"))
  \o When(c.deblocking /\ c.deblocking_idc \in {0, 2},
          Se("slice_alpha_c0_offset_div2") \o Se("slice_beta_offset_div2"))
  \o When(c.groups > 1 /\ c.map_type \in {3, 4, 5},
          U(CHOOSE k \in 0 .. c.map_units + 1 :
              /\ 2 ^ k * c.change_rate >= c.map_units + c.change_rate
              /\ \A j \in 0 .. k - 1 : 2 ^ j * c.change_rate < c.map_units + c.change_rate,
            "slice_group_change_cycle"))
===============================================================================
