----------------------------- MODULE H266Syntax -----------------------------
(* What an encoder writes: the syntax tables of H.266 (7.3.2, 7.3.3, 7.3.5 *)
(* to 7.3.8) with the values inferred for what is absent (7.4), and what   *)
(* they derive on the way.  This is the other side of the bitstream, and   *)
(* no part of the repository.                                              *)
EXTENDS SyntaxElements

LOCAL LayersOf(c, top) == IF top > 0 /\ c.all_layers THEN 0 ELSE top

WritesConstraints(c) ==
     Flag("gci_present_flag")
  \o When(c.constraints,
          Times(3, Flag("gci_general")) \o U(4, "gci_bit_depth") \o U(2, "gci_chroma_format")
          \o Times(10, Flag("gci_nal_unit")) \o Times(6, Flag("gci_partitioning"))
          \o U(2, "gci_ctu_size") \o Times(3, Flag("gci_block")) \o Times(6, Flag("gci_intra"))
          \o Times(16, Flag("gci_inter")) \o Times(13, Flag("gci_transform"))
          \o Times(6, Flag("gci_loop_filter")) \o U(8, "gci_num_additional_bits")
          \o When(c.additional > 5, Times(6, Flag("gci_extended")))
          \o Times(IF c.additional > 5 THEN c.additional - 6 ELSE c.additional, Flag("gci_reserved_bit")))
  \o Align

WritesPtl(c, present, sublayers) ==
     When(present, U(7, "general_profile_idc") \o Flag("general_tier_flag"))
  \o U(8, "general_level_idc") \o Flag("ptl_frame_only_constraint_flag")
  \o Flag("ptl_multilayer_enabled_flag") \o When(present, WritesConstraints(c))
  \o Times(sublayers, Flag("ptl_sublayer_level_present_flag")) \o Align
  \o Loop(sublayers, LAMBDA i : When(i <= c.levels, U(8, "sublayer_level_idc")))
  \o When(present, U(8, "ptl_num_sub_profiles"))
  \o When(present, Times(c.sub_profiles, U(32, "general_sub_profile_idc")))

WritesDpb(first, last) ==
  Times(last - first + 1, Ue("dpb_max_dec_pic_buffering_minus1") \o Ue("dpb_max_num_reorder_pics")
                          \o Ue("dpb_max_latency_increase_plus1"))

WritesGeneralHrd(c) ==
  LET either == c.nal \/ c.vcl
  IN  U(32, "num_units_in_tick") \o U(32, "time_scale")
      \o Flag("general_nal_hrd_params_present_flag") \o Flag("general_vcl_hrd_params_present_flag")
      \o When(either, Flag("general_same_pic_timing_in_all_ols_flag")
                      \o Flag("general_du_hrd_params_present_flag"))
      \o When(either /\ c.du, U(8, "tick_divisor_minus2"))
      \o When(either, U(4, "bit_rate_scale") \o U(4, "cpb_size_scale"))
      \o When(either /\ c.du, U(4, "cpb_size_du_scale"))
      \o When(either, Ue("hrd_cpb_cnt_minus1"))

(* A rate that is fixed in general is fixed within the sequence. *)
WritesOlsHrd(c, first, last) ==
  LET schedules == (IF c.nal THEN c.cpb_cnt ELSE 0) + (IF c.vcl THEN c.cpb_cnt ELSE 0)
      fixed == c.general \/ c.within_cvs
      Schedule == Ue("bit_rate_value_minus1") \o Ue("cpb_size_value_minus1")
                  \o When(c.du, Ue("cpb_size_du_value_minus1") \o Ue("bit_rate_du_value_minus1"))
                  \o Flag("cbr_flag")
  IN  Times(last - first + 1,
            Flag("fixed_pic_rate_general_flag")
            \o When(~c.general, Flag("fixed_pic_rate_within_cvs_flag"))
            \o When(fixed, Ue("elemental_duration_in_tc_minus1"))
            \o When(~fixed /\ schedules > 0 /\ c.cpb_cnt = 1, Flag("low_delay_hrd_flag"))
            \o Times(schedules, Schedule))

---------------------------------------------------------------------------
(* ref_pic_list_struct(): j is its number and lists how many the SPS has   *)
(* of its kind; ref_pic_lists() and pred_weight_table().                   *)

WritesListStruct(c, list, j, lists) ==
  LET n == Len(list.entries)
      in_header == c.long_term /\ IF j = lists THEN TRUE ELSE n > 0 /\ list.in_header
      Same(i) == c.weighted /\ i > 1 /\ list.entries[i] = "next"
      ShortTerm(i) == Ue("abs_delta_poc_st") \o When(~Same(i), Flag("strp_entry_sign_flag"))
      Entry(i) ==
        LET kind == list.entries[i]
        IN  When(c.inter_layer, Flag("inter_layer_ref_pic_flag"))
            \o When(kind = "layer", Ue("ilrp_idx"))
            \o When(kind # "layer" /\ c.long_term, Flag("st_ref_pic_flag"))
            \o When(kind = "long" /\ ~in_header, U(c.lsb_bits, "rpls_poc_lsb_lt"))
            \o When(kind \in {"next", "short"}, ShortTerm(i))
  IN  Ue("num_ref_entries")
      \o When(c.long_term /\ j < lists /\ n > 0, Flag("ltrp_in_header_flag"))
      \o Is("ltrp_in_header_flag", in_header) \o Loop(n, Entry)

(* An index is sent for a list that has several to choose from. *)
WritesLists(c) ==
  LET follows(x) == x = 2 /\ ~c.rpl1_idx
      count(x) == Len(c.sps_lists[x])
      from_sps[x \in 1 .. 2] ==
        count(x) > 0 /\ IF follows(x) THEN from_sps[1] ELSE c.lists[x].by_sps
      index[x \in 1 .. 2] ==
        CASE count(x) > 1 /\ ~follows(x) -> c.lists[x].idx
          [] count(x) > 1 /\ follows(x) -> index[1]
          [] OTHER -> 0
      list(x) == IF from_sps[x] THEN c.sps_lists[x][index[x] + 1]
                 ELSE [entries |-> c.lists[x].entries, in_header |-> TRUE]
      LongTerm(x) == When(list(x).in_header, U(c.lsb_bits, "poc_lsb_lt"))
                     \o Flag("delta_poc_msb_cycle_present_flag") \o When(c.msb, Ue("delta_poc_msb_cycle_lt"))
      One(x) ==
        When(count(x) > 0 /\ ~follows(x), Flag("rpl_sps_flag"))
        \o When(from_sps[x] /\ count(x) > 1 /\ ~follows(x), U(CodeLength(count(x)), "rpl_idx"))
        \o When(~from_sps[x], WritesListStruct(c, list(x), count(x), count(x)))
        \o Times(Len(SelectSeq(list(x).entries, LAMBDA e : e = "long")), LongTerm(x))
        \o Is("list", list(x).entries)
  IN  One(1) \o One(2)

WritesWeights(c) ==
  LET colour == c.chroma_format # 0
      bidirectional == c.weighted_bipred /\ ~(c.in_ph /\ c.entries[2] = 0)
      count == <<IF c.in_ph THEN c.weights[1] ELSE c.active[1],
                 IF ~bidirectional THEN 0 ELSE IF c.in_ph THEN c.weights[2] ELSE c.active[2]>>
      List(x) == Times(count[x], Flag("luma_weight_flag"))
                 \o When(colour, Times(count[x], Flag("chroma_weight_flag")))
                 \o Loop(count[x], LAMBDA i :
                      When(c.luma[x][i], Se("delta_luma_weight") \o Se("luma_offset"))
                      \o When(colour /\ c.chroma[x][i],
                              Times(2, Se("delta_chroma_weight") \o Se("delta_chroma_offset"))))
  IN  Ue("luma_log2_weight_denom") \o When(colour, Se("delta_chroma_log2_weight_denom"))
      \o When(c.in_ph, Ue("num_l0_weights")) \o List(1)
      \o When(bidirectional /\ c.in_ph, Ue("num_l1_weights")) \o List(2)

---------------------------------------------------------------------------
(* Sequence parameter set *)

WritesSpsStart(c) ==
     U(4, "sps_seq_parameter_set_id") \o U(4, "sps_video_parameter_set_id")
  \o U(3, "sps_max_sublayers_minus1") \o U(2, "sps_chroma_format_idc")
  \o U(2, "sps_log2_ctu_size_minus5") \o Flag("sps_ptl_dpb_hrd_params_present_flag")
  \o When(c.ptl, WritesPtl(c, TRUE, c.max_sub))
  \o Flag("sps_gdr_enabled_flag") \o Flag("sps_ref_pic_resampling_enabled_flag")
  \o When(c.resampling, Flag("sps_res_change_in_clvs_allowed_flag"))
  \o Ue("pic_width_max_in_luma_samples") \o Ue("pic_height_max_in_luma_samples")
  \o Flag("conformance_window_flag") \o When(c.window, Times(4, Ue("conf_win_offset")))

WritesSpsSubpictures(c) ==
  LET ctbs(n) == CHOOSE k \in 0 .. n : c.ctb * k >= n /\ c.ctb * (k - 1) < n
      Place(i, last) ==
        When(i > 1 /\ c.width > c.ctb, U(CodeLength(ctbs(c.width)), "sps_subpic_ctu_top_left_x"))
        \o When(i > 1 /\ c.height > c.ctb, U(CodeLength(ctbs(c.height)), "sps_subpic_ctu_top_left_y"))
        \o When(~last /\ c.width > c.ctb, U(CodeLength(ctbs(c.width)), "sps_subpic_width_minus1"))
        \o When(~last /\ c.height > c.ctb, U(CodeLength(ctbs(c.height)), "sps_subpic_height_minus1"))
      Subpicture(i) == When(i = 1 \/ ~c.same_size, Place(i, i = c.subpics))
                       \o When(~c.independent, Flag("sps_subpic_treated_as_pic_flag")
                                               \o Flag("sps_loop_filter_across_subpic_enabled_flag"))
  IN  Flag("sps_subpic_info_present_flag")
      \o When(c.subpic_info,
              Ue("sps_num_subpics_minus1")
              \o When(c.subpics > 1, Flag("sps_independent_subpics_flag") \o Flag("sps_subpic_same_size_flag"))
              \o When(c.subpics > 1, Loop(c.subpics, Subpicture))
              \o Ue("sps_subpic_id_len_minus1") \o Flag("sps_subpic_id_mapping_explicitly_signalled_flag")
              \o When(c.explicit_ids, Flag("sps_subpic_id_mapping_present_flag"))
              \o When(c.explicit_ids /\ c.ids, Times(c.subpics, U(c.id_len, "sps_subpic_id"))))

WritesSpsCoding(c) ==
  LET Extra(bytes, name) == U(2, name) \o Times(8 * bytes, Flag(name))
                            \o Is(name, IF bytes > 0 THEN c.extra_bits ELSE 0)
  IN  Ue("sps_bitdepth_minus8") \o Flag("sps_entropy_coding_sync_enabled_flag")
      \o Flag("sps_entry_point_offsets_present_flag") \o U(4, "sps_log2_max_pic_order_cnt_lsb_minus4")
      \o Flag("sps_poc_msb_cycle_flag") \o When(c.msb, Ue("sps_poc_msb_cycle_len_minus1"))
      \o Extra(c.ph_bytes, "sps_num_extra_ph_bytes") \o Extra(c.sh_bytes, "sps_num_extra_sh_bytes")
      \o When(c.ptl /\ c.max_sub > 0, Flag("sps_sublayer_dpb_params_flag"))
      \o When(c.ptl, WritesDpb(LayersOf(c, c.max_sub), c.max_sub))

WritesSpsTools(c) ==
  LET Tree(x) == Ue("log2_diff_min_qt_min_cb") \o Ue("max_mtt_hierarchy_depth")
                 \o When(c.depths[x] # 0, Ue("log2_diff_max_bt_min_qt") \o Ue("log2_diff_max_tt_min_qt"))
      colour == c.chroma_format # 0
      tables == IF c.same_table THEN 1 ELSE IF c.joint_cbcr THEN 3 ELSE 2
      Table == Se("sps_qp_table_start_minus26") \o Ue("sps_num_points_in_qp_table_minus1")
               \o Times(c.points + 1, Ue("sps_delta_qp_in_val_minus1") \o Ue("sps_delta_qp_diff_val"))
  IN  Ue("sps_log2_min_luma_coding_block_size_minus2")
      \o Flag("sps_partition_constraints_override_enabled_flag") \o Tree(1)
      \o When(colour, Flag("sps_qtbtt_dual_tree_intra_flag")) \o When(colour /\ c.dual_tree, Tree(2))
      \o Tree(3)
      \o When(c.ctb > 32, Flag("sps_max_luma_transform_size_64_flag"))
      \o Flag("sps_transform_skip_enabled_flag")
      \o When(c.transform_skip, Ue("sps_log2_transform_skip_max_size_minus2") \o Flag("sps_bdpcm_enabled_flag"))
      \o Flag("sps_mts_enabled_flag")
      \o When(c.mts, Flag("sps_explicit_mts_intra_enabled_flag") \o Flag("sps_explicit_mts_inter_enabled_flag"))
      \o Flag("sps_lfnst_enabled_flag")
      \o When(colour, Flag("sps_joint_cbcr_enabled_flag") \o Flag("sps_same_qp_table_for_chroma_flag")
                      \o Times(tables, Table))

WritesSpsLists(c) ==
  LET Lists(x) == Ue("sps_num_ref_pic_lists")
                  \o Loop(c.counts[x], LAMBDA j : WritesListStruct(c, c.list, j - 1, c.counts[x]))
  IN  Flag("sps_sao_enabled_flag") \o Flag("sps_alf_enabled_flag")
      \o When(c.alf /\ c.chroma_format # 0, Flag("sps_ccalf_enabled_flag"))
      \o Flag("sps_lmcs_enabled_flag") \o Flag("sps_weighted_pred_flag")
      \o Flag("sps_weighted_bipred_flag") \o Flag("sps_long_term_ref_pics_flag")
      \o When(c.vps_id > 0, Flag("sps_inter_layer_prediction_enabled_flag"))
      \o Flag("sps_idr_rpl_present_flag") \o Flag("sps_rpl1_same_as_rpl0_flag")
      \o Lists(1) \o When(~c.rpl1_same, Lists(2))
      \o Is("num_ref_pic_lists", c.counts[IF c.rpl1_same THEN 1 ELSE 2])

WritesSpsInter(c) ==
  LET merge == 6 - c.six_minus_merge
  IN  Flag("sps_ref_wraparound_enabled_flag") \o Flag("sps_temporal_mvp_enabled_flag")
      \o When(c.tmvp, Flag("sps_sbtmvp_enabled_flag")) \o Flag("sps_amvr_enabled_flag")
      \o Flag("sps_bdof_enabled_flag") \o When(c.bdof, Flag("sps_bdof_control_present_in_ph_flag"))
      \o Flag("sps_smvd_enabled_flag")
      \o Flag("sps_dmvr_enabled_flag") \o When(c.dmvr, Flag("sps_dmvr_control_present_in_ph_flag"))
      \o Flag("sps_mmvd_enabled_flag") \o When(c.mmvd, Flag("sps_mmvd_fullpel_only_enabled_flag"))
      \o Ue("sps_six_minus_max_num_merge_cand") \o Flag("sps_sbt_enabled_flag")
      \o Flag("sps_affine_enabled_flag")
      \o When(c.affine, Ue("sps_five_minus_max_num_subblock_merge_cand")
                        \o Flag("sps_6param_affine_enabled_flag"))
      \o When(c.affine /\ c.amvr, Flag("sps_affine_amvr_enabled_flag"))
      \o When(c.affine, Flag("sps_affine_prof_enabled_flag"))
      \o When(c.affine /\ c.prof, Flag("sps_prof_control_present_in_ph_flag"))
      \o Flag("sps_bcw_enabled_flag") \o Flag("sps_ciip_enabled_flag")
      \o When(merge > 1, Flag("sps_gpm_enabled_flag"))
      \o When(merge > 2 /\ c.gpm, Ue("sps_max_num_merge_cand_minus_max_num_gpm_cand"))
      \o Ue("sps_log2_parallel_merge_level_minus2")

WritesSpsIntra(c) ==
  LET act == c.chroma_format = 3 /\ ~c.size_64 /\ c.act
  IN  Flag("sps_isp_enabled_flag") \o Flag("sps_mrl_enabled_flag") \o Flag("sps_mip_enabled_flag")
      \o When(c.chroma_format # 0, Flag("sps_cclm_enabled_flag"))
      \o When(c.chroma_format = 1, Flag("sps_chroma_horizontal_collocated_flag")
                                   \o Flag("sps_chroma_vertical_collocated_flag"))
      \o Flag("sps_palette_enabled_flag")
      \o When(c.chroma_format = 3 /\ ~c.size_64, Flag("sps_act_enabled_flag"))
      \o When(c.transform_skip \/ c.palette, Ue("sps_min_qp_prime_ts"))
      \o Flag("sps_ibc_enabled_flag") \o When(c.ibc, Ue("sps_six_minus_max_num_ibc_merge_cand"))
      \o Flag("sps_ladf_enabled_flag")
      \o When(c.ladf, U(2, "sps_num_ladf_intervals_minus2") \o Se("sps_ladf_lowest_interval_qp_offset"))
      \o When(c.ladf, Times(c.intervals - 1, Se("sps_ladf_qp_offset") \o Ue("sps_ladf_delta_threshold_minus1")))
      \o Flag("sps_explicit_scaling_list_enabled_flag")
      \o When(c.scaling /\ c.lfnst, Flag("sps_scaling_matrix_for_lfnst_disabled_flag"))
      \o When(c.scaling /\ act, Flag("sps_scaling_matrix_for_alternative_colour_space_disabled_flag"))
      \o When(c.scaling /\ act /\ c.alternative, Flag("sps_scaling_matrix_designated_colour_space_flag"))
      \o Flag("sps_dep_quant_enabled_flag") \o Flag("sps_sign_data_hiding_enabled_flag")

WritesSpsTiming(c) ==
     Flag("sps_virtual_boundaries_enabled_flag")
  \o When(c.boundaries, Flag("sps_virtual_boundaries_present_flag"))
  \o When(c.boundaries /\ c.positions,
          Ue("num_ver_virtual_boundaries") \o Times(c.vertical, Ue("virtual_boundary_pos_x_minus1"))
          \o Ue("num_hor_virtual_boundaries") \o Times(c.horizontal, Ue("virtual_boundary_pos_y_minus1")))
  \o When(c.ptl, Flag("sps_timing_hrd_params_present_flag"))
  \o When(c.ptl /\ c.timing,
          WritesGeneralHrd(c) \o When(c.max_sub > 0, Flag("sps_sublayer_cpb_params_present_flag"))
          \o WritesOlsHrd(c, LayersOf(c, c.max_sub), c.max_sub))

WritesVui(c) ==
     Ue("sps_vui_payload_size_minus1") \o Align
  \o Each(Flag, <<"vui_progressive_source_flag", "vui_interlaced_source_flag",
                 "vui_non_packed_constraint_flag", "vui_non_projected_constraint_flag",
                 "vui_aspect_ratio_info_present_flag">>)
  \o When(c.aspect, Flag("vui_aspect_ratio_constant_flag") \o U(8, "vui_aspect_ratio_idc"))
  \o When(c.aspect /\ c.extended_sar, U(16, "vui_sar_width") \o U(16, "vui_sar_height"))
  \o Flag("vui_overscan_info_present_flag") \o When(c.overscan, Flag("vui_overscan_appropriate_flag"))
  \o Flag("vui_colour_description_present_flag")
  \o When(c.colour, Times(3, U(8, "vui_colour_description")) \o Flag("vui_full_range_flag"))
  \o Flag("vui_chroma_loc_info_present_flag")
  \o When(c.location /\ c.progressive /\ ~c.interlaced, Ue("vui_chroma_sample_loc_type"))
  \o When(c.location /\ ~(c.progressive /\ ~c.interlaced), Times(2, Ue("vui_chroma_sample_loc_type")))

WritesSpsDisplayFlags == Flag("sps_field_seq_flag") \o Flag("sps_vui_parameters_present_flag")

WritesSpsExtension(c) ==
     Flag("sps_extension_flag")
  \o When(c.extension, Flag("sps_range_extension_flag") \o U(7, "sps_extension_7bits"))
  \o When(c.extension /\ c.range,
          Flag("sps_extended_precision_flag")
          \o When(c.transform_skip, Flag("sps_ts_residual_coding_rice_present_in_sh_flag"))
          \o Times(3, Flag("sps_range_flag")))
  \o When(c.extension /\ c.extension_7bits, Times(c.data, Flag("extension_data_flag")))

---------------------------------------------------------------------------
(* Video parameter set.  c.direct are the direct references of the layers. *)

WritesVpsLayers(c) ==
  LET Layer(i) ==
        U(6, "vps_layer_id")
        \o When(i > 1 /\ ~c.all_independent,
             LET refers(j) == <<i - 1, j - 1>> \in c.direct
             IN  Flag("vps_independent_layer_flag")
                 \o When(\E j \in 1 .. i - 1 : refers(j),
                         Flag("vps_max_tid_ref_present_flag")
                         \o Loop(i - 1, LAMBDA j : Flag("vps_direct_ref_layer_flag")
                              \o When(refers(j) /\ c.limited, U(3, "vps_max_tid_il_ref_pics_plus1")))))
  IN  U(4, "vps_video_parameter_set_id") \o U(6, "vps_max_layers_minus1") \o U(3, "vps_max_sublayers_minus1")
      \o When(c.layers > 1 /\ c.max_sub > 0, Flag("vps_default_ptl_dpb_hrd_max_tid_flag"))
      \o When(c.layers > 1, Flag("vps_all_independent_layers_flag"))
      \o Loop(c.layers, Layer)

(* The first set is the lowest layer alone; what an output layer refers to *)
(* belongs to its set.                                                     *)
LayersOfSets(c) ==
  LET all == 0 .. c.layers - 1
      closure[n \in 0 .. c.layers, s \in SUBSET all] ==
        IF n = 0 THEN s ELSE closure[n - 1, s \cup {j \in all : \E i \in s : <<i, j>> \in c.direct}]
  IN  CASE c.each_layer -> [i \in 1 .. c.layers |-> {i - 1}]
        [] ~c.each_layer /\ ~c.all_independent /\ c.mode < 2 -> [i \in 1 .. c.layers |-> 0 .. i - 1]
        [] OTHER -> <<{0}>> \o [i \in 1 .. c.listed |-> closure[c.layers, c.output[i]]]

WritesVpsSets(c) ==
  LET listing == ~c.each_layer /\ (c.all_independent \/ c.mode = 2)
  IN  When(c.layers > 1,
           When(c.all_independent, Flag("vps_each_layer_is_an_ols_flag"))
           \o When(~c.each_layer /\ ~c.all_independent, U(2, "vps_ols_mode_idc"))
           \o When(listing, U(8, "vps_num_output_layer_sets_minus2")
                            \o Times(c.listed, Times(c.layers, Flag("vps_ols_output_layer_flag"))))
           \o U(8, "vps_num_ptls_minus1"))
      \o Is("TotalNumOlss", Len(LayersOfSets(c)))

WritesVpsProfiles(c) ==
  LET top == IF c.default_tid THEN c.max_sub ELSE c.tid
  IN  Loop(c.ptls, LAMBDA i : When(i > 1, Flag("vps_pt_present_flag"))
                              \o When(~c.default_tid, U(3, "vps_ptl_max_tid")))
      \o Align \o Loop(c.ptls, LAMBDA i : WritesPtl(c, i = 1 \/ c.profiles, top))
      \o When(c.ptls > 1 /\ c.ptls # c.olss, Times(c.olss, U(8, "vps_ols_ptl_idx")))

(* Each schedule says for itself how many sub-layers it has. *)
WritesVpsSchedules(c) ==
  LET multi == Cardinality({i \in DOMAIN LayersOfSets(c) : Cardinality(LayersOfSets(c)[i]) > 1})
      top == IF c.default_tid THEN c.max_sub ELSE c.tid
      first == IF c.max_sub > 0 /\ c.all_layers THEN 0 ELSE top
      chosen(n) == n > 1 /\ n # multi
  IN  When(~c.each_layer,
           Ue("vps_num_dpb_params_minus1")
           \o When(c.max_sub > 0, Flag("vps_sublayer_dpb_params_present_flag"))
           \o Times(c.dpb_params, When(~c.default_tid, U(3, "vps_dpb_max_tid")) \o WritesDpb(first, top))
           \o Times(multi, Ue("vps_ols_dpb_pic_width") \o Ue("vps_ols_dpb_pic_height")
                           \o U(2, "vps_ols_dpb_chroma_format") \o Ue("vps_ols_dpb_bitdepth_minus8")
                           \o When(chosen(c.dpb_params), Ue("vps_ols_dpb_params_idx")))
           \o Flag("vps_timing_hrd_params_present_flag")
           \o When(c.timing, WritesGeneralHrd(c)
                             \o When(c.max_sub > 0, Flag("vps_sublayer_cpb_params_present_flag"))
                             \o Ue("vps_num_ols_timing_hrd_params_minus1")
                             \o Times(c.timings, When(~c.default_tid, U(3, "vps_hrd_max_tid"))
                                                 \o WritesOlsHrd(c, first, top))
                             \o When(chosen(c.timings), Times(multi, Ue("vps_ols_timing_hrd_idx")))))

WritesVpsExtension(c) == Flag("vps_extension_flag") \o When(c.extension, Times(c.data, Flag("extension_data_flag")))

WritesDci(c) == U(4, "dci_reserved_zero_4bits") \o U(4, "dci_num_ptls_minus1")
                \o Loop(c.ptls, LAMBDA i : WritesPtl(c, TRUE, 0)) \o Flag("dci_extension_flag")

WritesOpi(c) == Flag("opi_ols_info_present_flag") \o Flag("opi_htid_info_present_flag")
                \o When(c.ols_info, Ue("opi_ols_idx")) \o When(c.htid_info, U(3, "opi_htid_plus1"))
                \o Flag("opi_extension_flag")

---------------------------------------------------------------------------
(* Picture parameter set.  c.groups says how the slices lie on the tiles:  *)
(* each is <<top left tile, tiles across, tiles down, heights>>, where the *)
(* heights are those given for the slices that a single tile is cut into.  *)

WritesPpsStart(c) ==
     U(6, "pps_pic_parameter_set_id") \o U(4, "pps_seq_parameter_set_id")
  \o Flag("pps_mixed_nalu_types_in_pic_flag")
  \o Ue("pps_pic_width_in_luma_samples") \o Ue("pps_pic_height_in_luma_samples")
  \o Flag("pps_conformance_window_flag") \o When(c.window, Times(4, Ue("pps_conf_win_offset")))
  \o Flag("pps_scaling_window_explicit_signalling_flag")
  \o When(c.scaling_window, Times(4, Se("pps_scaling_win_offset")))
  \o Is("scaling_window", IF c.scaling_window THEN "own" ELSE IF c.window THEN "conformance" ELSE "none")
  \o Flag("pps_output_flag_present_flag") \o Flag("pps_no_pic_partition_flag")
  \o Flag("pps_subpic_id_mapping_present_flag")
  \o When(c.ids /\ ~c.unpartitioned, Ue("pps_num_subpics_minus1"))
  \o When(c.ids, Ue("pps_subpic_id_len_minus1")
                 \o Times(IF c.unpartitioned THEN 1 ELSE c.subpics, U(c.id_len, "pps_subpic_id")))

(* The sizes given and then, as often as it fits, the last one again.      *)
Uniformly(total, given) ==
  LET sum(k) == FoldLeft(+, 0, SubSeq(given, 1, k))
      last == given[Len(given)]
      before(k) == IF k <= Len(given) THEN sum(k - 1) ELSE sum(Len(given)) + last * (k - 1 - Len(given))
      n == Cardinality({k \in 1 .. total : before(k) < total})
  IN  [k \in 1 .. n |-> IF k <= Len(given) THEN given[k]
                        ELSE IF total - before(k) < last THEN total - before(k) ELSE last]

WritesPpsTiles(c) ==
  LET columns == Uniformly(c.width, c.columns)
      rows == Uniformly(c.height, c.rows)
  IN  U(2, "pps_log2_ctu_size_minus5")
      \o Ue("pps_num_exp_tile_columns_minus1") \o Ue("pps_num_exp_tile_rows_minus1")
      \o Times(Len(c.columns), Ue("pps_tile_column_width_minus1"))
      \o Times(Len(c.rows), Ue("pps_tile_row_height_minus1"))
      \o Is("tiles", <<columns, rows>>)
      \o When(Len(columns) > 1 \/ Len(rows) > 1, Flag("pps_loop_filter_across_tiles_enabled_flag")
                                                 \o Flag("pps_rect_slice_flag"))

(* A height is told where it is not that of the slice to the left.         *)
WritesPpsSlices(c) ==
  LET columns == Uniformly(c.width, c.columns)
      rows == Uniformly(c.height, c.rows)
      cols == Len(columns)
      G == c.groups
      y(g) == (G[g][1] \div cols) + 1
      whole(g) == FoldLeft(+, 0, SubSeq(rows, y(g), y(g) + G[g][3] - 1))
      heights(g) == IF G[g][4] = << >> THEN <<whole(g)>> ELSE Uniformly(whole(g), G[g][4])
      slices == FlattenSeq([g \in DOMAIN G |-> [k \in DOMAIN heights(g) |-> <<G[g][1], heights(g)[k]>>]])
      told(g) == g < Len(G) \/ Len(heights(g)) > 1
      Group(g) ==
        When(told(g),
             When((G[g][1] + 1) % cols # 0, Ue("pps_slice_width_in_tiles_minus1"))
             \o When(y(g) < Len(rows) /\ (c.deltas \/ G[g][1] % cols = 0), Ue("pps_slice_height_in_tiles_minus1"))
             \o When(G[g][2] = 1 /\ G[g][3] = 1 /\ rows[y(g)] > 1,
                     Ue("pps_num_exp_slices_in_tile")
                     \o Times(Len(G[g][4]), Ue("pps_exp_slice_height_in_ctus_minus1")))
             \o When(c.deltas /\ g < Len(G), Se("pps_tile_idx_delta_val")))
  IN  When(c.rect, Flag("pps_single_slice_per_subpic_flag"))
      \o When(c.rect /\ ~c.single,
              Ue("pps_num_slices_in_pic_minus1")
              \o When(Len(slices) > 2, Flag("pps_tile_idx_delta_present_flag"))
              \o Loop(Len(G), Group) \o Is("slices", slices))
      \o When(~c.rect \/ c.single \/ Len(slices) > 1, Flag("pps_loop_filter_across_slices_enabled_flag"))

WritesPpsTail(c) ==
  LET tools == c.chroma_tools
  IN  Flag("pps_cabac_init_present_flag") \o Times(2, Ue("pps_num_ref_idx_default_active_minus1"))
      \o Is("pps_num_ref_idx_default_active", c.default)
      \o Flag("pps_rpl1_idx_present_flag") \o Flag("pps_weighted_pred_flag")
      \o Flag("pps_weighted_bipred_flag") \o Flag("pps_ref_wraparound_enabled_flag")
      \o When(c.wraparound, Ue("pps_pic_width_minus_wraparound_offset"))
      \o Se("pps_init_qp_minus26") \o Flag("pps_cu_qp_delta_enabled_flag")
      \o Flag("pps_chroma_tool_offsets_present_flag")
      \o When(tools, Se("pps_cb_qp_offset") \o Se("pps_cr_qp_offset")
                     \o Flag("pps_joint_cbcr_qp_offset_present_flag"))
      \o When(tools /\ c.joint, Se("pps_joint_cbcr_qp_offset_value"))
      \o When(tools, Flag("pps_slice_chroma_qp_offsets_present_flag")
                     \o Flag("pps_cu_chroma_qp_offset_list_enabled_flag"))
      \o When(tools /\ c.offset_lists > 0, Ue("pps_chroma_qp_offset_list_len_minus1"))
      \o When(tools, Times(c.offset_lists, Se("pps_cb_qp_offset_list") \o Se("pps_cr_qp_offset_list")
                                           \o When(c.joint, Se("pps_joint_cbcr_qp_offset_list"))))

WritesPpsEnd(c) ==
     Flag("pps_deblocking_filter_control_present_flag")
  \o When(c.control, Flag("pps_deblocking_filter_override_enabled_flag")
                     \o Flag("pps_deblocking_filter_disabled_flag"))
  \o When(c.control /\ ~c.unpartitioned /\ c.override, Flag("pps_dbf_info_in_ph_flag"))
  \o When(c.control /\ ~c.disabled, Times(2, Se("pps_deblocking_offset")))
  \o When(c.control /\ ~c.disabled /\ c.chroma_tools, Times(4, Se("pps_deblocking_offset")))
  \o Is("pps_deblocking_filter_disabled_flag", c.control /\ c.disabled)
  \o When(~c.unpartitioned, Flag("pps_rpl_info_in_ph_flag") \o Flag("pps_sao_info_in_ph_flag")
                            \o Flag("pps_alf_info_in_ph_flag"))
  \o When(~c.unpartitioned /\ c.weighted /\ c.rpl_in_ph, Flag("pps_wp_info_in_ph_flag"))
  \o When(~c.unpartitioned, Flag("pps_qp_delta_info_in_ph_flag"))
  \o Flag("pps_picture_header_extension_present_flag") \o Flag("pps_slice_header_extension_present_flag")
  \o Flag("pps_extension_flag") \o When(c.extension, Times(c.data, Flag("pps_extension_data_flag")))

---------------------------------------------------------------------------
(* Picture header *)

WritesPhStart(c) ==
  LET recovers == c.gdr_or_irap /\ c.gdr
  IN  Flag("ph_gdr_or_irap_pic_flag") \o Flag("ph_non_ref_pic_flag")
      \o When(c.gdr_or_irap, Flag("ph_gdr_pic_flag"))
      \o Flag("ph_inter_slice_allowed_flag") \o When(c.inter, Flag("ph_intra_slice_allowed_flag"))
      \o Is("ph_intra_slice_allowed_flag", c.inter => c.intra)
      \o Ue("ph_pic_parameter_set_id") \o U(c.lsb_bits, "ph_pic_order_cnt_lsb")
      \o When(recovers, Ue("ph_recovery_poc_cnt")) \o Times(c.extra_bits, Flag("ph_extra_bit"))
      \o When(c.msb_cycle, Flag("ph_poc_msb_cycle_present_flag"))
      \o When(c.msb_cycle /\ c.msb, U(c.msb_len, "ph_poc_msb_cycle_val"))

WritesAlf(c) ==
  LET colour == c.chroma_format # 0
  IN  Flag("alf_enabled_flag")
      \o When(c.alf, U(3, "num_alf_aps_ids_luma") \o Times(c.alf_ids, U(3, "alf_aps_id_luma")))
      \o When(c.alf /\ colour, Flag("alf_cb_enabled_flag") \o Flag("alf_cr_enabled_flag"))
      \o When(c.alf /\ colour /\ c.alf_cb, U(3, "alf_aps_id_chroma"))
      \o When(c.alf /\ colour /\ ~c.alf_cb /\ c.alf_cr, U(3, "alf_aps_id_chroma"))
      \o When(c.alf /\ c.ccalf, Flag("alf_cc_cb_enabled_flag"))
      \o When(c.alf /\ c.ccalf /\ c.cc_cb, U(3, "alf_cc_cb_aps_id"))
      \o When(c.alf /\ c.ccalf, Flag("alf_cc_cr_enabled_flag"))
      \o When(c.alf /\ c.ccalf /\ c.cc_cr, U(3, "alf_cc_cr_aps_id"))

WritesSao(c) == Flag("sao_luma_flag") \o When(c.chroma_format # 0, Flag("sao_chroma_flag"))

WritesDeblockingOffsets(c) ==
  Times(2, Se("deblocking_offset")) \o When(c.chroma_tools, Times(4, Se("deblocking_offset")))

WritesPhTools(c) ==
     When(c.sps_alf /\ c.alf_in_ph, WritesAlf(c))
  \o When(c.sps_lmcs, Flag("ph_lmcs_enabled_flag")) \o When(c.sps_lmcs /\ c.lmcs, U(2, "ph_lmcs_aps_id"))
  \o When(c.sps_lmcs /\ c.lmcs /\ c.chroma_format # 0, Flag("ph_chroma_residual_scale_flag"))
  \o When(c.sps_scaling, Flag("ph_explicit_scaling_list_enabled_flag"))
  \o When(c.sps_scaling /\ c.scaling, U(3, "ph_scaling_list_aps_id"))

WritesPhBoundaries(c) ==
  LET asks == c.boundaries /\ ~c.sps_positions
      outputs == c.output_present /\ ~c.non_ref
  IN  When(asks, Flag("ph_virtual_boundaries_present_flag"))
      \o When(asks /\ c.positions,
              Ue("ph_num_ver_virtual_boundaries") \o Times(c.vertical, Ue("ph_virtual_boundary_pos_x_minus1"))
              \o Ue("ph_num_hor_virtual_boundaries")
              \o Times(c.horizontal, Ue("ph_virtual_boundary_pos_y_minus1")))
      \o When(outputs, Flag("ph_pic_output_flag")) \o Is("ph_pic_output_flag", outputs => c.output)

WritesPhPartitioning(c) ==
  LET override == c.override_enabled /\ c.override
      Tree(x) == Ue("ph_log2_diff_min_qt_min_cb") \o Ue("ph_max_mtt_hierarchy_depth")
                 \o When(c.depths[x] > 0, Ue("ph_log2_diff_max_bt_min_qt") \o Ue("ph_log2_diff_max_tt_min_qt"))
      Subdivisions == When(c.cu_qp_delta, Ue("ph_cu_qp_delta_subdiv"))
                      \o When(c.chroma_offset_list, Ue("ph_cu_chroma_qp_offset_subdiv"))
      depth == [x \in 1 .. 3 |-> IF override THEN c.depths[x] ELSE c.sps_depths[x]]
  IN  When(c.override_enabled, Flag("ph_partition_constraints_override_flag"))
      \o When(c.intra /\ override, Tree(1)) \o When(c.intra /\ override /\ c.dual_tree, Tree(2))
      \o When(c.intra, Subdivisions \o Is("max_mtt_hierarchy_depth_intra_slice_luma", depth[1]))
      \o When(c.inter /\ override, Tree(3))
      \o When(c.inter, Subdivisions \o Is("max_mtt_hierarchy_depth_inter_slice", depth[3]))

LOCAL WritesCollocated(c, n, two) ==
     When(two, Flag("collocated_from_l0_flag"))
  \o When((two => c.from_l0) /\ n[1] > 1, Ue("collocated_ref_idx"))
  \o When(two /\ ~c.from_l0 /\ n[2] > 1, Ue("collocated_ref_idx"))
  \o Is("collocated_from_l0_flag", two => c.from_l0)

(* A tool is off where the header does not say so if the SPS is without.   *)
WritesTemporalMvp(c) ==
  LET mvp == c.inter /\ c.sps_tmvp
  IN  When(mvp, Flag("ph_temporal_mvp_enabled_flag"))
      \o When(mvp /\ c.tmvp /\ c.rpl_in_ph, WritesCollocated(c, c.n, c.n[2] > 0))

WritesPhInterTools(c) ==
  LET two == c.rpl_in_ph => c.n[2] > 0
      off(control, flag, enabled) == IF control THEN two => flag ELSE ~enabled
  IN  When(c.inter /\ c.fullpel_only, Flag("ph_mmvd_fullpel_only_flag"))
      \o When(c.inter /\ two, Flag("ph_mvd_l1_zero_flag"))
      \o When(c.inter /\ two /\ c.bdof_control, Flag("ph_bdof_disabled_flag"))
      \o When(c.inter /\ two /\ c.dmvr_control, Flag("ph_dmvr_disabled_flag"))
      \o When(c.inter, Is("ph_bdof_disabled_flag", off(c.bdof_control, c.bdof_off, c.bdof))
                       \o Is("ph_dmvr_disabled_flag", off(c.dmvr_control, c.dmvr_off, c.dmvr)))
      \o When(c.inter /\ c.prof_control, Flag("ph_prof_disabled_flag"))

WritesPhWeights(c) ==
  When(c.inter /\ c.wp_in_ph /\ ~(~c.weighted_pred /\ ~c.weighted_bipred), WritesWeights(c))

WritesPhQpAndSao(c) ==
     When(c.qp_in_ph, Se("ph_qp_delta")) \o When(c.joint_cbcr, Flag("ph_joint_cbcr_sign_flag"))
  \o When(c.sps_sao /\ c.sao_in_ph, WritesSao(c))

WritesPhDeblocking(c) ==
  LET own == c.dbf_in_ph /\ c.params
      disabled == IF ~own THEN c.pps_disabled ELSE IF c.pps_disabled THEN FALSE ELSE c.disabled
  IN  When(c.dbf_in_ph, Flag("ph_deblocking_params_present_flag"))
      \o When(own /\ ~c.pps_disabled, Flag("ph_deblocking_filter_disabled_flag"))
      \o When(own /\ ~disabled, WritesDeblockingOffsets(c))
      \o Is("ph_deblocking_filter_disabled_flag", disabled)

WritesHeaderExtension(c) ==
  When(c.extension_present, Ue("extension_length") \o Times(c.extension, U(8, "extension_byte")))

---------------------------------------------------------------------------
(* Slice header *)

WritesSlicePlace(c) ==
     When(c.subpic_info, U(c.id_len, "sh_subpic_id"))
  \o When(c.rect /\ ~c.single /\ c.subpic_slices > 1, U(CodeLength(c.subpic_slices), "sh_slice_address"))
  \o When(~c.rect /\ c.tiles > 1, U(CodeLength(c.tiles), "sh_slice_address"))
  \o Times(c.extra_bits, Flag("sh_extra_bit"))
  \o When(~c.rect /\ c.tiles - c.address > 1, Ue("sh_num_tiles_in_slice_minus1"))

(* IDR_W_RADL is 7, IDR_N_LP 8, CRA_NUT 9 and GDR_NUT 10.                  *)
WritesSliceKind(c) ==
  When(c.inter, Ue("sh_slice_type")) \o When(c.nal_type \in 7 .. 10, Flag("sh_no_output_of_prior_pics_flag"))

WritesSliceTools(c) ==
     When(c.sps_alf /\ ~c.alf_in_ph, WritesAlf(c))
  \o When(c.lmcs /\ ~c.in_slice, Flag("sh_lmcs_used_flag"))
  \o When(c.scaling /\ ~c.in_slice, Flag("sh_explicit_scaling_list_used_flag"))
  \o Is("sh_lmcs_used_flag", IF c.in_slice THEN c.lmcs ELSE c.lmcs /\ c.lmcs_used)

WritesSliceLists(c) ==
  When(~c.rpl_in_ph /\ (~c.idr \/ c.idr_rpl), WritesLists(c))

WritesReferenceCounts(c) ==
  LET lists == [B |-> {1, 2}, P |-> {1}, I |-> {}][c.type]
      asked == \E x \in lists : c.n[x] > 1
      number(x) ==
        CASE x \notin lists -> 0
          [] x \in lists /\ asked /\ c.override -> IF c.n[x] > 1 THEN c.coded[x] ELSE 1
          [] OTHER -> IF c.n[x] >= c.default THEN c.default ELSE c.n[x]
  IN  When(asked, Flag("sh_num_ref_idx_active_override_flag"))
      \o When(asked /\ c.override,
              Times(Cardinality({x \in lists : c.n[x] > 1}), Ue("sh_num_ref_idx_active_minus1")))
      \o Is("NumRefIdxActive", <<number(1), number(2)>>)

WritesSliceInter(c) ==
  When(c.type # "I",
       When(c.cabac_init, Flag("sh_cabac_init_flag"))
       \o When(c.tmvp /\ ~c.rpl_in_ph, WritesCollocated(c, c.active, c.type = "B"))
       \o When(~c.wp_in_ph /\ (IF c.type = "B" THEN c.weighted_bipred ELSE c.weighted_pred), WritesWeights(c)))

WritesSliceFilters(c) ==
     When(~c.qp_in_ph, Se("sh_qp_delta"))
  \o When(c.chroma_offsets, Se("sh_cb_qp_offset") \o Se("sh_cr_qp_offset"))
  \o When(c.chroma_offsets /\ c.joint_cbcr, Se("sh_joint_cbcr_qp_offset"))
  \o When(c.chroma_offset_list, Flag("sh_cu_chroma_qp_offset_enabled_flag"))
  \o When(c.sps_sao /\ ~c.sao_in_ph, WritesSao(c))

WritesSliceDeblocking(c) ==
  LET asks == c.dbf_override /\ ~c.dbf_in_ph
      own == asks /\ c.params
      disabled == IF own THEN (IF c.pps_disabled THEN FALSE ELSE c.disabled) ELSE c.ph_disabled
  IN  When(asks, Flag("sh_deblocking_params_present_flag"))
      \o When(own /\ ~c.pps_disabled, Flag("sh_deblocking_filter_disabled_flag"))
      \o When(own /\ ~disabled, WritesDeblockingOffsets(c))
      \o Is("sh_deblocking_filter_disabled_flag", disabled)

WritesSliceResiduals(c) ==
  LET dependent == c.sps_dep_quant /\ c.dep_quant
      hiding == c.sps_sign_hiding /\ c.sign_hiding /\ ~dependent
      asks == c.transform_skip /\ ~dependent /\ ~hiding
  IN  When(c.sps_dep_quant, Flag("sh_dep_quant_used_flag"))
      \o When(c.sps_sign_hiding /\ ~dependent, Flag("sh_sign_data_hiding_used_flag"))
      \o When(asks, Flag("sh_ts_residual_coding_disabled_flag"))
      \o When(c.rice /\ (asks => ~c.ts_disabled), U(3, "sh_ts_residual_coding_rice_idx_minus1"))
      \o When(c.reverse_last, Flag("sh_reverse_last_sig_coeff_flag"))

(* An entry point for each tile after the first and, with wavefronts, for  *)
(* each row of CTBs of each tile.                                          *)
WritesEntryPoints(c) ==
  LET tiles == IF c.layout = "raster" THEN [i \in 1 .. c.tiles_in_slice |-> ((c.address + i - 1) \div c.columns) + 1]
               ELSE [i \in 1 .. c.width * Len(c.rows) |-> ((i - 1) \div c.width) + 1]
      substreams == FoldLeft(LAMBDA n, row : n + (IF c.entropy_sync THEN c.rows[row] ELSE 1), 0, tiles)
  IN  When(c.entry_points /\ substreams > 1,
           Ue("sh_entry_offset_len_minus1") \o Times(substreams - 1, U(c.offset_len, "sh_entry_point_offset_minus1")))
============================================================================
