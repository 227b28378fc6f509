----------------------- MODULE VvcParameterSetSyntax ------------------------
(* The video, sequence and picture parameter sets of VVC, the decoding     *)
(* capability and the operating point information as their parsers read    *)
(* them (src/parser/vvc_{vps,sps,pps,dci,opi}_parser.hpp).                 *)
EXTENDS SyntaxElements

(* The reference picture lists of VVC as the three parsers read them, each *)
(* with a copy of its own (src/parser/vvc_{sps,ph,slice}_parser.hpp), and  *)
(* the table of prediction weights that follows the lists.                 *)
(*                                                                         *)
(* An entry of a list is "next" (a short-term picture one step away, where *)
(* abs_delta_poc_st is 0), "short", "long" or "layer".                     *)

(* Unless weighted prediction is on, the delta is coded minus one. *)
AbsDelta(c, entries, i) ==
  LET coded == IF entries[i] = "next" THEN 0 ELSE 1
  IN  IF c.weighted /\ i # 1 THEN coded ELSE coded + 1

(* Of list j of the SPS, or of the one that a header carries itself, the   *)
(* one after the last; list is [entries, in_header].                       *)
LtrpInHeader(c, list, j, lists) ==
  \/ c.long_term /\ j < lists /\ list.entries # << >> /\ list.in_header
  \/ c.long_term /\ j = lists

(* Fault: the sign is read whatever the distance. *)
ShortTermEntryAlwaysSigned(c, entries, i) ==
  Ue("abs_delta_poc_st") \o Flag("strp_entry_sign_flag")

ShortTermEntry(c, entries, i) ==
  Ue("abs_delta_poc_st") \o When(AbsDelta(c, entries, i) > 0, Flag("strp_entry_sign_flag"))

RefPicListEntry(c, list, j, lists, i) ==
  LET kind == list.entries[i]
  IN  When(c.inter_layer, Flag("inter_layer_ref_pic_flag"))
      \o IF kind = "layer" THEN Ue("ilrp_idx")
         ELSE When(c.long_term, Flag("st_ref_pic_flag"))
              \o IF kind = "long"
                 THEN When(~LtrpInHeader(c, list, j, lists), U(c.lsb_bits, "rpls_poc_lsb_lt"))
                 ELSE ShortTermEntry(c, list.entries, i)

RefPicListStruct(c, list, j, lists) ==
     Ue("num_ref_entries")
  \o When(c.long_term /\ j < lists /\ list.entries # << >>, Flag("ltrp_in_header_flag"))
  \o Is("ltrp_in_header_flag", LtrpInHeader(c, list, j, lists))
  \o Loop(Len(list.entries), LAMBDA i : RefPicListEntry(c, list, j, lists, i))

---------------------------------------------------------------------------
(* ref_pic_lists() of a picture or slice header.  c.sps_lists are the      *)
(* lists of the SPS, c.lists what the header says of each of its own two.  *)

IsCoded(c, x) == x = 1 \/ c.rpl1_idx

RplSpsFlag(c, x) ==
  /\ c.sps_lists[x] # << >>
  /\ IF IsCoded(c, x) THEN c.lists[x].by_sps ELSE c.sps_lists[1] # << >> /\ c.lists[1].by_sps

(* The index of list 1 is that of list 0 where it is not coded. *)
RplIdx(c, x) ==
  LET num == Len(c.sps_lists[x])
  IN  CASE num > 1 /\ IsCoded(c, x) -> c.lists[x].idx
        [] num = 1 -> 0
        [] OTHER -> IF Len(c.sps_lists[1]) = 1 THEN 0 ELSE c.lists[1].idx

HeaderList(c, x) ==
  IF RplSpsFlag(c, x) THEN c.sps_lists[x][RplIdx(c, x) + 1]
  ELSE [entries |-> c.lists[x].entries, in_header |-> c.long_term]

Longs(entries) == Cardinality({i \in DOMAIN entries : entries[i] = "long"})

LongTermEntry(c, in_header) ==
     When(in_header, U(c.lsb_bits, "poc_lsb_lt"))
  \o Flag("delta_poc_msb_cycle_present_flag") \o When(c.msb, Ue("delta_poc_msb_cycle_lt"))

RefPicLists(c) ==
  LET One(x) ==
        LET num == Len(c.sps_lists[x])
            by_sps == RplSpsFlag(c, x)
            list == HeaderList(c, x)
        IN  When(num > 0 /\ IsCoded(c, x), Flag("rpl_sps_flag"))
            \o When(by_sps /\ num > 1 /\ IsCoded(c, x), U(CeilLog2(num), "rpl_idx"))
            \o When(~by_sps, RefPicListStruct(c, list, num, num))
            \o Times(Longs(list.entries), LongTermEntry(c, list.in_header))
            \o Is("list", list.entries)
  IN  One(1) \o One(2)

---------------------------------------------------------------------------
(* pred_weight_table(): of as many pictures as the picture header says, or *)
(* of those that the slice uses.  luma and chroma are the flags.           *)

Weights(c, x, count) ==
     Times(count, Flag("luma_weight_flag"))
  \o When(c.chroma_format # 0, Times(count, Flag("chroma_weight_flag")))
  \o Loop(count, LAMBDA i :
       When(c.luma[x][i], Se("delta_luma_weight") \o Se("luma_offset"))
       \o When(c.chroma_format # 0 /\ c.chroma[x][i],
               Times(2, Se("delta_chroma_weight") \o Se("delta_chroma_offset"))))

PredWeightTable(c) ==
  LET Count(x) == IF c.in_ph THEN c.weights[x] ELSE c.active[x]
      second == c.weighted_bipred /\ c.entries[2] > 0
  IN  Ue("luma_log2_weight_denom")
      \o When(c.chroma_format # 0, Se("delta_chroma_log2_weight_denom"))
      \o When(c.in_ph, Ue("num_l0_weights")) \o Weights(c, 1, Count(1))
      \o When(second /\ c.in_ph, Ue("num_l1_weights"))
      \o When(second, Weights(c, 2, Count(2)))

---------------------------------------------------------------------------
(* What skip_general_constraints_info() passes over, group by group.       *)
GeneralConstraints(c) ==
     Flag("gci_present_flag")
  \o When(c.constraints,
       Times(3, Flag("gci_general")) \o U(4, "gci_bit_depth") \o U(2, "gci_chroma_format")
       \o Times(10, Flag("gci_nal_unit")) \o Times(6, Flag("gci_partitioning"))
       \o U(2, "gci_ctu_size") \o Times(3, Flag("gci_block")) \o Times(6, Flag("gci_intra"))
       \o Times(16, Flag("gci_inter")) \o Times(13, Flag("gci_transform"))
       \o Times(6, Flag("gci_loop_filter")) \o U(8, "gci_num_additional_bits")
       \o LET known == IF c.additional > 5 THEN 6 ELSE 0
          IN  Times(known, Flag("gci_extended"))
              \o Times(c.additional - known, Flag("gci_reserved_bit")))
  \o Align

(* c.levels of the sub-layers up to max_tid have a level of their own.     *)
ProfileTierLevel(c, profile_tier, max_tid) ==
     When(profile_tier, U(7, "general_profile_idc") \o Flag("general_tier_flag"))
  \o U(8, "general_level_idc") \o Flag("ptl_frame_only_constraint_flag")
  \o Flag("ptl_multilayer_enabled_flag")
  \o When(profile_tier, GeneralConstraints(c))
  \o Times(max_tid, Flag("ptl_sublayer_level_present_flag")) \o Align
  \o Times(IF c.levels > max_tid THEN max_tid ELSE c.levels, U(8, "sublayer_level_idc"))
  \o When(profile_tier, U(8, "ptl_num_sub_profiles")
                        \o Times(c.sub_profiles, U(32, "general_sub_profile_idc")))

DpbParameters(max_tid, all_layers) ==
  Times(IF all_layers THEN max_tid + 1 ELSE 1,
        Each(Ue, <<"dpb_max_dec_pic_buffering_minus1", "dpb_max_num_reorder_pics",
                   "dpb_max_latency_increase_plus1">>))

GeneralTimingHrd(c) ==
     U(32, "num_units_in_tick") \o U(32, "time_scale")
  \o Flag("general_nal_hrd_params_present_flag") \o Flag("general_vcl_hrd_params_present_flag")
  \o When(c.nal \/ c.vcl,
          Flag("general_same_pic_timing_in_all_ols_flag")
          \o Flag("general_du_hrd_params_present_flag")
          \o When(c.du, U(8, "tick_divisor_minus2"))
          \o U(4, "bit_rate_scale") \o U(4, "cpb_size_scale")
          \o When(c.du, U(4, "cpb_size_du_scale")) \o Ue("hrd_cpb_cnt_minus1"))

SublayerHrd(c) ==
  Times(c.cpb_cnt, Ue("bit_rate_value_minus1") \o Ue("cpb_size_value_minus1")
                   \o When(c.du, Ue("cpb_size_du_value_minus1") \o Ue("bit_rate_du_value_minus1"))
                   \o Flag("cbr_flag"))

(* The flag that tells low delay is there for a single schedule only.      *)
OlsSublayer(c) ==
     Flag("fixed_pic_rate_general_flag")
  \o When(~c.general, Flag("fixed_pic_rate_within_cvs_flag"))
  \o (IF c.general \/ c.within_cvs THEN Ue("elemental_duration_in_tc_minus1")
      ELSE When((c.nal \/ c.vcl) /\ c.cpb_cnt = 1, Flag("low_delay_hrd_flag")))
  \o When(c.nal, SublayerHrd(c)) \o When(c.vcl, SublayerHrd(c))

OlsTimingHrd(c, first, last) == Times(last - first + 1, OlsSublayer(c))

ExtensionBits(c) == Times(c.data, Flag("extension_data_flag"))

---------------------------------------------------------------------------
(* seq_parameter_set_rbsp() *)

SpsStart(c) ==
     U(4, "sps_seq_parameter_set_id") \o U(4, "sps_video_parameter_set_id")
  \o U(3, "sps_max_sublayers_minus1") \o U(2, "sps_chroma_format_idc")
  \o U(2, "sps_log2_ctu_size_minus5") \o Flag("sps_ptl_dpb_hrd_params_present_flag")
  \o When(c.ptl, ProfileTierLevel(c, TRUE, c.max_sub))
  \o Flag("sps_gdr_enabled_flag") \o Flag("sps_ref_pic_resampling_enabled_flag")
  \o When(c.resampling, Flag("sps_res_change_in_clvs_allowed_flag"))
  \o Ue("pic_width_max_in_luma_samples") \o Ue("pic_height_max_in_luma_samples")
  \o Flag("conformance_window_flag") \o When(c.window, Times(4, Ue("conf_win_offset")))

InCtbs(samples, ctb) == (samples + ctb - 1) \div ctb

(* Positions and sizes, for the last subpicture its position only.         *)
SubpictureLayout(c, i) ==
  LET across(name) == When(c.width > c.ctb, U(CeilLog2(InCtbs(c.width, c.ctb)), name))
      down(name) == When(c.height > c.ctb, U(CeilLog2(InCtbs(c.height, c.ctb)), name))
      first == across("sps_subpic_width_minus1") \o down("sps_subpic_height_minus1")
      later == across("sps_subpic_ctu_top_left_x") \o down("sps_subpic_ctu_top_left_y")
               \o When(i < c.subpics - 1, first)
  IN  (IF i = 0 THEN first ELSE When(~c.same_size, later))
      \o When(~c.independent, Flag("sps_subpic_treated_as_pic_flag")
                              \o Flag("sps_loop_filter_across_subpic_enabled_flag"))

SubpictureIds(c) ==
     Ue("sps_subpic_id_len_minus1") \o Flag("sps_subpic_id_mapping_explicitly_signalled_flag")
  \o When(c.explicit_ids, Flag("sps_subpic_id_mapping_present_flag")
                          \o When(c.ids, Times(c.subpics, U(c.id_len, "sps_subpic_id"))))

SpsSubpictures(c) ==
  Flag("sps_subpic_info_present_flag")
  \o When(c.subpic_info,
          Ue("sps_num_subpics_minus1")
          \o When(c.subpics > 1, Flag("sps_independent_subpics_flag")
                                 \o Flag("sps_subpic_same_size_flag")
                                 \o Loop(c.subpics, LAMBDA i : SubpictureLayout(c, i - 1)))
          \o SubpictureIds(c))

(* Only the bits that are set tell of a bit in the header. *)
ExtraBits(bytes, set, name) ==
  U(2, name) \o Times(8 * bytes, Flag(name)) \o Is(name, IF bytes = 0 THEN 0 ELSE set)

SpsCoding(c) ==
     Ue("sps_bitdepth_minus8") \o Flag("sps_entropy_coding_sync_enabled_flag")
  \o Flag("sps_entry_point_offsets_present_flag") \o U(4, "sps_log2_max_pic_order_cnt_lsb_minus4")
  \o Flag("sps_poc_msb_cycle_flag") \o When(c.msb, Ue("sps_poc_msb_cycle_len_minus1"))
  \o ExtraBits(c.ph_bytes, c.extra_bits, "sps_num_extra_ph_bytes")
  \o ExtraBits(c.sh_bytes, c.extra_bits, "sps_num_extra_sh_bytes")
  \o When(c.ptl, When(c.max_sub > 0, Flag("sps_sublayer_dpb_params_flag"))
                 \o DpbParameters(c.max_sub, c.max_sub > 0 /\ c.all_layers))

(* The depth of the binary and ternary splits of one kind of tree. *)
PartitionTree(depth) ==
  Ue("log2_diff_min_qt_min_cb") \o Ue("max_mtt_hierarchy_depth")
  \o When(depth > 0, Ue("log2_diff_max_bt_min_qt") \o Ue("log2_diff_max_tt_min_qt"))

SpsPartitioning(c) ==
     Ue("sps_log2_min_luma_coding_block_size_minus2")
  \o Flag("sps_partition_constraints_override_enabled_flag")
  \o PartitionTree(c.depths[1])
  \o When(c.chroma_format # 0, Flag("sps_qtbtt_dual_tree_intra_flag"))
  \o When(c.chroma_format # 0 /\ c.dual_tree, PartitionTree(c.depths[2]))
  \o PartitionTree(c.depths[3])

SpsTransform(c) ==
     When(c.ctb > 32, Flag("sps_max_luma_transform_size_64_flag"))
  \o Flag("sps_transform_skip_enabled_flag")
  \o When(c.transform_skip, Ue("sps_log2_transform_skip_max_size_minus2")
                            \o Flag("sps_bdpcm_enabled_flag"))
  \o Flag("sps_mts_enabled_flag")
  \o When(c.mts, Flag("sps_explicit_mts_intra_enabled_flag")
                 \o Flag("sps_explicit_mts_inter_enabled_flag"))
  \o Flag("sps_lfnst_enabled_flag")

(* Number of points + 1 of each table. *)
SpsChromaQp(c) ==
  LET tables == IF c.same_table THEN 1 ELSE IF c.joint_cbcr THEN 3 ELSE 2
      points == IF c.points > 36 THEN 36 ELSE c.points
  IN  When(c.chroma_format # 0,
           Flag("sps_joint_cbcr_enabled_flag") \o Flag("sps_same_qp_table_for_chroma_flag")
           \o Times(tables, Se("sps_qp_table_start_minus26")
                            \o Ue("sps_num_points_in_qp_table_minus1")
                            \o Times(points + 1, Ue("sps_delta_qp_in_val_minus1")
                                                 \o Ue("sps_delta_qp_diff_val"))))

SpsLoopFilters(c) ==
     Flag("sps_sao_enabled_flag") \o Flag("sps_alf_enabled_flag")
  \o When(c.alf /\ c.chroma_format # 0, Flag("sps_ccalf_enabled_flag"))
  \o Flag("sps_lmcs_enabled_flag") \o Flag("sps_weighted_pred_flag")
  \o Flag("sps_weighted_bipred_flag") \o Flag("sps_long_term_ref_pics_flag")
  \o When(c.vps_id > 0, Flag("sps_inter_layer_prediction_enabled_flag"))
  \o Flag("sps_idr_rpl_present_flag")

(* At most 32 lists, as many as there is place for. c.list is every one.   *)
SpsRefPicLists(c) ==
  LET kept(x) == IF c.counts[x] > 32 THEN 32 ELSE c.counts[x]
      One(x) == Ue("sps_num_ref_pic_lists")
                \o Loop(kept(x), LAMBDA j : RefPicListStruct(c, c.list, j - 1, kept(x)))
  IN  Flag("sps_rpl1_same_as_rpl0_flag")
      \o One(1) \o When(~c.rpl1_same, One(2))
      \o Is("num_ref_pic_lists", IF c.rpl1_same THEN kept(1) ELSE kept(2))

SpsAffine(c) ==
  Flag("sps_affine_enabled_flag")
  \o When(c.affine, Ue("sps_five_minus_max_num_subblock_merge_cand")
                    \o Flag("sps_6param_affine_enabled_flag")
                    \o When(c.amvr, Flag("sps_affine_amvr_enabled_flag"))
                    \o Flag("sps_affine_prof_enabled_flag")
                    \o When(c.prof, Flag("sps_prof_control_present_in_ph_flag")))

(* A control flag follows each tool that a picture header may switch off.  *)
SpsInter(c) ==
  LET Tool(on, name, control) == Flag(name) \o When(on, Flag(control))
      merge_cands == 6 - c.six_minus_merge
  IN     Flag("sps_ref_wraparound_enabled_flag")
      \o Tool(c.tmvp, "sps_temporal_mvp_enabled_flag", "sps_sbtmvp_enabled_flag")
      \o Flag("sps_amvr_enabled_flag")
      \o Tool(c.bdof, "sps_bdof_enabled_flag", "sps_bdof_control_present_in_ph_flag")
      \o Flag("sps_smvd_enabled_flag")
      \o Tool(c.dmvr, "sps_dmvr_enabled_flag", "sps_dmvr_control_present_in_ph_flag")
      \o Tool(c.mmvd, "sps_mmvd_enabled_flag", "sps_mmvd_fullpel_only_enabled_flag")
      \o Ue("sps_six_minus_max_num_merge_cand") \o Flag("sps_sbt_enabled_flag")
      \o SpsAffine(c) \o Flag("sps_bcw_enabled_flag") \o Flag("sps_ciip_enabled_flag")
      \o When(merge_cands >= 2,
              Flag("sps_gpm_enabled_flag")
              \o When(c.gpm /\ merge_cands >= 3, Ue("sps_max_num_merge_cand_minus_max_num_gpm_cand")))
      \o Ue("sps_log2_parallel_merge_level_minus2")

SpsIntra(c) ==
     Flag("sps_isp_enabled_flag") \o Flag("sps_mrl_enabled_flag") \o Flag("sps_mip_enabled_flag")
  \o When(c.chroma_format # 0, Flag("sps_cclm_enabled_flag"))
  \o When(c.chroma_format = 1, Flag("sps_chroma_horizontal_collocated_flag")
                               \o Flag("sps_chroma_vertical_collocated_flag"))
  \o Flag("sps_palette_enabled_flag")
  \o When(c.chroma_format = 3 /\ ~c.size_64, Flag("sps_act_enabled_flag"))
  \o When(c.transform_skip \/ c.palette, Ue("sps_min_qp_prime_ts"))
  \o Flag("sps_ibc_enabled_flag") \o When(c.ibc, Ue("sps_six_minus_max_num_ibc_merge_cand"))

SpsLadf(c) ==
  Flag("sps_ladf_enabled_flag")
  \o When(c.ladf, U(2, "sps_num_ladf_intervals_minus2") \o Se("sps_ladf_lowest_interval_qp_offset")
                  \o Times(c.intervals - 1, Se("sps_ladf_qp_offset")
                                            \o Ue("sps_ladf_delta_threshold_minus1")))

SpsScaling(c) ==
  LET act_lists == c.chroma_format = 3 /\ ~c.size_64 /\ c.act /\ c.scaling
  IN  Flag("sps_explicit_scaling_list_enabled_flag")
      \o When(c.lfnst /\ c.scaling, Flag("sps_scaling_matrix_for_lfnst_disabled_flag"))
      \o When(act_lists, Flag("sps_scaling_matrix_for_alternative_colour_space_disabled_flag"))
      \o When(act_lists /\ c.alternative, Flag("sps_scaling_matrix_designated_colour_space_flag"))
      \o Flag("sps_dep_quant_enabled_flag") \o Flag("sps_sign_data_hiding_enabled_flag")

Boundaries(c) ==
  Ue("num_ver_virtual_boundaries") \o Times(c.vertical, Ue("virtual_boundary_pos_x_minus1"))
  \o Ue("num_hor_virtual_boundaries") \o Times(c.horizontal, Ue("virtual_boundary_pos_y_minus1"))

SpsVirtualBoundaries(c) ==
  Flag("sps_virtual_boundaries_enabled_flag")
  \o When(c.boundaries, Flag("sps_virtual_boundaries_present_flag")
                        \o When(c.positions, Boundaries(c)))

SpsTiming(c) ==
  LET all_layers == c.max_sub > 0 /\ c.all_layers
  IN  When(c.ptl,
           Flag("sps_timing_hrd_params_present_flag")
           \o When(c.timing, GeneralTimingHrd(c)
                             \o When(c.max_sub > 0, Flag("sps_sublayer_cpb_params_present_flag"))
                             \o OlsTimingHrd(c, IF all_layers THEN 0 ELSE c.max_sub, c.max_sub)))

VuiParameters(c) ==
     Ue("sps_vui_payload_size_minus1") \o Align
  \o Each(Flag, <<"vui_progressive_source_flag", "vui_interlaced_source_flag",
                 "vui_non_packed_constraint_flag", "vui_non_projected_constraint_flag",
                 "vui_aspect_ratio_info_present_flag">>)
  \o When(c.aspect, Flag("vui_aspect_ratio_constant_flag") \o U(8, "vui_aspect_ratio_idc")
                    \o When(c.extended_sar, U(16, "vui_sar_width") \o U(16, "vui_sar_height")))
  \o Flag("vui_overscan_info_present_flag") \o When(c.overscan, Flag("vui_overscan_appropriate_flag"))
  \o Flag("vui_colour_description_present_flag")
  \o When(c.colour, Times(3, U(8, "vui_colour_description")) \o Flag("vui_full_range_flag"))
  \o Flag("vui_chroma_loc_info_present_flag")
  \o When(c.location, Times(IF c.progressive /\ ~c.interlaced THEN 1 ELSE 2,
                            Ue("vui_chroma_sample_loc_type")))

SpsRangeExtension(c) ==
     Flag("sps_extended_precision_flag")
  \o When(c.transform_skip, Flag("sps_ts_residual_coding_rice_present_in_sh_flag"))
  \o Times(3, Flag("sps_range_flag"))

SpsExtension(c) ==
  Flag("sps_extension_flag")
  \o When(c.extension, Flag("sps_range_extension_flag") \o U(7, "sps_extension_7bits")
                       \o When(c.range, SpsRangeExtension(c)))
  \o When(c.extension /\ c.extension_7bits, ExtensionBits(c))

SpsDisplayFlags == Flag("sps_field_seq_flag") \o Flag("sps_vui_parameters_present_flag")

(* The rest of the VUI payload is told from what follows only by its end:  *)
(* everything up to the end of the unit is passed over, and there is no    *)
(* bit left for sps_extension_flag.                                        *)
AfterVui == Require(FALSE, "sps_extension_flag")

---------------------------------------------------------------------------
(* video_parameter_set_rbsp().  Layers are 0 .. c.layers - 1; c.direct are *)
(* pairs of a layer and one before it that it refers to.                   *)

VpsLayers(c) ==
  LET Refers(i) ==
        Flag("vps_independent_layer_flag")
        \o When(\E j \in 0 .. i - 1 : <<i, j>> \in c.direct,
             Flag("vps_max_tid_ref_present_flag")
             \o Loop(i, LAMBDA j : Flag("vps_direct_ref_layer_flag")
                          \o When(c.limited /\ <<i, j - 1>> \in c.direct,
                                  U(3, "vps_max_tid_il_ref_pics_plus1"))))
  IN     U(4, "vps_video_parameter_set_id") \o U(6, "vps_max_layers_minus1")
      \o U(3, "vps_max_sublayers_minus1")
      \o When(c.layers > 1 /\ c.max_sub > 0, Flag("vps_default_ptl_dpb_hrd_max_tid_flag"))
      \o When(c.layers > 1, Flag("vps_all_independent_layers_flag"))
      \o Loop(c.layers, LAMBDA i : U(6, "vps_layer_id")
                                   \o When(i > 1 /\ ~c.all_independent, Refers(i - 1)))

(* Without layers, or with one output layer set for each, the sets need no *)
(* mode; independent layers have the sets that are listed.                 *)
OlsMode(c) ==
  IF c.layers = 1 \/ c.each_layer THEN 4 ELSE IF c.all_independent THEN 2 ELSE c.mode

TotalNumOlss(c) == IF OlsMode(c) = 2 THEN c.listed + 1 ELSE c.layers

VpsOutputLayerSets(c) ==
  When(c.layers > 1,
       When(c.all_independent, Flag("vps_each_layer_is_an_ols_flag"))
       \o When(~c.each_layer,
               When(~c.all_independent, U(2, "vps_ols_mode_idc"))
               \o When(OlsMode(c) = 2, U(8, "vps_num_output_layer_sets_minus2")
                                       \o Times(c.listed * c.layers, Flag("vps_ols_output_layer_flag"))))
       \o U(8, "vps_num_ptls_minus1"))
  \o Is("TotalNumOlss", TotalNumOlss(c))

VpsProfiles(c) ==
  LET MaxTid(i) == IF c.default_tid THEN c.max_sub ELSE c.tid
  IN  Loop(c.ptls, LAMBDA i : When(i > 1, Flag("vps_pt_present_flag"))
                              \o When(~c.default_tid, U(3, "vps_ptl_max_tid")))
      \o Align
      \o Loop(c.ptls, LAMBDA i : ProfileTierLevel(c, i = 1 \/ c.profiles, MaxTid(i)))
      \o When(c.ptls > 1 /\ c.ptls # c.olss, Times(c.olss, U(8, "vps_ols_ptl_idx")))

(* The layers a layer refers to, directly or not, lower ones first. *)
References(c) ==
  LET deps[i \in 0 .. c.layers - 1] ==
        {j \in 0 .. c.layers - 1 :
           \/ <<i, j>> \in c.direct
           \/ \E k \in 0 .. i - 1 : <<i, k>> \in c.direct /\ j \in deps[k]}
  IN  deps

(* Sets of more than one layer; c.output[i] are the output layers of set i. *)
NumMultiLayerOlss(c) ==
  LET included(i) == c.output[i] \cup UNION {References(c)[k] : k \in c.output[i]}
  IN  IF OlsMode(c) = 2 THEN Cardinality({i \in 1 .. c.listed : Cardinality(included(i)) > 1})
      ELSE TotalNumOlss(c) - 1

VpsDpb(c) ==
     Ue("vps_num_dpb_params_minus1")
  \o When(c.max_sub > 0, Flag("vps_sublayer_dpb_params_present_flag"))
  \o Times(c.dpb_params, When(~c.default_tid, U(3, "vps_dpb_max_tid"))
             \o DpbParameters(IF c.default_tid THEN c.max_sub ELSE c.tid, c.max_sub > 0 /\ c.all_layers))
  \o Times(c.multi, Ue("vps_ols_dpb_pic_width") \o Ue("vps_ols_dpb_pic_height")
                    \o U(2, "vps_ols_dpb_chroma_format") \o Ue("vps_ols_dpb_bitdepth_minus8")
                    \o When(c.dpb_params > 1 /\ c.dpb_params # c.multi, Ue("vps_ols_dpb_params_idx")))

(* Schedules up to the highest sub-layer of the stream. *)
VpsTiming(c) ==
  LET max_tid == IF c.default_tid THEN c.max_sub ELSE c.tid
      first == IF c.max_sub > 0 /\ c.all_layers THEN 0 ELSE max_tid
  IN  Flag("vps_timing_hrd_params_present_flag")
      \o When(c.timing,
              GeneralTimingHrd(c)
              \o When(c.max_sub > 0, Flag("vps_sublayer_cpb_params_present_flag"))
              \o Ue("vps_num_ols_timing_hrd_params_minus1")
              \o Times(c.timings, When(~c.default_tid, U(3, "vps_hrd_max_tid"))
                                  \o OlsTimingHrd(c, first, c.max_sub))
              \o When(c.timings > 1 /\ c.timings # c.multi, Times(c.multi, Ue("vps_ols_timing_hrd_idx"))))

(* Nothing of it is read where no set has more than one layer. *)
VpsSchedules(c) ==
  LET d == [multi |-> NumMultiLayerOlss(c)] @@ c
  IN  When(~c.each_layer /\ d.multi > 0, VpsDpb(d) \o VpsTiming(d))

VpsExtension(c) == Flag("vps_extension_flag") \o When(c.extension, ExtensionBits(c))

---------------------------------------------------------------------------
(* The two small units. *)

Dci(c) == U(4, "dci_reserved_zero_4bits") \o U(4, "dci_num_ptls_minus1")
          \o Times(c.ptls, ProfileTierLevel(c, TRUE, 0)) \o Flag("dci_extension_flag")

Opi(c) == Flag("opi_ols_info_present_flag") \o Flag("opi_htid_info_present_flag")
          \o When(c.ols_info, Ue("opi_ols_idx")) \o When(c.htid_info, U(3, "opi_htid_plus1"))
          \o Flag("opi_extension_flag")

---------------------------------------------------------------------------
(* The picture parameter set, and the tiles and slices of a picture that   *)
(* parse_pps() derives on the way (src/parser/vvc_pps_parser.hpp).         *)

PpsStart(c) ==
     U(6, "pps_pic_parameter_set_id") \o U(4, "pps_seq_parameter_set_id")
  \o Flag("pps_mixed_nalu_types_in_pic_flag")
  \o Ue("pps_pic_width_in_luma_samples") \o Ue("pps_pic_height_in_luma_samples")
  \o Flag("pps_conformance_window_flag") \o When(c.window, Times(4, Ue("pps_conf_win_offset")))
  \o Flag("pps_scaling_window_explicit_signalling_flag")
  \o When(c.scaling_window, Times(4, Se("pps_scaling_win_offset")))
  \o Is("scaling_window", CASE c.scaling_window -> "own" [] c.window -> "conformance" [] OTHER -> "none")

PpsSubpictures(c) ==
     Flag("pps_output_flag_present_flag") \o Flag("pps_no_pic_partition_flag")
  \o Flag("pps_subpic_id_mapping_present_flag")
  \o When(c.ids, When(~c.unpartitioned, Ue("pps_num_subpics_minus1"))
                 \o Ue("pps_subpic_id_len_minus1")
                 \o Times(IF c.unpartitioned THEN 1 ELSE c.subpics,
                          U(IF c.id_len > 32 THEN 32 ELSE c.id_len, "pps_subpic_id")))

---------------------------------------------------------------------------
(* Sizes in CTBs: those given, cut to what is left, then the last of them  *)
(* over again, and what remains.  Tile columns, tile rows and the slices   *)
(* within a tile are all spread like this.                                 *)

Spread(total, given) ==
  LET left[k \in 0 .. Len(given)] ==
        IF k = 0 THEN total ELSE Max({0, left[k - 1] - given[k]})
      rest == left[Len(given)]
      uniform == given[Len(given)]
  IN  [k \in 1 .. Len(given) |-> left[k - 1] - left[k]]
      \o [k \in 1 .. rest \div uniform |-> uniform]
      \o IF rest % uniform = 0 THEN << >> ELSE <<rest % uniform>>

(* At most 64 of them are read. *)
GivenSizes(sizes) == IF Len(sizes) > 64 THEN SubSeq(sizes, 1, 64) ELSE sizes

Columns(c) == Spread(c.width, GivenSizes(c.columns))
Rows(c) == Spread(c.height, GivenSizes(c.rows))

PpsTiles(c) ==
     U(2, "pps_log2_ctu_size_minus5")
  \o Ue("pps_num_exp_tile_columns_minus1") \o Ue("pps_num_exp_tile_rows_minus1")
  \o Times(Len(GivenSizes(c.columns)), Ue("pps_tile_column_width_minus1"))
  \o Times(Len(GivenSizes(c.rows)), Ue("pps_tile_row_height_minus1"))
  \o Is("tiles", <<Columns(c), Rows(c)>>)
  \o When(Len(Columns(c)) * Len(Rows(c)) > 1, Flag("pps_loop_filter_across_tiles_enabled_flag")
                                              \o Flag("pps_rect_slice_flag"))

HeightInCtus(rows, y, tiles) ==
  LET height[k \in 0 .. tiles] ==
        IF k = 0 THEN 0
        ELSE height[k - 1] + IF y + k <= Len(rows) THEN rows[y + k] ELSE 0
  IN  height[tiles]

(* The last slice takes the tiles that are left, even where it was made of *)
(* a part of a tile before.                                                *)
LastSlice(c, tile) ==
  LET y == tile \div Len(Columns(c))
  IN  <<tile, HeightInCtus(Rows(c), y, Len(Rows(c)) - y)>>

(* Past a slice of w by h tiles: over the rows it covers, once at the edge. *)
NextTile(c, tile, w, h, delta) ==
  LET cols == Len(Columns(c))
  IN  IF c.deltas THEN tile + delta
      ELSE tile + w + IF (tile + w) % cols = 0 THEN (h - 1) * cols ELSE 0

(* What is coded of the slices that begin at slice i and at this tile, and *)
(* the slices: the tile of each and its height.  c.fields is what the      *)
(* bitstream has of each; above is the height in tiles of the slice before. *)
RECURSIVE Slices(_, _, _, _)
Slices(c, i, tile, above) ==
  LET columns == Columns(c)
      rows == Rows(c)
      cols == Len(columns)
      x == tile % cols
      y == tile \div cols
      coded == c.fields[i + 1]
      w == IF x # cols - 1 THEN coded.w ELSE 1
      h == CASE y = Len(rows) - 1 -> 1
             [] y # Len(rows) - 1 /\ (c.deltas \/ x = 0) -> coded.h
             [] OTHER -> above
      splits == w = 1 /\ h = 1 /\ rows[y + 1] > 1
      parts == IF splits /\ coded.parts # << >> THEN Spread(rows[y + 1], coded.parts)
               ELSE <<HeightInCtus(rows, y, h)>>
      next == i + Len(parts)
      tokens == When(x # cols - 1, Ue("pps_slice_width_in_tiles_minus1"))
                \o When(y # Len(rows) - 1 /\ (c.deltas \/ x = 0), Ue("pps_slice_height_in_tiles_minus1"))
                \o When(splits, Ue("pps_num_exp_slices_in_tile")
                                \o Times(Len(coded.parts), Ue("pps_exp_slice_height_in_ctus_minus1")))
                \o When(c.deltas /\ next < c.slices, Se("pps_tile_idx_delta_val"))
      last == LastSlice(c, tile)
      these == [k \in 1 .. Len(parts) |-> IF i + k = c.slices THEN last ELSE <<tile, parts[k]>>]
  IN  IF i >= c.slices - 1 THEN [tokens |-> << >>, slices |-> IF i = c.slices - 1 THEN <<last>> ELSE << >>]
      ELSE LET more == Slices(c, next, NextTile(c, tile, w, h, coded.delta), h)
           IN  [tokens |-> tokens \o more.tokens, slices |-> these \o more.slices]

PpsSlices(c) ==
  LET laid == Slices(c, 0, 0, 1)
      many == c.rect /\ ~c.single
  IN  When(c.rect, Flag("pps_single_slice_per_subpic_flag"))
      \o When(many, Ue("pps_num_slices_in_pic_minus1")
                    \o When(c.slices > 2, Flag("pps_tile_idx_delta_present_flag"))
                    \o laid.tokens \o Is("slices", laid.slices))
      \o When(~many \/ c.slices > 1, Flag("pps_loop_filter_across_slices_enabled_flag"))

---------------------------------------------------------------------------
(* The rest of the set. *)

PpsReferences(c) ==
     Flag("pps_cabac_init_present_flag")
  \o Times(2, Ue("pps_num_ref_idx_default_active_minus1"))
  \o Is("pps_num_ref_idx_default_active", IF c.default > 15 THEN 15 ELSE c.default)
  \o Each(Flag, <<"pps_rpl1_idx_present_flag", "pps_weighted_pred_flag", "pps_weighted_bipred_flag",
                 "pps_ref_wraparound_enabled_flag">>)
  \o When(c.wraparound, Ue("pps_pic_width_minus_wraparound_offset"))

PpsQp(c) ==
     Se("pps_init_qp_minus26") \o Flag("pps_cu_qp_delta_enabled_flag")
  \o Flag("pps_chroma_tool_offsets_present_flag")
  \o When(c.chroma_tools,
          Se("pps_cb_qp_offset") \o Se("pps_cr_qp_offset") \o Flag("pps_joint_cbcr_qp_offset_present_flag")
          \o When(c.joint, Se("pps_joint_cbcr_qp_offset_value"))
          \o Flag("pps_slice_chroma_qp_offsets_present_flag")
          \o Flag("pps_cu_chroma_qp_offset_list_enabled_flag")
          \o When(c.offset_lists > 0,
                  Ue("pps_chroma_qp_offset_list_len_minus1")
                  \o Times(IF c.offset_lists > 6 THEN 6 ELSE c.offset_lists,
                           Se("pps_cb_qp_offset_list") \o Se("pps_cr_qp_offset_list")
                           \o When(c.joint, Se("pps_joint_cbcr_qp_offset_list")))))

PpsDeblocking(c) ==
  Flag("pps_deblocking_filter_control_present_flag")
  \o When(c.control,
          Flag("pps_deblocking_filter_override_enabled_flag")
          \o Flag("pps_deblocking_filter_disabled_flag")
          \o When(~c.unpartitioned /\ c.override, Flag("pps_dbf_info_in_ph_flag"))
          \o When(~c.disabled, Times(IF c.chroma_tools THEN 6 ELSE 2, Se("pps_deblocking_offset"))))
  \o Is("pps_deblocking_filter_disabled_flag", c.control /\ c.disabled)

PpsHeaderInfo(c) ==
     When(~c.unpartitioned,
          Each(Flag, <<"pps_rpl_info_in_ph_flag", "pps_sao_info_in_ph_flag",
                       "pps_alf_info_in_ph_flag">>)
          \o When(c.weighted /\ c.rpl_in_ph, Flag("pps_wp_info_in_ph_flag"))
          \o Flag("pps_qp_delta_info_in_ph_flag"))
  \o Flag("pps_picture_header_extension_present_flag")
  \o Flag("pps_slice_header_extension_present_flag")
  \o Flag("pps_extension_flag") \o When(c.extension, Times(c.data, Flag("pps_extension_data_flag")))
=============================================================================
