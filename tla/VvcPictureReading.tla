------------------------- MODULE VvcPictureReading -------------------------
(* The picture header, alone or in a slice header, and the slice header of  *)
(* VVC: as parse_ph() and parse_slice_header() read them                    *)
(* (src/parser/vvc_{ph,slice}_parser.hpp); then part by part, with the      *)
(* fields that an encoder may choose there.                                 *)
EXTENDS VvcParameterSetReading

PhStart(c) ==
     Flag("ph_gdr_or_irap_pic_flag") \o Flag("ph_non_ref_pic_flag")
  \o When(c.gdr_or_irap, Flag("ph_gdr_pic_flag"))
  \o Flag("ph_inter_slice_allowed_flag") \o When(c.inter, Flag("ph_intra_slice_allowed_flag"))
  \o Is("ph_intra_slice_allowed_flag", ~c.inter \/ c.intra)
  \o Ue("ph_pic_parameter_set_id") \o U(c.lsb_bits, "ph_pic_order_cnt_lsb")
  \o When(c.gdr_or_irap /\ c.gdr, Ue("ph_recovery_poc_cnt"))
  \o Times(c.extra_bits, Flag("ph_extra_bit"))
  \o When(c.msb_cycle, Flag("ph_poc_msb_cycle_present_flag")
                       \o When(c.msb, U(c.msb_len, "ph_poc_msb_cycle_val")))

(* The filters that a picture header and a slice header may both carry. *)
AdaptiveLoopFilter(c) ==
  Flag("alf_enabled_flag")
  \o When(c.alf,
          U(3, "num_alf_aps_ids_luma") \o Times(c.alf_ids, U(3, "alf_aps_id_luma"))
          \o When(c.chroma_format # 0, Flag("alf_cb_enabled_flag") \o Flag("alf_cr_enabled_flag"))
          \o When(c.chroma_format # 0 /\ (c.alf_cb \/ c.alf_cr), U(3, "alf_aps_id_chroma"))
          \o When(c.ccalf, Flag("alf_cc_cb_enabled_flag") \o When(c.cc_cb, U(3, "alf_cc_cb_aps_id"))
                           \o Flag("alf_cc_cr_enabled_flag") \o When(c.cc_cr, U(3, "alf_cc_cr_aps_id"))))

SampleOffsets(c) == Flag("sao_luma_flag") \o When(c.chroma_format # 0, Flag("sao_chroma_flag"))

DeblockingOffsets(c) == Times(IF c.chroma_tools THEN 6 ELSE 2, Se("deblocking_offset"))

(* Tools of the whole picture, each if the SPS has it. *)
PhTools(c) ==
     When(c.sps_alf /\ c.alf_in_ph, AdaptiveLoopFilter(c))
  \o When(c.sps_lmcs, Flag("ph_lmcs_enabled_flag")
                      \o When(c.lmcs, U(2, "ph_lmcs_aps_id")
                                      \o When(c.chroma_format # 0, Flag("ph_chroma_residual_scale_flag"))))
  \o When(c.sps_scaling, Flag("ph_explicit_scaling_list_enabled_flag")
                         \o When(c.scaling, U(3, "ph_scaling_list_aps_id")))

(* Boundaries are the picture's own unless the SPS has them. *)
PhBoundaries(c) ==
     When(c.boundaries /\ ~c.sps_positions,
          Flag("ph_virtual_boundaries_present_flag")
          \o When(c.positions,
                  Ue("ph_num_ver_virtual_boundaries") \o Times(c.vertical, Ue("ph_virtual_boundary_pos_x_minus1"))
                  \o Ue("ph_num_hor_virtual_boundaries")
                  \o Times(c.horizontal, Ue("ph_virtual_boundary_pos_y_minus1"))))
  \o When(c.output_present /\ ~c.non_ref, Flag("ph_pic_output_flag"))
  \o Is("ph_pic_output_flag", IF c.output_present /\ ~c.non_ref THEN c.output ELSE TRUE)

PhRefPicLists(c) == When(c.rpl_in_ph, RefPicLists(c))

Override(depth) ==
  Ue("ph_log2_diff_min_qt_min_cb") \o Ue("ph_max_mtt_hierarchy_depth")
  \o When(depth # 0, Ue("ph_log2_diff_max_bt_min_qt") \o Ue("ph_log2_diff_max_tt_min_qt"))

(* The constraints of the SPS stand where they are not overridden. *)
PhPartitioning(c) ==
  LET override == c.override_enabled /\ c.override
      depth(x) == IF override THEN c.depths[x] ELSE c.sps_depths[x]
      Subdivisions == When(c.cu_qp_delta, Ue("ph_cu_qp_delta_subdiv"))
                      \o When(c.chroma_offset_list, Ue("ph_cu_chroma_qp_offset_subdiv"))
  IN  When(c.override_enabled, Flag("ph_partition_constraints_override_flag"))
      \o When(c.intra,
              When(override, Override(c.depths[1]) \o When(c.dual_tree, Override(c.depths[2])))
              \o Subdivisions \o Is("max_mtt_hierarchy_depth_intra_slice_luma", depth(1)))
      \o When(c.inter,
              When(override, Override(c.depths[3])) \o Subdivisions
              \o Is("max_mtt_hierarchy_depth_inter_slice", depth(3)))

(* The picture that motion is predicted from: of list 0 unless the other   *)
(* is chosen; n are the entries of the lists.                              *)
Collocated(c, n, choice) ==
  LET from_l0 == ~choice \/ c.from_l0
  IN  When(choice, Flag("collocated_from_l0_flag"))
      \o When(n[IF from_l0 THEN 1 ELSE 2] > 1, Ue("collocated_ref_idx"))
      \o Is("collocated_from_l0_flag", from_l0)

PhTemporalMvp(c) ==
  When(c.inter /\ c.sps_tmvp,
       Flag("ph_temporal_mvp_enabled_flag")
       \o When(c.tmvp /\ c.rpl_in_ph, Collocated(c, c.n, c.n[2] > 0)))

(* The tools that need two lists stay off where the second is empty, even  *)
(* the ones that a picture header has no say in.                           *)
PhInterTools(c) ==
  LET two == ~c.rpl_in_ph \/ c.n[2] > 0
      Disabled(control, off, enabled) == ~two \/ IF control THEN off ELSE ~enabled
  IN  When(c.inter,
           When(c.fullpel_only, Flag("ph_mmvd_fullpel_only_flag"))
           \o When(two, Flag("ph_mvd_l1_zero_flag") \o When(c.bdof_control, Flag("ph_bdof_disabled_flag"))
                        \o When(c.dmvr_control, Flag("ph_dmvr_disabled_flag")))
           \o Is("ph_bdof_disabled_flag", Disabled(c.bdof_control, c.bdof_off, c.bdof))
           \o Is("ph_dmvr_disabled_flag", Disabled(c.dmvr_control, c.dmvr_off, c.dmvr))
           \o When(c.prof_control, Flag("ph_prof_disabled_flag")))

PhWeights(c) ==
  When(c.inter /\ (c.weighted_pred \/ c.weighted_bipred) /\ c.wp_in_ph, PredWeightTable(c))

PhQpAndSao(c) ==
     When(c.qp_in_ph, Se("ph_qp_delta")) \o When(c.joint_cbcr, Flag("ph_joint_cbcr_sign_flag"))
  \o When(c.sps_sao /\ c.sao_in_ph, SampleOffsets(c))

(* With the filter off in the PPS, a picture that says so itself has it on, *)
(* but its offsets are not read.                                            *)
PhDeblocking(c) ==
     When(c.dbf_in_ph, Flag("ph_deblocking_params_present_flag"))
  \o When(c.dbf_in_ph /\ c.params /\ ~c.pps_disabled,
          Flag("ph_deblocking_filter_disabled_flag") \o When(~c.disabled, DeblockingOffsets(c)))
  \o Is("ph_deblocking_filter_disabled_flag",
        IF c.dbf_in_ph /\ c.params THEN ~c.pps_disabled /\ c.disabled ELSE c.pps_disabled)

HeaderExtension(c) ==
  When(c.extension_present,
       Ue("extension_length") \o Times(IF c.extension > 256 THEN 256 ELSE c.extension, U(8, "extension_byte")))

---------------------------------------------------------------------------
(* parse_slice_header().  A slice has its picture's header in front of it, *)
(* or the picture has one in a unit of its own.                            *)

SliceStart == Flag("sh_picture_header_in_slice_header_flag")

(* c.slices are those of the picture, c.tiles its tiles.                   *)
SlicePlace(c) ==
  LET slices == IF c.single THEN 1 ELSE c.slices
      units == IF c.rect THEN slices ELSE c.tiles
      left == IF c.tiles > c.address THEN c.tiles - c.address ELSE 1
  IN  When(c.subpic_info, U(IF c.id_len > 32 THEN 32 ELSE c.id_len, "sh_subpic_id"))
      \o When(units > 1, U(CeilLog2(units), "sh_slice_address"))
      \o Times(c.extra_bits, Flag("sh_extra_bit"))
      \o When(~c.rect /\ left > 1, Ue("sh_num_tiles_in_slice_minus1"))

(* Types of NAL units: IDR with and without leading pictures, CRA, GDR.    *)
Idr(c) == c.nal_type \in {7, 8}
Lists(c) == CASE c.type = "I" -> 0 [] c.type = "P" -> 1 [] OTHER -> 2

SliceKind(c) ==
     When(c.inter, Ue("sh_slice_type"))
  \o When(Idr(c) \/ c.nal_type \in {9, 10}, Flag("sh_no_output_of_prior_pics_flag"))

SliceTools(c) ==
     When(c.sps_alf /\ ~c.alf_in_ph, AdaptiveLoopFilter(c))
  \o When(~c.in_slice, When(c.lmcs, Flag("sh_lmcs_used_flag"))
                       \o When(c.scaling, Flag("sh_explicit_scaling_list_used_flag")))
  \o Is("sh_lmcs_used_flag", c.lmcs /\ (c.in_slice \/ c.lmcs_used))

SliceRefPicLists(c) == When(~c.rpl_in_ph /\ (~c.idr \/ c.idr_rpl), RefPicLists(c))

(* The active pictures of the lists; c.coded are the numbers in the header. *)
AsksForCounts(c) == \E x \in 1 .. Lists(c) : c.n[x] > 1

NumRefIdxActive(c) ==
  [x \in 1 .. 2 |->
     IF x > Lists(c) THEN 0
     ELSE LET default == IF c.n[x] < c.default THEN c.n[x] ELSE c.default
              active == IF ~(AsksForCounts(c) /\ c.override) THEN default
                        ELSE IF c.n[x] > 1 THEN c.coded[x] ELSE 1
          IN  IF active = 0 THEN 1 ELSE active]

SliceReferenceCounts(c) ==
     When(AsksForCounts(c),
          Flag("sh_num_ref_idx_active_override_flag")
          \o When(c.override, Loop(Lists(c), LAMBDA x : When(c.n[x] > 1, Ue("sh_num_ref_idx_active_minus1")))))
  \o Is("NumRefIdxActive", NumRefIdxActive(c))

SliceInter(c) ==
  When(c.type # "I",
       When(c.cabac_init, Flag("sh_cabac_init_flag"))
       \o When(c.tmvp /\ ~c.rpl_in_ph, Collocated(c, c.active, c.type = "B"))
       \o When(~c.wp_in_ph /\ ((c.weighted_pred /\ c.type = "P") \/ (c.weighted_bipred /\ c.type = "B")),
               PredWeightTable(c)))

SliceFilters(c) ==
     When(~c.qp_in_ph, Se("sh_qp_delta"))
  \o When(c.chroma_offsets, Se("sh_cb_qp_offset") \o Se("sh_cr_qp_offset")
                            \o When(c.joint_cbcr, Se("sh_joint_cbcr_qp_offset")))
  \o When(c.chroma_offset_list, Flag("sh_cu_chroma_qp_offset_enabled_flag"))
  \o When(c.sps_sao /\ ~c.sao_in_ph, SampleOffsets(c))

SliceDeblocking(c) ==
  LET own == c.dbf_override /\ ~c.dbf_in_ph /\ c.params
      disabled == IF own THEN ~c.pps_disabled /\ c.disabled ELSE c.ph_disabled
  IN  When(c.dbf_override /\ ~c.dbf_in_ph, Flag("sh_deblocking_params_present_flag"))
      \o When(own, When(~c.pps_disabled, Flag("sh_deblocking_filter_disabled_flag"))
                   \o When(~disabled, DeblockingOffsets(c)))
      \o Is("sh_deblocking_filter_disabled_flag", disabled)

SliceResiduals(c) ==
  LET dep == c.sps_dep_quant /\ c.dep_quant
      sign == c.sps_sign_hiding /\ ~dep /\ c.sign_hiding
      plain == c.transform_skip /\ ~dep /\ ~sign
  IN  When(c.sps_dep_quant, Flag("sh_dep_quant_used_flag"))
      \o When(c.sps_sign_hiding /\ ~dep, Flag("sh_sign_data_hiding_used_flag"))
      \o When(plain, Flag("sh_ts_residual_coding_disabled_flag"))
      \o When(c.rice /\ ~(plain /\ c.ts_disabled), U(3, "sh_ts_residual_coding_rice_idx_minus1"))
      \o When(c.reverse_last, Flag("sh_reverse_last_sig_coeff_flag"))

(* A substream for each tile, or each row of CTBs of it, that the slice    *)
(* covers: c.width tiles across, whose rows have these many rows of CTBs,  *)
(* or the tiles from an address on.  The PPS's tables of the slices hold   *)
(* no size where each subpicture is one slice, and rows of 32 luma samples *)
(* where the picture is not partitioned.                                   *)
SlicesTable(c) ==
  CASE c.layout = "unpartitioned" -> [width |-> 1, tiles |-> 1, ctus |-> (c.height + 31) \div 32]
    [] c.layout = "single" -> [width |-> 1, tiles |-> 1, ctus |-> 0]
    [] OTHER -> [width |-> c.width, tiles |-> Len(c.rows), ctus |-> FoldLeft(+, 0, c.rows)]

Substreams(c) ==
  LET table == SlicesTable(c)
      Row(tile) == c.rows[((tile - 1) \div c.columns) + 1]
      covered == c.address + 1 .. c.address + c.tiles_in_slice
  IN  IF c.layout # "raster"
      THEN table.width * (IF c.entropy_sync THEN table.ctus ELSE table.tiles)
      ELSE IF c.entropy_sync THEN MapThenSumSet(Row, covered) ELSE Cardinality(covered)

EntryPoints(c) ==
  LET entries == Substreams(c) - 1
  IN  When(c.entry_points /\ entries > 0,
           Ue("sh_entry_offset_len_minus1")
           \o Times(entries, U(IF c.offset_len > 32 THEN 32 ELSE c.offset_len,
                               "sh_entry_point_offset_minus1")))

---------------------------------------------------------------------------
(* What an encoder may choose, part by part. *)

PictureStarts ==
  {[part |-> "vvc_slice", fields |-> << >>], [part |-> "vvc_ph", fields |-> [in_slice |-> FALSE]]}

(* What a slice needs to know of its picture's header: n are the entries of *)
(* the two lists.                                                           *)
Header == {"inter", "rpl_in_ph", "n", "tmvp"}

---------------------------------------------------------------------------
(* Picture header *)

ParsePhStart ==
  Part("vvc_ph", "vvc_ph_tools", {"in_slice", "inter", "intra"},
    {c \in [gdr_or_irap : BOOLEAN, gdr : BOOLEAN, inter : BOOLEAN, intra : BOOLEAN, lsb_bits : {4, 16},
            extra_bits : {0, 2}, msb_cycle : BOOLEAN, msb : BOOLEAN, msb_len : {1, 32}] :
       c.inter \/ c.intra},
    PhStart, WritesPhStart)

(* Flags of the loop filter: those that are not coded are off.             *)
FilterChoices ==
  {c \in [sps_alf : BOOLEAN, alf_in_ph : BOOLEAN, alf : BOOLEAN, alf_ids : {0, 7}, alf_cb : BOOLEAN,
          alf_cr : BOOLEAN, ccalf : BOOLEAN, cc_cb : BOOLEAN, cc_cr : BOOLEAN, chroma_format : 0 .. 1] :
     /\ c.alf => c.sps_alf
     /\ c.alf_cb \/ c.alf_cr \/ c.ccalf \/ c.alf_ids > 0 => c.alf
     /\ c.cc_cb \/ c.cc_cr => c.ccalf}

PhToolChoices ==
  {[sps_lmcs |-> FALSE, sps_scaling |-> FALSE] @@ c : c \in FilterChoices}
  \cup [sps_alf : {FALSE}, sps_lmcs : BOOLEAN, lmcs : BOOLEAN, chroma_format : 0 .. 1,
        sps_scaling : BOOLEAN, scaling : BOOLEAN]

ParsePhTools ==
  Part("vvc_ph_tools", "vvc_ph_boundaries", {"in_slice", "inter", "intra"}, PhToolChoices,
    PhTools, WritesPhTools)

ParsePhBoundaries ==
  Part("vvc_ph_boundaries", "vvc_ph_lists", {"in_slice", "inter", "intra"},
    [boundaries : BOOLEAN, sps_positions : BOOLEAN, positions : BOOLEAN, vertical : 0 .. 2,
     horizontal : 0 .. 1, output_present : BOOLEAN, non_ref : BOOLEAN, output : {FALSE}],
    PhBoundaries, WritesPhBoundaries)

(* The lists of the SPS, and those of the header: one of them, or its own. *)
SomeLists == {<< >>, <<"next", "long">>, <<"long", "next", "next">>}

ListChoices ==
  LET First(h) == [entries |-> <<"next", "long">>, in_header |-> h]
      Known == {<< >>, <<First(TRUE)>>,
                <<First(FALSE), [entries |-> <<"long">>, in_header |-> TRUE],
                  [entries |-> << >>, in_header |-> FALSE]>>}
      Own == [by_sps : {FALSE}, idx : {0}, entries : SomeLists]
  IN  {c \in [rpl1_idx : BOOLEAN, long_term : {TRUE}, inter_layer : {FALSE}, weighted : {TRUE},
              lsb_bits : {4}, msb : {TRUE}, sps_lists : [1 .. 2 -> Known],
              lists : [1 .. 2 -> Own \cup [by_sps : {TRUE}, idx : 0 .. 2, entries : {<< >>}]]] :
         /\ \A x \in 1 .. 2 : c.lists[x].by_sps => c.lists[x].idx < Len(c.sps_lists[x])
         /\ ~c.rpl1_idx /\ c.lists[1].by_sps /\ Len(c.sps_lists[2]) > 1
              => c.lists[1].idx < Len(c.sps_lists[2])}

EntriesOf(c) == [x \in 1 .. 2 |-> Len(HeaderList(c, x).entries)]

(* Without lists in the header, those of the slices decide. *)
PhListChoices ==
  {[rpl_in_ph |-> TRUE, n |-> EntriesOf(c)] @@ c : c \in ListChoices}
  \cup {[rpl_in_ph |-> FALSE, n |-> <<0, 0>>]}

ParsePhRefPicLists ==
  Part("vvc_ph_lists", "vvc_ph_partition", {"in_slice", "inter", "intra", "rpl_in_ph", "n"}, PhListChoices,
    PhRefPicLists, LAMBDA c : When(c.rpl_in_ph, WritesLists(c)))

ParsePhPartitioning ==
  Part("vvc_ph_partition", "vvc_ph_inter", {"in_slice", "inter", "rpl_in_ph", "n"},
    [override_enabled : BOOLEAN, override : BOOLEAN, depths : [1 .. 3 -> 0 .. 1],
     sps_depths : {<<2, 2, 3>>}, dual_tree : BOOLEAN, cu_qp_delta : BOOLEAN, chroma_offset_list : BOOLEAN],
    PhPartitioning, WritesPhPartitioning)

ParsePhTemporalMvp ==
  Part("vvc_ph_inter", "vvc_ph_inter_tools", {"in_slice"} \cup Header,
    {c \in [sps_tmvp : BOOLEAN, tmvp : BOOLEAN, from_l0 : BOOLEAN] : c.tmvp => carry.inter /\ c.sps_tmvp},
    PhTemporalMvp, WritesTemporalMvp)

ParsePhInterTools ==
  Part("vvc_ph_inter_tools", "vvc_ph_weights", {"in_slice"} \cup Header,
    {c \in [fullpel_only : BOOLEAN, bdof : BOOLEAN, bdof_control : BOOLEAN, bdof_off : BOOLEAN,
            dmvr : BOOLEAN, dmvr_control : BOOLEAN, dmvr_off : BOOLEAN, prof_control : BOOLEAN] :
       /\ (c.bdof_control => c.bdof) /\ (c.dmvr_control => c.dmvr)
       /\ carry.rpl_in_ph /\ carry.n[2] = 0 /\ ((c.bdof /\ ~c.bdof_control) \/ (c.dmvr /\ ~c.dmvr_control))
            => Uses("uni_prediction")},
    PhInterTools, WritesPhInterTools)

WeightFlags(n) == {[x \in 1 .. 2 |-> [i \in 1 .. n |-> f[x]]] : f \in [1 .. 2 -> BOOLEAN]}

(* The header tells how many pictures have weights, of those in its lists. *)
ParsePhWeights ==
  Part("vvc_ph_weights", "vvc_ph_filters", IF carry.in_slice THEN {"in_slice"} \cup Header ELSE {"in_slice"},
    {[in_ph |-> TRUE, entries |-> carry.n] @@ c :
       c \in {w \in [weighted_pred : BOOLEAN, weighted_bipred : BOOLEAN, wp_in_ph : BOOLEAN,
                     chroma_format : 0 .. 1, weights : [1 .. 2 -> 0 .. 2], luma : WeightFlags(2),
                     chroma : {[x \in 1 .. 2 |-> [i \in 1 .. 2 |-> x = i]]}] :
                /\ w.wp_in_ph => carry.rpl_in_ph
                /\ \A x \in 1 .. 2 : w.weights[x] <= carry.n[x]}},
    PhWeights, WritesPhWeights)

ParsePhQpAndSao ==
  Part("vvc_ph_filters", "vvc_ph_deblocking", DOMAIN carry,
    [qp_in_ph : BOOLEAN, joint_cbcr : BOOLEAN, sps_sao : BOOLEAN, sao_in_ph : BOOLEAN, chroma_format : 0 .. 1],
    PhQpAndSao, WritesPhQpAndSao)

ParsePhDeblocking ==
  Part("vvc_ph_deblocking", IF carry.in_slice THEN "vvc_slice_place" ELSE "done", DOMAIN carry,
    {c \in [dbf_in_ph : BOOLEAN, params : BOOLEAN, pps_disabled : BOOLEAN, disabled : BOOLEAN,
            chroma_tools : BOOLEAN, extension_present : BOOLEAN, extension : {0, 256}] :
       c.dbf_in_ph /\ c.params /\ c.pps_disabled => Uses("deblocking_override")},
    LAMBDA c : PhDeblocking(c) \o HeaderExtension(c),
    LAMBDA c : WritesPhDeblocking(c) \o WritesHeaderExtension(c))

ParsePictureHeader ==
  \/ ParsePhStart \/ ParsePhTools \/ ParsePhBoundaries \/ ParsePhRefPicLists \/ ParsePhPartitioning
  \/ ParsePhTemporalMvp \/ ParsePhInterTools \/ ParsePhWeights \/ ParsePhQpAndSao \/ ParsePhDeblocking

---------------------------------------------------------------------------
(* Slice header *)

(* The header of the picture is in front, or was a unit of its own.        *)
ParseSliceStart ==
  \E in_slice \in BOOLEAN :
    Part("vvc_slice", IF in_slice THEN "vvc_ph" ELSE "vvc_slice_place", {"in_slice"} \cup Header,
      {c \in [in_slice : {in_slice}, inter : BOOLEAN, rpl_in_ph : BOOLEAN, n : {<<0, 0>>, <<1, 0>>, <<2, 3>>},
              tmvp : BOOLEAN] :
         /\ c.rpl_in_ph \/ c.n = <<0, 0>>
         /\ c.tmvp => c.inter
         /\ in_slice => ~c.inter /\ ~c.rpl_in_ph},
      LAMBDA c : SliceStart, LAMBDA c : Flag("sh_picture_header_in_slice_header_flag"))

ParseSlicePlace ==
  Part("vvc_slice_place", "vvc_slice_kind", {"in_slice"} \cup Header,
    {c \in [subpic_info : BOOLEAN, id_len : {1, 16}, rect : BOOLEAN, single : BOOLEAN, slices : 1 .. 5,
            subpic_slices : 1 .. 5, tiles : 1 .. 4, address : 0 .. 3, extra_bits : 0 .. 1] :
       /\ c.single => c.rect
       /\ c.address < c.tiles
       /\ c.rect /\ ~c.single /\ c.subpic_slices # c.slices => c.subpic_info /\ Uses("subpicture_slices")
       /\ c.subpic_slices <= c.slices},
    SlicePlace, WritesSlicePlace)

SliceHeader == {"type", "idr"} \cup Header

ParseSliceKind ==
  Part("vvc_slice_kind", "vvc_slice_tools", {"in_slice"} \cup SliceHeader,
    {[idr |-> Idr(c)] @@ c :
       c \in {k \in [type : {"B", "P", "I"}, nal_type : {0, 7, 8, 9, 10}] : k.type = "I" \/ carry.inter}},
    SliceKind, WritesSliceKind)

SliceToolChoices ==
  {[lmcs |-> FALSE, lmcs_used |-> FALSE, scaling |-> FALSE] @@ c : c \in FilterChoices}
  \cup [sps_alf : {FALSE}, lmcs : BOOLEAN, lmcs_used : BOOLEAN, scaling : BOOLEAN]

ParseSliceTools ==
  Part("vvc_slice_tools", "vvc_slice_lists", SliceHeader, SliceToolChoices, SliceTools, WritesSliceTools)

(* Lists of the slice's own, those of the picture, or none for an IDR one. *)
ParseSliceRefPicLists ==
  Part("vvc_slice_lists", "vvc_slice_counts", {"type", "rpl_in_ph", "n", "tmvp"},
    IF carry.rpl_in_ph THEN {[idr_rpl |-> TRUE]}
    ELSE {[idr_rpl |-> i, n |-> IF carry.idr /\ ~i THEN <<0, 0>> ELSE EntriesOf(c)] @@ c :
            i \in IF carry.idr THEN BOOLEAN ELSE {TRUE}, c \in ListChoices},
    SliceRefPicLists, WritesSliceLists)

(* A P or B slice has pictures to predict from. *)
ParseSliceReferenceCounts ==
  Part("vvc_slice_counts", "vvc_slice_inter", {"type", "rpl_in_ph", "tmvp", "active"},
    {[active |-> NumRefIdxActive(c @@ carry)] @@ c :
       c \in {d \in [override : BOOLEAN, default : 1 .. 2, coded : [1 .. 2 -> 1 .. 3]] :
                \A x \in 1 .. Lists(carry) : d.coded[x] <= carry.n[x]}},
    SliceReferenceCounts, WritesReferenceCounts)

ParseSliceInter ==
  Part("vvc_slice_inter", "vvc_slice_filters", {},
    {[in_ph |-> FALSE, entries |-> carry.active] @@ c :
       c \in {w \in [cabac_init : BOOLEAN, from_l0 : BOOLEAN, wp_in_ph : BOOLEAN, weighted_pred : BOOLEAN,
                     weighted_bipred : BOOLEAN, chroma_format : 0 .. 1,
                     luma : WeightFlags(3),
                     chroma : {[x \in 1 .. 2 |-> [i \in 1 .. 3 |-> x = i]]}] :
                w.wp_in_ph => carry.rpl_in_ph /\ (w.weighted_pred \/ w.weighted_bipred)}},
    SliceInter, WritesSliceInter)

ParseSliceFilters ==
  Part("vvc_slice_filters", "vvc_slice_residuals", {},
    {c \in [qp_in_ph : BOOLEAN, chroma_offsets : BOOLEAN, joint_cbcr : BOOLEAN, chroma_offset_list : BOOLEAN,
            sps_sao : BOOLEAN, sao_in_ph : BOOLEAN, chroma_format : 0 .. 1, dbf_override : BOOLEAN,
            dbf_in_ph : BOOLEAN, params : BOOLEAN, pps_disabled : BOOLEAN, disabled : BOOLEAN,
            ph_disabled : BOOLEAN, chroma_tools : BOOLEAN] :
       /\ c.dbf_in_ph => c.dbf_override
       /\ ~c.dbf_in_ph => c.ph_disabled = c.pps_disabled},
    LAMBDA c : SliceFilters(c) \o SliceDeblocking(c),
    LAMBDA c : WritesSliceFilters(c) \o WritesSliceDeblocking(c))

ParseSliceResiduals ==
  Part("vvc_slice_residuals", "vvc_slice_entry_points", {},
    [sps_dep_quant : BOOLEAN, dep_quant : BOOLEAN, sps_sign_hiding : BOOLEAN, sign_hiding : BOOLEAN,
     transform_skip : BOOLEAN, ts_disabled : BOOLEAN, rice : BOOLEAN, reverse_last : BOOLEAN,
     extension_present : BOOLEAN, extension : {0, 256}],
    LAMBDA c : SliceResiduals(c) \o HeaderExtension(c),
    LAMBDA c : WritesSliceResiduals(c) \o WritesHeaderExtension(c))

(* Tiles of the slice: a rectangle of them, or a run in raster order.      *)
EntryPointChoices ==
  [entry_points : BOOLEAN, entropy_sync : BOOLEAN, offset_len : {1, 32}, layout : {"slices"},
   width : 1 .. 3, rows : {<<1>>, <<4>>, <<2, 1>>}]
  \cup {c \in [entry_points : BOOLEAN, entropy_sync : BOOLEAN, offset_len : {8}, layout : {"raster"},
               columns : 1 .. 3, rows : {<<3, 1>>}, address : 0 .. 5, tiles_in_slice : 1 .. 6] :
          c.address + c.tiles_in_slice <= c.columns * Len(c.rows)}
  \cup {c \in [entry_points : BOOLEAN, entropy_sync : BOOLEAN, offset_len : {8}, layout : {"single"},
               width : 1 .. 2, rows : {<<1>>, <<3>>, <<1, 1>>}] :
          c.width * Len(c.rows) > 1 \/ (c.entropy_sync /\ c.rows # <<1>>) => Uses("whole_picture_slice")}
  \cup {c \in [entry_points : BOOLEAN, entropy_sync : BOOLEAN, offset_len : {8}, layout : {"unpartitioned"},
               width : {1}, rows : {<<1>>, <<2>>, <<3>>}, ctb : {32, 64}, height : {32, 96, 128}] :
          /\ c.rows = <<CHOOSE k \in 1 .. 4 : c.ctb * k >= c.height /\ c.ctb * (k - 1) < c.height>>
          /\ c.ctb # 32 /\ c.entropy_sync => Uses("unpartitioned_rows")}

ParseSliceEntryPoints ==
  Part("vvc_slice_entry_points", "done", {}, EntryPointChoices, EntryPoints, WritesEntryPoints)

ParseSlice ==
  \/ ParseSliceStart \/ ParseSlicePlace \/ ParseSliceKind \/ ParseSliceTools \/ ParseSliceRefPicLists
  \/ ParseSliceReferenceCounts \/ ParseSliceInter \/ ParseSliceFilters \/ ParseSliceResiduals
  \/ ParseSliceEntryPoints
============================================================================
