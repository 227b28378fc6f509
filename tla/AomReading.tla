------------------------------ MODULE AomReading ------------------------------
(* The headers of AV1, VP9 and VP8: what an encoder writes by the syntax     *)
(* tables of the three formats (the Writes... definitions, the other side of *)
(* the bitstream and no part of the repository), and the parts in which the  *)
(* headers are read.                                                         *)
EXTENDS SyntaxReading, AomSyntax

Starts ==
  [part : {"av1_bits", "av1_sequence", "av1_sequence_tools", "av1_colour", "av1_frame", "av1_tools",
           "av1_refresh", "av1_intra_size", "av1_references", "av1_tiles", "av1_quantizers",
           "av1_filters", "av1_modes", "av1_grain", "vp9", "vp8"},
   fields : {<< >>}]

(* The header is read as booleans of even chance.  A one is read right, but *)
(* what is left of it shows up as another one seven bits later.             *)
ParseBits ==
  Part("av1_bits", "done", {},
    [bits : {b \in UNION {[1 .. n -> 0 .. 1] : n \in 1 .. 11} :
               Uses("av1_plain_bits") \/ \A k \in DOMAIN b : b[k] = 1 => Len(b) < k + 6}],
    LAMBDA c : Is("literal", ReadLiteral(c.bits)), LAMBDA c : Is("literal", c.bits))

---------------------------------------------------------------------------
(* Sequence header *)

WritesPoint(c) ==
     U(12, "operating_point_idc") \o U(5, "seq_level_idx") \o When(c.level > 7, Flag("seq_tier"))
  \o When(c.timing /\ c.model, Flag("decoder_model_present_for_this_op"))
  \o When(c.timing /\ c.model /\ c.op_model,
          U(c.delay_bits, "decoder_buffer_delay") \o U(c.delay_bits, "encoder_buffer_delay")
          \o Flag("low_delay_mode_flag"))
  \o When(c.delay, Flag("initial_display_delay_present_for_this_op"))
  \o When(c.delay /\ c.op_delay, U(4, "initial_display_delay_minus_1"))

(* A still picture has no tier. *)
WritesSeqStart(c) ==
     U(3, "seq_profile") \o Flag("still_picture") \o Flag("reduced_still_picture_header")
  \o When(c.reduced, U(5, "seq_level_idx"))
  \o When(~c.reduced, Flag("timing_info_present_flag"))
  \o When(~c.reduced /\ c.timing,
          U(32, "num_units_in_display_tick") \o U(32, "time_scale") \o Flag("equal_picture_interval")
          \o When(c.equal, Ue("num_ticks_per_picture_minus_1"))
          \o Flag("decoder_model_info_present_flag"))
  \o When(~c.reduced /\ c.timing /\ c.model,
          U(5, "buffer_delay_length_minus_1") \o U(32, "num_units_in_decoding_tick")
          \o U(5, "buffer_removal_time_length_minus_1") \o U(5, "frame_presentation_time_length_minus_1"))
  \o When(~c.reduced, Flag("initial_display_delay_present_flag") \o U(5, "operating_points_cnt_minus_1")
                      \o Times(c.points, WritesPoint(c)))

SeqStartChoices ==
  {c \in [reduced : BOOLEAN, level : {7, 8}, timing : BOOLEAN, equal : BOOLEAN, model : BOOLEAN,
          op_model : BOOLEAN, delay_bits : {1, 32}, delay : BOOLEAN, op_delay : BOOLEAN, points : 1 .. 2] :
     c.reduced /\ c.level > 7 => Uses("av1_still_tier")}

ParseSeqStart == Part("av1_sequence", "done", {}, SeqStartChoices, SeqStart, WritesSeqStart)

(* 2 stands for a choice left to the frames. *)
WritesSeqTools(c) ==
  LET tools == IF c.reduced \/ c.choose_tools THEN 2 ELSE c.force_tools
      full == ~c.reduced
  IN  U(4, "frame_width_bits_minus_1") \o U(4, "frame_height_bits_minus_1")
      \o U(c.width_bits, "max_frame_width_minus_1") \o U(c.height_bits, "max_frame_height_minus_1")
      \o When(full, Flag("frame_id_numbers_present_flag"))
      \o When(full /\ c.ids, U(4, "delta_frame_id_length_minus_2") \o U(3, "additional_frame_id_length_minus_1"))
      \o Flag("use_128x128_superblock") \o Flag("enable_filter_intra") \o Flag("enable_intra_edge_filter")
      \o When(full, Flag("enable_interintra_compound") \o Flag("enable_masked_compound")
                    \o Flag("enable_warped_motion") \o Flag("enable_dual_filter") \o Flag("enable_order_hint"))
      \o When(full /\ c.order_hint, Flag("enable_jnt_comp") \o Flag("enable_ref_frame_mvs"))
      \o When(full, Flag("seq_choose_screen_content_tools"))
      \o When(full /\ ~c.choose_tools, Flag("seq_force_screen_content_tools"))
      \o When(full /\ tools # 0, Flag("seq_choose_integer_mv"))
      \o When(full /\ tools # 0 /\ ~c.choose_mv, Flag("seq_force_integer_mv"))
      \o When(full /\ c.order_hint, U(3, "order_hint_bits_minus_1"))
      \o Flag("enable_superres") \o Flag("enable_cdef") \o Flag("enable_restoration")
      \o Is("seq_force_screen_content_tools", tools)
      \o Is("seq_force_integer_mv", IF full /\ tools # 0 /\ ~c.choose_mv THEN c.force_mv ELSE 2)
      \o Is("order_hint_bits", IF full /\ c.order_hint THEN c.hint_bits ELSE 0)

ParseSeqTools ==
  Part("av1_sequence_tools", "done", {},
    [reduced : BOOLEAN, width_bits : {16}, height_bits : {1}, ids : BOOLEAN, order_hint : BOOLEAN,
     hint_bits : {1, 8}, choose_tools : BOOLEAN, force_tools : 0 .. 1, choose_mv : BOOLEAN, force_mv : 0 .. 1],
    SeqTools, WritesSeqTools)

(* Colours that are not described are unspecified, which is code point 2. *)
WritesColorConfig(c) ==
  LET twelve == c.profile = 2 /\ c.high /\ c.twelve
      srgb == c.colours = "srgb" /\ ~c.mono
      chosen == c.profile = 2 /\ twelve
      subsampling == CASE c.mono \/ (c.profile = 0 /\ ~srgb) -> <<1, 1>>
                       [] srgb \/ c.profile = 1 -> <<0, 0>>
                       [] chosen -> c.subsampling
                       [] OTHER -> <<1, 0>>
      coded == ~c.mono /\ ~srgb
  IN  Flag("high_bitdepth") \o When(c.profile = 2 /\ c.high, Flag("twelve_bit"))
      \o When(c.profile # 1, Flag("mono_chrome")) \o Flag("color_description_present_flag")
      \o When(c.colours # "absent", U(8, "color_primaries") \o U(8, "transfer_characteristics")
                                    \o U(8, "matrix_coefficients"))
      \o Is("colours", IF c.colours = "absent" THEN 2 ELSE c.colours)
      \o When(~srgb, Flag("color_range"))
      \o When(coded /\ chosen, Flag("subsampling_x") \o When(c.subsampling # <<0, 0>>, Flag("subsampling_y")))
      \o When(coded /\ subsampling = <<1, 1>>, U(2, "chroma_sample_position"))
      \o When(~c.mono, Flag("separate_uv_delta_q"))
      \o Is("bit_depth", CASE ~c.high -> 8 [] twelve -> 12 [] OTHER -> 10) \o Is("subsampling", subsampling)
      \o Flag("film_grain_params_present")

ColourChoices ==
  {c \in [profile : 0 .. 2, high : BOOLEAN, twelve : BOOLEAN, mono : BOOLEAN,
          colours : {"srgb", "other", "absent"}, subsampling : {<<0, 0>>, <<1, 0>>, <<1, 1>>}] :
     /\ c.profile = 1 => ~c.mono
     /\ c.colours = "absent" => Uses("av1_default_colours")}

ParseColour == Part("av1_colour", "done", {}, ColourChoices, ColorConfig, WritesColorConfig)

---------------------------------------------------------------------------
(* Frame header *)

WritesFrameStart(c) ==
  LET coded == ~c.reduced /\ ~c.existing
      resilient == c.type = Switch \/ (c.type = KeyFrame /\ c.show)
  IN  When(~c.reduced, Flag("show_existing_frame"))
      \o When(~c.reduced /\ c.existing, U(3, "frame_to_show_map_idx"))
      \o When(coded, U(2, "frame_type") \o Flag("show_frame"))
      \o When(c.time /\ ~c.reduced /\ (c.existing \/ c.show), U(c.time_bits, "frame_presentation_time"))
      \o When(~c.reduced /\ c.existing /\ c.ids, U(c.id_bits, "display_frame_id"))
      \o When(coded /\ ~c.show, Flag("showable_frame"))
      \o When(coded /\ ~resilient, Flag("error_resilient_mode"))

FrameTypes == {KeyFrame, InterFrame, IntraOnly, Switch}

ParseFrameStart ==
  Part("av1_frame", "done", {},
    [reduced : BOOLEAN, existing : BOOLEAN, time : BOOLEAN, time_bits : {1, 32}, ids : BOOLEAN,
     id_bits : {3, 16}, type : FrameTypes, show : BOOLEAN],
    FrameStart, WritesFrameStart)

(* A key frame that is shown and a switch frame are resilient to errors. *)
WritesTools(c) ==
  LET tools == c.force_tools = 1 \/ (c.force_tools = 2 /\ c.allow_tools)
      inter == c.type \in {InterFrame, Switch}
  IN  Flag("disable_cdf_update")
      \o When(c.force_tools = 2, Flag("allow_screen_content_tools"))
      \o When(tools /\ c.force_mv = 2, Flag("force_integer_mv"))
      \o When(c.ids, U(c.id_bits, "current_frame_id"))
      \o When(~(c.type = Switch \/ c.reduced), Flag("frame_size_override_flag"))
      \o U(c.hint_bits, "order_hint")
      \o When(inter /\ ~c.resilient, U(3, "primary_ref_frame"))
      \o Is("allow_screen_content_tools", tools)
      \o When(inter, Is("force_integer_mv", tools /\ (c.force_mv = 1 \/ (c.force_mv = 2 /\ c.integer_mv))))

ToolsChoices ==
  {c \in [type : FrameTypes, reduced : BOOLEAN, resilient : BOOLEAN, force_tools : 0 .. 2,
          allow_tools : BOOLEAN, force_mv : 0 .. 2, integer_mv : BOOLEAN, ids : BOOLEAN, id_bits : {3},
          hint_bits : {0, 8}] :
     /\ c.reduced => c.type = KeyFrame /\ c.hint_bits = 0 /\ ~c.ids
     /\ c.type = Switch \/ c.reduced => c.resilient}

ParseTools == Part("av1_tools", "done", {}, ToolsChoices, FrameTools, WritesTools)

(* The times of the operating points that have a decoder model and the     *)
(* frame's own layers.                                                     *)
WritesRefresh(c) ==
  LET all == c.type = Switch \/ (c.type = KeyFrame /\ c.show)
      timed(p) == p.model /\ \/ p.temporal = {} /\ p.spatial = {}
                             \/ c.temporal \in p.temporal /\ c.spatial \in p.spatial
  IN  When(c.decoder_model, Flag("buffer_removal_time_present_flag"))
      \o When(c.decoder_model /\ c.removal,
              Loop(Len(c.points), LAMBDA i : When(timed(c.points[i]), U(10, "buffer_removal_time"))))
      \o When(~all, U(8, "refresh_frame_flags"))
      \o When(/\ c.type \in {InterFrame, Switch} \/ ~(all \/ c.refresh_all)
              /\ c.resilient /\ c.hint_bits # 0,
              Times(8, U(c.hint_bits, "ref_order_hint")))

OperatingPoints ==
  {[model |-> m, temporal |-> t, spatial |-> IF t = {} THEN {} ELSE {0, 1}] :
     m \in BOOLEAN, t \in {{}, {0}, {0, 1}}}

RefreshChoices ==
  {c \in [type : FrameTypes, show : BOOLEAN, resilient : BOOLEAN, hint_bits : {0, 7}, refresh_all : BOOLEAN,
          decoder_model : BOOLEAN, removal : BOOLEAN, temporal : 0 .. 1, spatial : {0},
          points : {<<p, q>> : p \in OperatingPoints, q \in OperatingPoints}] :
     /\ c.type = Switch => c.resilient
     /\ c.temporal # 0 => c.removal /\ Uses("av1_layers")
     /\ c.decoder_model => c.hint_bits = 0}

ParseRefresh == Part("av1_refresh", "done", {}, RefreshChoices, Refresh, WritesRefresh)

(* What is shown has the size before the super-resolution. *)
WritesSize(c, references) ==
  LET own == c.override /\ ~references
      scaled == IF c.superres THEN (c.width * 8 + c.denominator \div 2) \div c.denominator ELSE c.width
  IN  When(own, U(c.width_bits, "frame_width_minus_1") \o U(c.height_bits, "frame_height_minus_1"))
      \o When(c.superres_enabled, Flag("use_superres")) \o When(c.superres, U(3, "coded_denom"))
      \o Is("upscaled_width", c.width) \o Is("frame_width", scaled)
      \o When(~references, Flag("render_and_frame_size_different")
                           \o When(c.render, U(16, "render_width_minus_1") \o U(16, "render_height_minus_1"))
                           \o Is("render_width", IF c.render THEN 1 ELSE c.width))

WritesIntraSize(c) ==
  WritesSize(c, FALSE) \o When(c.tools /\ ~c.superres, Flag("allow_intrabc"))

SizeChoices ==
  {c \in [override : BOOLEAN, width_bits : {16}, height_bits : {11}, width : {64, 1920, 65536},
          superres_enabled : BOOLEAN, superres : BOOLEAN, denominator : {9, 16}, render : BOOLEAN,
          tools : BOOLEAN] :
     /\ c.superres => c.superres_enabled
     /\ c.superres /\ ~c.render => Uses("av1_superres_shown")
     /\ c.width = 65536 => Uses("av1_widest_frame")}

ParseIntraSize == Part("av1_intra_size", "done", {}, SizeChoices, IntraSize, WritesIntraSize)

WritesReferences(c) ==
  LET short == c.order_hint /\ c.short
  IN  When(c.order_hint, Flag("frame_refs_short_signaling"))
      \o When(short, U(3, "last_frame_idx") \o U(3, "golden_frame_idx"))
      \o Loop(7, LAMBDA i : When(~short, U(3, "ref_frame_idx"))
                            \o When(c.ids, U(c.delta_bits, "delta_frame_id_minus1")))

ParseReferences ==
  Part("av1_references", "av1_inter_size", {"ids"},
    [order_hint : BOOLEAN, short : BOOLEAN, ids : BOOLEAN, delta_bits : {2, 17}],
    References, WritesReferences)

(* The first reference of the same size ends the search, and gives its own. *)
WritesInterSize(c) ==
  LET asks == c.override /\ ~c.resilient
      first == CHOOSE i \in c.found : \A j \in c.found : i <= j
  IN  When(asks, Times(IF c.found = {} THEN 7 ELSE first, Flag("found_ref")))
      \o WritesSize(c, asks /\ c.found # {})

InterSizeChoices ==
  {c @@ more :
     c \in {c \in SizeChoices : ~c.tools},
     more \in {m \in [resilient : BOOLEAN, found : {{}, {1}, {3, 5}, {7}}, wider : BOOLEAN] :
                 (m.found \subseteq {7} /\ ~m.wider) \/ Uses("av1_found_reference")}}

ParseInterSize ==
  Part("av1_inter_size", "av1_motion", {"resilient"}, InterSizeChoices, InterSize, WritesInterSize)

WritesMotion(c) ==
     When(~c.integer_mv, Flag("allow_high_precision_mv")) \o Flag("is_filter_switchable")
  \o When(~c.switchable, U(2, "interpolation_filter")) \o Flag("is_motion_mode_switchable")
  \o When(~(c.resilient \/ ~c.ref_mvs), Flag("use_ref_frame_mvs"))
  \o When(~c.no_update, Flag("disable_frame_end_update_cdf"))

ParseMotion ==
  Part("av1_motion", "done", {},
    [integer_mv : BOOLEAN, switchable : BOOLEAN, ref_mvs : BOOLEAN, reduced : {FALSE}, no_update : BOOLEAN],
    LAMBDA c : Motion(c) \o FrameEnd(c), WritesMotion)

---------------------------------------------------------------------------
(* Tiles.  Sizes are in superblocks; no tile is wider than 4096 samples,    *)
(* none larger than 4096 x 2304.                                            *)

LeastLog2(pieces) == CHOOSE k \in 0 .. 20 : 2 ^ k >= pieces /\ \A j \in 0 .. k - 1 : 2 ^ j < pieces
DividedUp(a, b) == (a + b - 1) \div b

(* A flag for every step up, and one to stop below the limit. *)
WritesSteps(low, value, high, name) ==
  Times(value - low, Flag(name)) \o When(value < high, Flag(name))

(* ns(n): the values below 2^w - n have the shorter code. *)
WritesNs(n, value, name) ==
  LET w == LeastLog2(n + 1)
      shorter == value < 2 ^ w - n
  IN  U(w - 1, name) \o When(~shorter, Flag("extra_bit"))

WritesTiles(c) ==
  LET side == IF c.sb128 THEN 128 ELSE 64
      cols == DividedUp(c.width, side)
      rows == DividedUp(c.height, side)
      limit == IF c.sb128 THEN 4096 \div 128 ELSE 4096 \div 64
      area == (4096 * 2304) \div (side * side)
      lowest == LeastLog2(DividedUp(cols, limit))
      highest(n) == LeastLog2(IF n > 64 THEN 64 ELSE n)
      tiles == LET all == LeastLog2(DividedUp(cols * rows, area)) IN IF all > lowest THEN all ELSE lowest
      Asked(low, more, n) == IF low + more > highest(n) THEN (IF low > highest(n) THEN low ELSE highest(n)) ELSE low + more
      log_cols == Asked(lowest, c.more_cols, cols)
      low_rows == IF tiles > log_cols THEN tiles - log_cols ELSE 0
      log_rows == Asked(low_rows, c.more_rows, rows)
      Even(n, log) == DividedUp(n, DividedUp(n, 2 ^ log))
      Given[n \in 0 .. cols + rows, most \in 1 .. cols * rows, first \in BOOLEAN] ==
        IF n = 0 THEN << >>
        ELSE LET free == IF n < most THEN n ELSE most
                 size == IF first /\ c.first < free THEN c.first ELSE free
             IN  <<<<free, size>>>> \o Given[n - size, most, FALSE]
      given_cols == Given[cols, IF limit < cols THEN limit ELSE cols, TRUE]
      widest == CHOOSE w \in 1 .. cols : /\ \E i \in DOMAIN given_cols : given_cols[i][2] = w
                                         /\ \A i \in DOMAIN given_cols : given_cols[i][2] <= w
      tallest == LET n == (IF tiles > 0 THEN (rows * cols) \div 2 ^ (tiles + 1) ELSE rows * cols) \div widest
                 IN  IF n = 0 THEN 1 ELSE n
      given_rows == Given[rows, tallest, TRUE]
      Sizes(given, name) == Loop(Len(given), LAMBDA i : WritesNs(given[i][1], given[i][2] - 1, name))
      log2 == IF c.uniform THEN log_cols + log_rows ELSE LeastLog2(Len(given_cols)) + LeastLog2(Len(given_rows))
  IN  Flag("uniform_tile_spacing_flag")
      \o When(c.uniform, WritesSteps(lowest, log_cols, highest(cols), "increment_tile_cols_log2")
                         \o WritesSteps(low_rows, log_rows, highest(rows), "increment_tile_rows_log2"))
      \o When(~c.uniform, Sizes(given_cols, "width_in_sbs_minus_1") \o Sizes(given_rows, "height_in_sbs_minus_1"))
      \o Is("tile_cols", IF c.uniform THEN Even(cols, log_cols) ELSE Len(given_cols))
      \o Is("tile_rows", IF c.uniform THEN Even(rows, log_rows) ELSE Len(given_rows))
      \o When(log2 > 0, U(log2, "context_update_tile_id") \o U(2, "tile_size_bytes_minus1"))

ParseTiles ==
  Part("av1_tiles", "done", {},
    [width : {8, 64, 200, 1032, 4160, 8200}, height : {16, 129, 1088, 4352}, sb128 : BOOLEAN, uniform : BOOLEAN,
     more_cols : 0 .. 2, more_rows : {0, 1, 9}, first : {1, 5, 64}],
    TileInfo, WritesTiles)

---------------------------------------------------------------------------
(* Quantizers and filters *)

(* A quantizer index stays within 0 .. 255.  Data that is not updated is    *)
(* that of the primary reference, whose first segment changes by c.kept.    *)
WritesQuantizers(c) ==
  LET fresh == c.primary = 7 \/ c.update_data
      alt == CASE ~c.segments -> 0 [] fresh -> c.alt [] OTHER -> c.kept
      index == IF c.base + alt < 0 THEN 0 ELSE c.base + alt
      Delta(v) == Flag("delta_coded") \o When(v # 0, U(7, "delta_q"))
      chroma == IF c.mono THEN 0 ELSE 2
      other == c.separate /\ c.different
      Feature(s, f) == CASE s = 1 /\ f = 1 /\ c.alt # 0 -> U(1 + 8, "feature_value")
                         [] s = 2 /\ f = 2 /\ c.features -> U(1 + 6, "feature_value")
                         [] s = 2 /\ f = 6 /\ c.features -> U(3, "feature_value")
                         [] OTHER -> << >>
      lf == c.base > 0 /\ c.deltas /\ ~c.intrabc
  IN  U(8, "base_q_idx") \o Delta(c.y)
      \o When(~c.mono /\ c.separate, Flag("diff_uv_delta"))
      \o Times(chroma, Delta(c.u)) \o When(other, Times(chroma, Delta(c.v)))
      \o Flag("using_qmatrix")
      \o When(c.qmatrix, U(4, "qm_y") \o U(4, "qm_u") \o When(c.separate, U(4, "qm_v")))
      \o Flag("segmentation_enabled")
      \o When(c.segments /\ c.primary # 7,
              Flag("segmentation_update_map") \o When(c.update_map, Flag("segmentation_temporal_update"))
              \o Flag("segmentation_update_data"))
      \o When(c.segments /\ fresh,
              Loop(8, LAMBDA s : Loop(8, LAMBDA f : Flag("feature_enabled") \o Feature(s, f))))
      \o When(c.base > 0, Flag("delta_q_present"))
      \o When(c.base > 0 /\ c.deltas, U(2, "delta_q_res"))
      \o When(lf, Flag("delta_lf_present")) \o When(lf /\ c.lf_deltas, U(2, "delta_lf_res") \o Flag("delta_lf_multi"))
      \o Is("coded_lossless", /\ c.base = 0 /\ index = 0 /\ c.y = 0
                              /\ c.mono \/ (c.u = 0 /\ (other => c.v = 0)))

QuantizersChoices ==
  {c \in [base : {0, 3}, y : {0, -1}, u : {0, 2}, v : {0, 2}, mono : BOOLEAN, separate : BOOLEAN,
          different : BOOLEAN, qmatrix : BOOLEAN, segments : BOOLEAN, primary : {1, 7}, update_map : BOOLEAN,
          update_data : BOOLEAN, alt : {0, 4, -5}, kept : {0, 4}, features : BOOLEAN, deltas : BOOLEAN,
          lf_deltas : BOOLEAN, intrabc : {FALSE}] :
     /\ c.mono => ~c.separate /\ c.u = 0
     /\ c.different => c.separate
     /\ c.v # 0 => c.different
     /\ c.qmatrix => c.base = 0
     /\ c.lf_deltas => c.deltas
     /\ c.deltas => c.base # 0
     /\ ~c.segments => c.primary = 7 /\ c.alt = 0 /\ ~c.features
     /\ c.primary = 7 => ~c.update_map /\ ~c.update_data
     /\ c.alt < 0 => Uses("av1_low_quantizer")
     /\ c.kept # 0 => c.segments /\ Uses("av1_kept_parameters")}

ParseQuantizers == Part("av1_quantizers", "done", {}, QuantizersChoices, Quantizers, WritesQuantizers)

(* A delta that is not updated keeps its value, which is the default if     *)
(* there is no primary reference.                                           *)
WritesFilters(c) ==
  LET filtered == ~c.lossless /\ ~c.intrabc
      restored == IF c.mono THEN c.restored \cap {1} ELSE c.restored
      low == IF c.sb128 THEN 1 ELSE 0
  IN  When(filtered,
           Times(IF ~c.mono /\ c.levels THEN 4 ELSE 2, U(6, "loop_filter_level"))
           \o U(3, "loop_filter_sharpness") \o Flag("loop_filter_delta_enabled")
           \o When(c.delta, Flag("loop_filter_delta_update"))
           \o When(c.delta /\ c.update,
                   Loop(10, LAMBDA i : Flag("update_delta") \o When(i \in c.updated, U(7, "loop_filter_delta")))))
      \o Is("loop_filter_ref_delta",
            CASE filtered /\ c.delta /\ c.update /\ 1 \in c.updated -> "coded"
              [] filtered /\ c.kept -> "kept"
              [] OTHER -> "default")
      \o When(filtered /\ c.cdef,
              U(2, "cdef_damping_minus_3") \o U(2, "cdef_bits")
              \o Loop(2 ^ c.cdef_bits,
                      LAMBDA i : U(4, "cdef_y_pri_strength") \o U(2, "cdef_y_sec_strength")
                                 \o When(~c.mono, U(4, "cdef_uv_pri_strength") \o U(2, "cdef_uv_sec_strength"))))
      \o When((~c.lossless \/ c.superres) /\ ~c.intrabc /\ c.restoration,
              Times(IF c.mono THEN 1 ELSE 3, U(2, "lr_type"))
              \o When(restored # {},
                      WritesSteps(low, IF c.shift > low THEN c.shift ELSE low, 2, "lr_unit_shift")
                      \o When(c.subsampling = <<1, 1>> /\ restored \notin {{}, {1}}, Flag("lr_uv_shift"))))

FiltersChoices ==
  {c \in [lossless : BOOLEAN, intrabc : BOOLEAN, mono : BOOLEAN, levels : BOOLEAN, delta : BOOLEAN,
          update : BOOLEAN, updated : {{}, {1, 9}}, kept : BOOLEAN, cdef : BOOLEAN, cdef_bits : {0, 3},
          restoration : BOOLEAN, restored : {{}, {1}, {1, 3}}, superres : BOOLEAN, sb128 : BOOLEAN,
          shift : 0 .. 2, subsampling : {<<0, 0>>, <<1, 1>>}] :
     /\ c.update => c.delta
     /\ c.updated # {} => c.update
     /\ c.restoration = c.delta
     /\ c.cdef => ~c.delta
     /\ c.cdef_bits # 0 => c.cdef
     /\ c.restored # {} \/ c.sb128 \/ c.shift # 0 => c.restoration
     /\ c.superres => c.lossless
     /\ c.mono => c.subsampling = <<1, 1>>
     /\ c.kept => Uses("av1_kept_parameters")}

ParseFilters == Part("av1_filters", "done", {}, FiltersChoices, Filters, WritesFilters)

---------------------------------------------------------------------------
(* Modes, motion and grain *)

(* Skip mode takes a reference before the frame and one after it, or two    *)
(* before it.                                                               *)
WritesModes(c) ==
  LET inter == c.type \in {InterFrame, Switch}
      both == c.before /\ (c.after \/ c.two_before)
  IN  When(~c.lossless, Flag("tx_mode_select")) \o When(inter, Flag("reference_select"))
      \o When(inter /\ c.select /\ c.order_hint /\ both, Flag("skip_mode_present"))
      \o When(inter /\ ~c.resilient /\ c.warped, Flag("allow_warped_motion"))
      \o Flag("reduced_tx_set")

ModesChoices ==
  {c \in [type : FrameTypes, lossless : BOOLEAN, select : BOOLEAN, order_hint : BOOLEAN, before : BOOLEAN,
          after : BOOLEAN, two_before : BOOLEAN, resilient : BOOLEAN, warped : BOOLEAN] :
     /\ c.two_before => c.before
     /\ ~IsIntra(c) /\ c.select /\ c.order_hint /\ ~(c.before /\ (c.after \/ c.two_before))
          => Uses("av1_skip_mode")}

ParseModes == Part("av1_modes", "av1_global_motion", {"type"}, ModesChoices, Modes, WritesModes)

(* The references are counted from 1 to 7. *)
WritesGlobalMotion(c) == When(c.type \in {InterFrame, Switch}, Times(7, Flag("is_global")))

ParseGlobalMotion ==
  Part("av1_global_motion", "done", {},
    {own \in {<< >>} : IsIntra(carry) \/ Uses("av1_inter_motion")},
    GlobalMotion, WritesGlobalMotion)

WritesGrain(c) ==
  LET there == c.grain /\ (c.show \/ c.showable)
      own == there /\ c.apply /\ (c.type # InterFrame \/ c.update_grain)
      chroma == IF c.mono \/ c.from_luma \/ (c.subsampling = <<1, 1>> /\ c.y_points = 0) THEN 0 ELSE 1
      cb == chroma * c.cb_points
      cr == chroma * c.cr_points
      near == 2 * c.lag * (c.lag + 1)
      also == IF c.y_points = 0 THEN 0 ELSE 1
      Scaling(name, n) == U(4, name) \o Times(n, U(8, "point_value") \o U(8, "point_scaling"))
  IN  When(there, Flag("apply_grain"))
      \o When(there /\ c.apply, U(16, "grain_seed") \o When(c.type = InterFrame, Flag("update_grain")))
      \o When(there /\ c.apply /\ ~own, U(3, "film_grain_params_ref_idx"))
      \o When(own,
              Scaling("num_y_points", c.y_points) \o When(~c.mono, Flag("chroma_scaling_from_luma"))
              \o When(chroma = 1, Scaling("num_cb_points", cb) \o Scaling("num_cr_points", cr))
              \o U(2, "grain_scaling_minus_8") \o U(2, "ar_coeff_lag")
              \o Times(also * near, U(8, "ar_coeffs_y_plus_128"))
              \o When(c.from_luma \/ cb # 0, Times(near + also, U(8, "ar_coeffs_cb_plus_128")))
              \o When(c.from_luma \/ cr # 0, Times(near + also, U(8, "ar_coeffs_cr_plus_128")))
              \o U(2, "ar_coeff_shift_minus_6") \o U(2, "grain_scale_shift")
              \o Times((IF cb = 0 THEN 0 ELSE 1) + IF cr = 0 THEN 0 ELSE 1,
                       U(8, "mult") \o U(8, "luma_mult") \o U(9, "offset"))
              \o Flag("overlap_flag") \o Flag("clip_to_restricted_range"))

GrainChoices ==
  {c \in [grain : BOOLEAN, show : BOOLEAN, showable : BOOLEAN, apply : BOOLEAN, type : FrameTypes,
          update_grain : BOOLEAN, mono : BOOLEAN, from_luma : BOOLEAN, subsampling : {<<1, 0>>, <<1, 1>>},
          y_points : {0, 2}, cb_points : {0, 1}, cr_points : {0, 2}, lag : {0, 2}] :
     /\ c.mono => ~c.from_luma
     /\ c.showable => ~c.show
     /\ ~(c.grain /\ c.apply) => c.lag = 0 /\ c.y_points + c.cb_points + c.cr_points = 0}

ParseGrain == Part("av1_grain", "done", {}, GrainChoices, FilmGrainParams, WritesGrain)

---------------------------------------------------------------------------
(* VP9 and VP8 *)

(* Only profiles 1 and 3 have RGB.  The frames to refresh come before the   *)
(* size.                                                                    *)
WritesVp9(c) ==
  LET coded == ~c.existing
      intra == coded /\ ~c.key /\ ~c.show /\ c.intra_only
      odd == c.profile \in {1, 3}
      sized == coded /\ (c.key \/ intra)
      colours == coded /\ (c.key \/ (intra /\ c.profile > 0))
  IN  U(2, "frame_marker") \o Flag("profile_low_bit") \o Flag("profile_high_bit")
      \o When(c.profile = 3, Flag("reserved_zero")) \o Flag("show_existing_frame")
      \o When(c.existing, U(3, "frame_to_show_map_idx"))
      \o When(coded, Flag("frame_type") \o Flag("show_frame") \o Flag("error_resilient_mode"))
      \o When(coded /\ ~c.key /\ ~c.show, Flag("intra_only"))
      \o When(coded /\ ~c.key /\ ~c.resilient, U(2, "reset_frame_context"))
      \o When(sized, U(24, "frame_sync_code"))
      \o When(colours, When(c.profile \in {2, 3}, Flag("bit_depth")) \o U(3, "color_space")
                       \o When(~c.rgb, Flag("color_range"))
                       \o When(odd /\ ~c.rgb, Flag("subsampling_x") \o Flag("subsampling_y"))
                       \o When(odd, Flag("reserved_zero")))
      \o When(intra, U(8, "refresh_frame_flags"))
      \o When(sized, U(16, "frame_width_minus_1") \o U(16, "frame_height_minus_1")
                     \o Is("frame_size_present", TRUE))
      \o When(coded /\ ~sized, Is("frame_size_from_refs", TRUE))

Vp9Choices ==
  {c \in [profile : 0 .. 3, existing : BOOLEAN, key : BOOLEAN, show : BOOLEAN, resilient : BOOLEAN,
          intra_only : BOOLEAN, rgb : BOOLEAN] :
     /\ c.rgb => c.profile \in {1, 3}
     /\ c.intra_only => ~c.key /\ ~c.show /\ Uses("vp9_intra_only")}

ParseVp9 == Part("vp9", "done", {}, Vp9Choices, Vp9Header, WritesVp9)

(* The fields of the tag from the lowest bit on. *)
Vp8Bytes(c) ==
  LET tag == (IF c.key THEN 0 ELSE 1) + 2 * c.version + 16 * (IF c.show THEN 1 ELSE 0) + 32 * c.size
      Low(n) == <<n % 256, (n \div 256) % 256>>
  IN  Low(tag) \o <<tag \div 65536>>
      \o When(c.key, <<157, 1, 42>> \o Low(c.width + 16384 * c.scale) \o Low(c.height + 16384 * c.scale))

ParseVp8 ==
  Part("vp8", "done", {},
    [key : BOOLEAN, version : 0 .. 3, show : BOOLEAN, size : {0, 7, 2048, 524287}, width : {1, 255, 16383},
     height : {1, 256}, scale : {0, 3}],
    LAMBDA c : Vp8Header(Vp8Bytes(c)),
    LAMBDA c : Is("key_frame", c.key) \o Is("version", c.version) \o Is("show_frame", c.show)
               \o Is("first_part_size", c.size)
               \o When(c.key, Is("width", c.width) \o Is("height", c.height)))

---------------------------------------------------------------------------

ParseHeaders ==
  \/ ParseBits \/ ParseSeqStart \/ ParseSeqTools \/ ParseColour
  \/ ParseFrameStart \/ ParseTools \/ ParseRefresh \/ ParseIntraSize
  \/ ParseReferences \/ ParseInterSize \/ ParseMotion \/ ParseTiles
  \/ ParseQuantizers \/ ParseFilters \/ ParseModes \/ ParseGlobalMotion
  \/ ParseGrain \/ ParseVp9 \/ ParseVp8
=============================================================================
