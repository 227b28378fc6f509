------------------------------ MODULE AomSyntax ------------------------------
(* The AV1 sequence and frame headers, the VP9 frame header and the VP8     *)
(* frame tag as their parsers read them                                     *)
(* (src/parser/{av1_sequence_header,av1_frame_header,vp9_frame_header,      *)
(* vp8_frame_header}_parser.hpp), and the decoder that the AV1 parsers take *)
(* their bits from (src/bitstream/boolean_decoder.hpp).                     *)
EXTENDS SyntaxElements

KeyFrame == 0
InterFrame == 1
IntraOnly == 2
Switch == 3

IsIntra(c) == c.type \in {KeyFrame, IntraOnly}

AtLeast(low, n) == IF n < low THEN low ELSE n
AtMost(high, n) == IF n > high THEN high ELSE n

---------------------------------------------------------------------------
(* BooleanDecoder.  Its value is the 16 bits it looks at, next the position *)
(* of the next bit; past the end it reads zeros.                            *)

NextBit(bits, next) == IF next \in DOMAIN bits THEN bits[next] ELSE 0

BooleanDecoder(bits) ==
  [value |-> FoldLeft(LAMBDA v, k : 2 * v + NextBit(bits, k), 0, [k \in 1 .. 16 |-> k]),
   next |-> 17, range |-> 254]

(* The range ends up at 128 or more, whatever was read. *)
Renormalized(d, bits) ==
  LET short == CHOOSE k \in 0 .. 7 : d.range * 2 ^ k >= 128 /\ \A j \in 0 .. k - 1 : d.range * 2 ^ j < 128
  IN  [value |-> FoldLeft(LAMBDA v, k : 2 * v + NextBit(bits, d.next + k - 1), d.value,
                          [k \in 1 .. short |-> k]),
       next |-> d.next + short, range |-> d.range * 2 ^ short]

(* read_bool(128), and the bits that as many calls return. *)
Split(d) == 1 + ((d.range - 1) * 128) \div 256
ReadBool(d) == IF d.value >= 256 * Split(d) THEN 1 ELSE 0
AfterBool(d, bits) ==
  Renormalized(IF ReadBool(d) = 1
               THEN [d EXCEPT !.value = @ - 256 * Split(d), !.range = @ - Split(d)]
               ELSE [d EXCEPT !.range = Split(d)], bits)

ReadLiteral(bits) ==
  LET Read(s, k) == [decoder |-> AfterBool(s.decoder, bits), out |-> Append(s.out, ReadBool(s.decoder))]
  IN  FoldLeft(Read, [decoder |-> BooleanDecoder(bits), out |-> << >>], [k \in DOMAIN bits |-> k]).out

(* read_increment(), and read_ns() of n values. *)
Increment(low, high, value, name) == Times(AtMost(high - low, value - low + 1), Flag(name))
NonSymmetric(n, value, name) ==
  LET w == CHOOSE k \in 1 .. n : 2 ^ (k - 1) <= n /\ n < 2 ^ k
  IN  When(n > 1, U(w - 1, name) \o When(value >= 2 ^ w - n, Flag("extra_bit")))

---------------------------------------------------------------------------
(* Sequence header *)

TimingInfo(c) ==
     U(32, "num_units_in_display_tick") \o U(32, "time_scale") \o Flag("equal_picture_interval")
  \o When(c.equal, Ue("num_ticks_per_picture_minus_1"))
  \o Flag("decoder_model_info_present_flag")
  \o When(c.model, U(5, "buffer_delay_length_minus_1") \o U(32, "num_units_in_decoding_tick")
                   \o U(5, "buffer_removal_time_length_minus_1")
                   \o U(5, "frame_presentation_time_length_minus_1"))

OperatingPoint(c) ==
     U(12, "operating_point_idc") \o U(5, "seq_level_idx") \o When(c.level > 7, Flag("seq_tier"))
  \o When(c.timing /\ c.model,
          Flag("decoder_model_present_for_this_op")
          \o When(c.op_model, U(c.delay_bits, "decoder_buffer_delay")
                              \o U(c.delay_bits, "encoder_buffer_delay") \o Flag("low_delay_mode_flag")))
  \o When(c.delay, Flag("initial_display_delay_present_for_this_op")
                   \o When(c.op_delay, U(4, "initial_display_delay_minus_1")))

SeqStart(c) ==
     U(3, "seq_profile") \o Flag("still_picture") \o Flag("reduced_still_picture_header")
  \o IF c.reduced THEN U(5, "seq_level_idx") \o When(c.level > 7, Flag("seq_tier"))
     ELSE Flag("timing_info_present_flag") \o When(c.timing, TimingInfo(c))
          \o Flag("initial_display_delay_present_flag") \o U(5, "operating_points_cnt_minus_1")
          \o Times(c.points, OperatingPoint(c))

ForceScreenContentTools(c) == IF c.reduced \/ c.choose_tools THEN 2 ELSE c.force_tools
ForceIntegerMv(c) ==
  IF c.reduced \/ ForceScreenContentTools(c) = 0 \/ c.choose_mv THEN 2 ELSE c.force_mv

InterTools(c) ==
     Each(Flag, <<"enable_interintra_compound", "enable_masked_compound", "enable_warped_motion",
                  "enable_dual_filter", "enable_order_hint">>)
  \o When(c.order_hint, Flag("enable_jnt_comp") \o Flag("enable_ref_frame_mvs"))
  \o Flag("seq_choose_screen_content_tools")
  \o When(~c.choose_tools, Flag("seq_force_screen_content_tools"))
  \o When(ForceScreenContentTools(c) > 0,
          Flag("seq_choose_integer_mv") \o When(~c.choose_mv, Flag("seq_force_integer_mv")))
  \o When(c.order_hint, U(3, "order_hint_bits_minus_1"))

SeqTools(c) ==
     U(4, "frame_width_bits_minus_1") \o U(4, "frame_height_bits_minus_1")
  \o U(c.width_bits, "max_frame_width_minus_1") \o U(c.height_bits, "max_frame_height_minus_1")
  \o When(~c.reduced,
          Flag("frame_id_numbers_present_flag")
          \o When(c.ids, U(4, "delta_frame_id_length_minus_2")
                         \o U(3, "additional_frame_id_length_minus_1")))
  \o Each(Flag, <<"use_128x128_superblock", "enable_filter_intra", "enable_intra_edge_filter">>)
  \o When(~c.reduced, InterTools(c))
  \o Each(Flag, <<"enable_superres", "enable_cdef", "enable_restoration">>)
  \o Is("seq_force_screen_content_tools", ForceScreenContentTools(c))
  \o Is("seq_force_integer_mv", ForceIntegerMv(c))
  \o Is("order_hint_bits", IF c.order_hint /\ ~c.reduced THEN c.hint_bits ELSE 0)

(* parse_color_config(); c.colours is "srgb", "other" or "absent". *)
BitDepth(c) == IF ~c.high THEN 8 ELSE IF c.profile = 2 /\ c.twelve THEN 12 ELSE 10
Subsampling(c) ==
  CASE c.mono -> <<1, 1>>
    [] ~c.mono /\ c.colours = "srgb" -> <<0, 0>>
    [] OTHER -> CASE c.profile = 0 -> <<1, 1>>
                  [] c.profile = 1 -> <<0, 0>>
                  [] OTHER -> IF BitDepth(c) = 12 THEN c.subsampling ELSE <<1, 0>>

ColorConfig(c) ==
     Flag("high_bitdepth") \o When(c.profile = 2 /\ c.high, Flag("twelve_bit"))
  \o When(c.profile # 1, Flag("mono_chrome")) \o Flag("color_description_present_flag")
  \o When(c.colours # "absent", Each(LAMBDA n : U(8, n), <<"color_primaries",
                                       "transfer_characteristics", "matrix_coefficients">>))
  \o Is("colours", IF c.colours = "absent" THEN 0 ELSE c.colours)
  \o (CASE c.mono -> Flag("color_range")
        [] ~c.mono /\ c.colours = "srgb" -> Flag("separate_uv_delta_q")
        [] OTHER -> Flag("color_range")
                    \o When(c.profile = 2 /\ BitDepth(c) = 12,
                            Flag("subsampling_x")
                            \o When(c.subsampling[1] = 1, Flag("subsampling_y")))
                    \o When(Subsampling(c) = <<1, 1>>, U(2, "chroma_sample_position"))
                    \o Flag("separate_uv_delta_q"))
  \o Is("bit_depth", BitDepth(c)) \o Is("subsampling", Subsampling(c))
  \o Flag("film_grain_params_present")

---------------------------------------------------------------------------
(* Frame header.  c.time is whether frame_presentation_time applies: a      *)
(* decoder model and no equal picture interval.                             *)

FrameStart(c) ==
  IF c.reduced THEN << >>
  ELSE Flag("show_existing_frame")
       \o IF c.existing
          THEN U(3, "frame_to_show_map_idx") \o When(c.time, U(c.time_bits, "frame_presentation_time"))
               \o When(c.ids, U(c.id_bits, "display_frame_id"))
          ELSE U(2, "frame_type") \o Flag("show_frame")
               \o When(c.show /\ c.time, U(c.time_bits, "frame_presentation_time"))
               \o When(~c.show, Flag("showable_frame"))
               \o When(~(c.type = Switch \/ (c.type = KeyFrame /\ c.show)), Flag("error_resilient_mode"))

AllowsTools(c) == IF c.force_tools = 2 THEN c.allow_tools ELSE c.force_tools = 1

FrameTools(c) ==
     Flag("disable_cdf_update")
  \o When(c.force_tools = 2, Flag("allow_screen_content_tools"))
  \o When(AllowsTools(c) /\ c.force_mv = 2, Flag("force_integer_mv"))
  \o When(c.ids, U(c.id_bits, "current_frame_id"))
  \o When(c.type # Switch /\ ~c.reduced, Flag("frame_size_override_flag"))
  \o U(c.hint_bits, "order_hint")
  \o When(~(IsIntra(c) \/ c.resilient), U(3, "primary_ref_frame"))
  \o Is("allow_screen_content_tools", AllowsTools(c))
  \o When(~IsIntra(c),
          Is("force_integer_mv",
             AllowsTools(c) /\ IF c.force_mv = 2 THEN c.integer_mv ELSE c.force_mv = 1))

(* An operating point is [model, temporal, spatial], the layers that its    *)
(* operating_point_idc names; the frame is taken for one of layers 0 and 0. *)
RemovalTimes(c) ==
  Flag("buffer_removal_time_present_flag")
  \o When(c.removal,
          Loop(Len(c.points),
            LAMBDA i : LET p == c.points[i]
                       IN  When(p.model /\ (p.temporal \cup p.spatial = {} \/ 0 \in p.temporal \cap p.spatial),
                                U(10, "buffer_removal_time"))))

RefreshesAll(c) == c.type = Switch \/ (c.type = KeyFrame /\ c.show)
Refresh(c) ==
     When(c.decoder_model, RemovalTimes(c))
  \o When(~RefreshesAll(c), U(8, "refresh_frame_flags"))
  \o When((~IsIntra(c) \/ ~(RefreshesAll(c) \/ c.refresh_all)) /\ c.hint_bits > 0 /\ c.resilient,
          Times(8, U(c.hint_bits, "ref_order_hint")))

(* frame_width is a 16-bit member. *)
UpscaledWidth(c) == c.width % 65536
FrameWidth(c) ==
  IF c.superres THEN (UpscaledWidth(c) * 8 + c.denominator \div 2) \div c.denominator
  ELSE UpscaledWidth(c)

Superres(c) ==
     When(c.superres_enabled, Flag("use_superres")) \o When(c.superres, U(3, "coded_denom"))
  \o Is("upscaled_width", UpscaledWidth(c)) \o Is("frame_width", FrameWidth(c))

FrameSize(c) ==
     When(c.override, U(c.width_bits, "frame_width_minus_1") \o U(c.height_bits, "frame_height_minus_1"))
  \o Superres(c)
  \o Flag("render_and_frame_size_different")
  \o When(c.render, U(16, "render_width_minus_1") \o U(16, "render_height_minus_1"))
  \o Is("render_width", IF c.render THEN 1 ELSE FrameWidth(c))

IntraSize(c) ==
  FrameSize(c) \o When(c.tools /\ UpscaledWidth(c) = FrameWidth(c), Flag("allow_intrabc"))

References(c) ==
     When(c.order_hint, Flag("frame_refs_short_signaling"))
  \o When(c.order_hint /\ c.short, U(3, "last_frame_idx") \o U(3, "golden_frame_idx"))
  \o Times(7, When(~(c.order_hint /\ c.short), U(3, "ref_frame_idx"))
              \o When(c.ids, U(c.delta_bits, "delta_frame_id_minus1")))

(* c.found is the set of references whose found_ref is set.  The frame then *)
(* gets the largest size of the sequence, which is c.wider than it or not.  *)
MaxFrameWidth(c) == IF c.wider THEN 2 * c.width ELSE c.width

InterSize(c) ==
  IF c.override /\ ~c.resilient
  THEN Times(7, Flag("found_ref"))
       \o IF c.found # {} THEN Superres([c EXCEPT !.width = MaxFrameWidth(c)]) ELSE FrameSize(c)
  ELSE FrameSize(c)

Motion(c) ==
     When(~c.integer_mv, Flag("allow_high_precision_mv"))
  \o Flag("is_filter_switchable") \o When(~c.switchable, U(2, "interpolation_filter"))
  \o Flag("is_motion_mode_switchable")
  \o When(~c.resilient /\ c.ref_mvs, Flag("use_ref_frame_mvs"))

FrameEnd(c) == When(~(c.reduced \/ c.no_update), Flag("disable_frame_end_update_cdf"))

---------------------------------------------------------------------------
(* tile_info.  c.more_cols and c.more_rows are the increments an encoder    *)
(* asks for, c.first the width or height of its first tile; the others take *)
(* all they may.                                                            *)

TileLog2(size, target) ==
  CHOOSE k \in 0 .. 20 : size * 2 ^ k >= target /\ \A j \in 0 .. k - 1 : size * 2 ^ j < target

Superblocks(c, size) ==
  LET mi == 2 * ((size + 7) \div 8)
  IN  IF c.sb128 THEN (mi + 31) \div 32 ELSE (mi + 15) \div 16

TilesOf(all, most, first) ==
  LET From[start \in 0 .. all] ==
        IF start = all THEN << >>
        ELSE LET limit == AtMost(most, all - start)
                 size == IF start = 0 THEN AtMost(limit, first) ELSE limit
             IN  <<[limit |-> limit, size |-> size]>> \o From[start + size]
  IN  From[0]

GivenTiles(tiles, name) == Loop(Len(tiles), LAMBDA i : NonSymmetric(tiles[i].limit, tiles[i].size - 1, name))
Widest(tiles) == CHOOSE w \in {tiles[i].size : i \in DOMAIN tiles} : \A i \in DOMAIN tiles : tiles[i].size <= w

TileInfo(c) ==
  LET sb_cols == Superblocks(c, c.width)
      sb_rows == Superblocks(c, c.height)
      max_width == IF c.sb128 THEN 32 ELSE 64
      max_area == IF c.sb128 THEN 576 ELSE 2304
      min_cols == TileLog2(max_width, sb_cols)
      max_cols == TileLog2(1, AtMost(64, sb_cols))
      max_rows == TileLog2(1, AtMost(64, sb_rows))
      min_tiles == AtLeast(min_cols, TileLog2(max_area, sb_rows * sb_cols))
      cols_log2 == AtLeast(min_cols, AtMost(max_cols, min_cols + c.more_cols))
      min_rows == AtLeast(0, min_tiles - cols_log2)
      rows_log2 == AtLeast(min_rows, AtMost(max_rows, min_rows + c.more_rows))
      Uniform(all, log2) == LET size == (all + 2 ^ log2 - 1) \div 2 ^ log2
                            IN  (all + size - 1) \div size
      cols == TilesOf(sb_cols, max_width, c.first)
      area == IF min_tiles > 0 THEN (sb_rows * sb_cols) \div 2 ^ (min_tiles + 1) ELSE sb_rows * sb_cols
      rows == TilesOf(sb_rows, AtLeast(1, area \div Widest(cols)), c.first)
      log2 == IF c.uniform THEN <<cols_log2, rows_log2>> ELSE <<TileLog2(1, Len(cols)), TileLog2(1, Len(rows))>>
  IN  IF c.width = 0 THEN << >>
      ELSE Flag("uniform_tile_spacing_flag")
           \o (IF c.uniform
               THEN Increment(min_cols, max_cols, cols_log2, "increment_tile_cols_log2")
                    \o Increment(min_rows, max_rows, rows_log2, "increment_tile_rows_log2")
                    \o Is("tile_cols", Uniform(sb_cols, cols_log2))
                    \o Is("tile_rows", Uniform(sb_rows, rows_log2))
               ELSE GivenTiles(cols, "width_in_sbs_minus_1") \o GivenTiles(rows, "height_in_sbs_minus_1")
                    \o Is("tile_cols", Len(cols)) \o Is("tile_rows", Len(rows)))
           \o When(log2 # <<0, 0>>, U(log2[1] + log2[2], "context_update_tile_id")
                                    \o U(2, "tile_size_bytes_minus1"))

---------------------------------------------------------------------------
(* Quantization, segmentation and filters.  c.y, c.u and c.v are deltas,    *)
(* c.alt the quantizer change of segment 0, 0 if that feature is off.       *)

DeltaQ(value) == Flag("delta_coded") \o When(value # 0, U(7, "delta_q"))

Quantization(c) ==
     U(8, "base_q_idx") \o DeltaQ(c.y)
  \o When(~c.mono, When(c.separate, Flag("diff_uv_delta")) \o DeltaQ(c.u) \o DeltaQ(c.u)
                   \o When(c.separate /\ c.different, DeltaQ(c.v) \o DeltaQ(c.v)))
  \o Flag("using_qmatrix")
  \o When(c.qmatrix, U(4, "qm_y") \o U(4, "qm_u") \o When(c.separate, U(4, "qm_v")))

UpdatesData(c) == c.primary = 7 \/ c.update_data

FeatureBits == <<9, 7, 7, 7, 7, 3, 0, 0>>
FeatureEnabled(c, segment, feature) ==
  \/ segment = 1 /\ feature = 1 /\ c.alt # 0
  \/ segment = 2 /\ feature \in {2, 6, 7} /\ c.features

Segmentation(c) ==
  Flag("segmentation_enabled")
  \o When(c.segments,
          When(c.primary # 7,
               Flag("segmentation_update_map")
               \o When(c.update_map, Flag("segmentation_temporal_update"))
               \o Flag("segmentation_update_data"))
          \o When(UpdatesData(c),
                  Loop(8, LAMBDA s : Loop(8, LAMBDA f :
                    Flag("feature_enabled")
                    \o When(FeatureEnabled(c, s, f), U(FeatureBits[f], "feature_value"))))))

DeltaParams(c) ==
     When(c.base > 0, Flag("delta_q_present"))
  \o When(c.base > 0 /\ c.deltas,
          U(2, "delta_q_res") \o When(~c.intrabc, Flag("delta_lf_present"))
          \o When(~c.intrabc /\ c.lf_deltas, U(2, "delta_lf_res") \o Flag("delta_lf_multi")))

(* Segments 2 to 8 have the frame's own quantizer. *)
CodedLossless(c) ==
  LET indices == {c.base, IF c.segments /\ UpdatesData(c) THEN c.base + c.alt ELSE c.base}
  IN  indices = {0} /\ c.y = 0 /\ (c.mono \/ (c.u = 0 /\ (c.separate /\ c.different => c.v = 0)))

Quantizers(c) ==
  Quantization(c) \o Segmentation(c) \o DeltaParams(c) \o Is("coded_lossless", CodedLossless(c))

LoopFilter(c) ==
  IF c.lossless \/ c.intrabc THEN Is("loop_filter_ref_delta", "default")
  ELSE Times(2, U(6, "loop_filter_level"))
       \o When(~c.mono /\ c.levels, Times(2, U(6, "loop_filter_level")))
       \o U(3, "loop_filter_sharpness") \o Flag("loop_filter_delta_enabled")
       \o When(c.delta, Flag("loop_filter_delta_update"))
       \o When(c.delta /\ c.update,
               Loop(10, LAMBDA i : Flag("update_delta") \o When(i \in c.updated, U(7, "loop_filter_delta"))))
       \o Is("loop_filter_ref_delta", IF c.delta /\ c.update /\ 1 \in c.updated THEN "coded" ELSE "default")

Cdef(c) ==
  When(~c.lossless /\ ~c.intrabc /\ c.cdef,
       U(2, "cdef_damping_minus_3") \o U(2, "cdef_bits")
       \o Times(2 ^ c.cdef_bits,
                U(4, "cdef_y_pri_strength") \o U(2, "cdef_y_sec_strength")
                \o When(~c.mono, U(4, "cdef_uv_pri_strength") \o U(2, "cdef_uv_sec_strength"))))

(* c.restored are the planes with a restoration type. *)
Restoration(c) ==
  LET planes == IF c.mono THEN 1 .. 1 ELSE 1 .. 3
      used == c.restored \cap planes
  IN  When(~(c.lossless /\ ~c.superres) /\ ~c.intrabc /\ c.restoration,
           Times(Cardinality(planes), U(2, "lr_type"))
           \o When(used # {},
                   Increment(IF c.sb128 THEN 1 ELSE 0, 2, AtLeast(IF c.sb128 THEN 1 ELSE 0, c.shift),
                             "lr_unit_shift")
                   \o When(c.subsampling = <<1, 1>> /\ used \cap {2, 3} # {}, Flag("lr_uv_shift"))))

Filters(c) == LoopFilter(c) \o Cdef(c) \o Restoration(c)

---------------------------------------------------------------------------

(* Skip mode is taken to be allowed with any two references. *)
Modes(c) ==
     When(~c.lossless, Flag("tx_mode_select"))
  \o When(~IsIntra(c), Flag("reference_select"))
  \o When(~IsIntra(c) /\ c.select /\ c.order_hint, Flag("skip_mode_present"))
  \o When(~IsIntra(c) /\ ~c.resilient /\ c.warped, Flag("allow_warped_motion"))
  \o Flag("reduced_tx_set")

(* parse_global_motion() of references that do not move. *)
GlobalMotion(c) == When(~IsIntra(c), Times(8, Flag("is_global")))

Points(count, name) == U(4, name) \o Times(count, U(8, "point_value") \o U(8, "point_scaling"))

FilmGrain(c) ==
  LET need_chroma == ~(c.mono \/ c.from_luma \/ (c.subsampling = <<1, 1>> /\ c.y_points = 0))
      cb == IF need_chroma THEN c.cb_points ELSE 0
      cr == IF need_chroma THEN c.cr_points ELSE 0
      luma == 2 * c.lag * (c.lag + 1)
      chroma == luma + IF c.y_points > 0 THEN 1 ELSE 0
      from_luma == ~c.mono /\ c.from_luma
      Multiplier == U(8, "mult") \o U(8, "luma_mult") \o U(9, "offset")
  IN  Points(c.y_points, "num_y_points") \o When(~c.mono, Flag("chroma_scaling_from_luma"))
      \o When(need_chroma, Points(cb, "num_cb_points") \o Points(cr, "num_cr_points"))
      \o U(2, "grain_scaling_minus_8") \o U(2, "ar_coeff_lag")
      \o When(c.y_points > 0, Times(luma, U(8, "ar_coeffs_y_plus_128")))
      \o When(from_luma \/ cb > 0, Times(chroma, U(8, "ar_coeffs_cb_plus_128")))
      \o When(from_luma \/ cr > 0, Times(chroma, U(8, "ar_coeffs_cr_plus_128")))
      \o U(2, "ar_coeff_shift_minus_6") \o U(2, "grain_scale_shift")
      \o When(cb > 0, Multiplier) \o When(cr > 0, Multiplier)
      \o Flag("overlap_flag") \o Flag("clip_to_restricted_range")

FilmGrainParams(c) ==
  When(c.grain /\ (c.show \/ c.showable),
       Flag("apply_grain")
       \o When(c.apply, U(16, "grain_seed") \o When(c.type = InterFrame, Flag("update_grain"))
                        \o IF c.type = InterFrame /\ ~c.update_grain
                           THEN U(3, "film_grain_params_ref_idx") ELSE FilmGrain(c)))

---------------------------------------------------------------------------
(* VP9 and VP8 *)

Vp9ColorConfig(c) ==
     When(c.profile >= 2, Flag("bit_depth")) \o U(3, "color_space")
  \o IF c.rgb THEN Flag("reserved_zero")
     ELSE Flag("color_range") \o When(c.profile \in {1, 3}, U(1, "subsampling_x") \o U(1, "subsampling_y")
                                                            \o Flag("reserved_zero"))

Vp9Size == U(16, "frame_width_minus_1") \o U(16, "frame_height_minus_1") \o Is("frame_size_present", TRUE)

Vp9Inter(c) ==
     When(~c.show, Flag("intra_only")) \o When(~c.resilient, U(2, "reset_frame_context"))
  \o When(~c.show /\ c.intra_only,
          U(24, "frame_sync_code") \o When(c.profile > 0, Vp9ColorConfig(c))
          \o Vp9Size \o U(8, "refresh_frame_flags"))
  \o When(c.show \/ ~c.intra_only, Is("frame_size_from_refs", TRUE))

Vp9Header(c) ==
     U(2, "frame_marker") \o Flag("profile_low_bit") \o Flag("profile_high_bit")
  \o When(c.profile = 3, Flag("reserved_zero")) \o Flag("show_existing_frame")
  \o IF c.existing THEN U(3, "frame_to_show_map_idx")
     ELSE Flag("frame_type") \o Flag("show_frame") \o Flag("error_resilient_mode")
          \o IF c.key THEN U(24, "frame_sync_code") \o Vp9ColorConfig(c) \o Vp9Size ELSE Vp9Inter(c)

(* The tag is three bytes, the lowest first. *)
Vp8Header(bytes) ==
  LET tag == bytes[1] + 256 * bytes[2] + 65536 * bytes[3]
      key == tag % 2 = 0
  IN  Is("key_frame", key) \o Is("version", (tag \div 2) % 8) \o Is("show_frame", (tag \div 16) % 2 = 1)
      \o Is("first_part_size", (tag \div 32) % 524288)
      \o When(key, Is("width", (bytes[7] + 256 * bytes[8]) % 16384)
                   \o Is("height", (bytes[9] + 256 * bytes[10]) % 16384))
=============================================================================
