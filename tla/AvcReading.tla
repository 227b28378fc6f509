----------------------------- MODULE AvcReading -----------------------------
(* The sequence and picture parameter sets and the slice header of AVC: as   *)
(* their parsers read them, one operator per function, from the fields c of  *)
(* the structure to the elements that are read and the values it then holds  *)
(* (src/parser/avc_{sps,pps,slice}_parser.hpp); then part by part, with the  *)
(* fields that an encoder may choose for each.                               *)
EXTENDS SyntaxReading, H264Syntax

P == 0
B == 1
I == 2
SP == 3
SI == 4

HighProfiles == {44, 83, 86, 100, 110, 118, 122, 128, 134, 135, 138, 139, 244}

(* read_ue_max() *)
UeMax(name, value, max) == Ue(name) \o Require(value <= max, name)

(* read_se_bounded(), where it bounds a quantiser or a filter offset. *)
SeBounded(name, value) == Se(name) \o Require(value \in -52 .. 52, name)

(* parse_scaling_list(): "default" is the list whose first coefficient      *)
(* comes out as zero, "stopped" one that ends at the third.                 *)
ScalingList(size, kind) ==
  Flag("use_default")
  \o When(kind # "default", Times(IF kind = "stopped" THEN 3 ELSE size, Se("delta_scale"))
                            \o Is("remaining coefficients", IF kind = "stopped" THEN 0 ELSE kind))

(* Eight lists, six of them 4x4. *)
ScalingLists(c) ==
  Loop(8, LAMBDA i : Flag("scaling_list_present_flag")
                     \o When(c.lists[i] # "absent", ScalingList(IF i <= 6 THEN 16 ELSE 64, c.lists[i])))

---------------------------------------------------------------------------
(* Sequence parameter set *)

SpsHigh(c) ==
     Ue("chroma_format_idc") \o When(c.chroma_format = 3, Flag("separate_colour_plane_flag"))
  \o UeMax("bit_depth_luma_minus8", c.depth, 6) \o UeMax("bit_depth_chroma_minus8", c.depth, 6)
  \o Flag("qpprime_y_zero_transform_bypass_flag")
  \o Flag("seq_scaling_matrix_present_flag") \o When(c.matrix, ScalingLists(c))

SpsStart(c) ==
     U(8, "profile_idc") \o Times(6, Flag("constraint_set_flag")) \o U(2, "reserved_zero_2bits")
  \o U(8, "level_idc") \o UeMax("seq_parameter_set_id", c.sps_id, 31)
  \o When(c.profile \in HighProfiles, SpsHigh(c))
  \o Is("chroma_format_idc", IF c.profile \in HighProfiles THEN c.chroma_format ELSE 1)

SpsPicOrderCnt(c) ==
     UeMax("log2_max_frame_num_minus4", c.frame_num_bits - 4, 12) \o Ue("pic_order_cnt_type")
  \o When(c.poc_type = 0, UeMax("log2_max_pic_order_cnt_lsb_minus4", c.lsb_bits - 4, 12))
  \o When(c.poc_type = 1,
          Flag("delta_pic_order_always_zero_flag") \o Se("offset_for_non_ref_pic")
          \o Se("offset_for_top_to_bottom_field")
          \o UeMax("num_ref_frames_in_pic_order_cnt_cycle", c.cycle, 255)
          \o Times(c.cycle, Se("offset_for_ref_frame")))

CropUnits(c) == IF c.chroma_format \in {0, 3} \/ c.planes THEN 1 ELSE 2

(* crop_unit_x(), crop_unit_y() and the two sizes; c.crop is left, right,   *)
(* top and bottom.                                                          *)
SpsPicture(c) ==
  LET fields == IF c.frame_mbs_only THEN 1 ELSE 2
      crop_y == IF c.chroma_format = 2 THEN fields ELSE fields * CropUnits(c)
      Cropped(base, unit, a, b) == base - (IF c.cropping THEN unit * (c.crop[a] + c.crop[b]) ELSE 0)
  IN  UeMax("max_num_ref_frames", c.ref_frames, 255) \o Flag("gaps_in_frame_num_value_allowed_flag")
      \o Ue("pic_width_in_mbs_minus1") \o Ue("pic_height_in_map_units_minus1")
      \o Flag("frame_mbs_only_flag")
      \o When(~c.frame_mbs_only, Flag("mb_adaptive_frame_field_flag"))
      \o Flag("direct_8x8_inference_flag") \o Flag("frame_cropping_flag")
      \o When(c.cropping, Each(Ue, <<"left_offset", "right_offset", "top_offset", "bottom_offset">>))
      \o Is("pic_width_in_luma_samples", Cropped(c.mbs * 16, CropUnits(c), 1, 2))
      \o Is("pic_height_in_luma_samples", Cropped(c.map_units * 16 * fields, crop_y, 3, 4))
      \o Flag("vui_parameters_present_flag")

VuiDisplay(c) ==
     Flag("aspect_ratio_info_present_flag")
  \o When(c.aspect, U(8, "aspect_ratio_idc")
                    \o When(c.extended_sar, U(16, "sar_width") \o U(16, "sar_height")))
  \o Flag("overscan_info_present_flag") \o When(c.overscan, Flag("overscan_appropriate_flag"))
  \o Flag("video_signal_type_present_flag")
  \o When(c.signal, U(3, "video_format") \o Flag("video_full_range_flag")
                    \o Flag("colour_description_present_flag")
                    \o When(c.colour, Each(LAMBDA n : U(8, n), <<"colour_primaries",
                                 "transfer_characteristics", "matrix_coefficients">>)))
  \o Flag("chroma_loc_info_present_flag")
  \o When(c.location, Each(Ue, <<"chroma_sample_loc_type_top_field",
                                 "chroma_sample_loc_type_bottom_field">>))

HrdParameters(c) ==
     UeMax("cpb_cnt_minus1", c.cpb_cnt - 1, 31) \o U(4, "bit_rate_scale") \o U(4, "cpb_size_scale")
  \o Times(c.cpb_cnt, Ue("bit_rate_value_minus1") \o Ue("cpb_size_value_minus1") \o Flag("cbr_flag"))
  \o Each(LAMBDA n : U(5, n),
          <<"initial_cpb_removal_delay_length_minus1", "cpb_removal_delay_length_minus1",
            "dpb_output_delay_length_minus1", "time_offset_length">>)

VuiDecoder(c) ==
     Flag("timing_info_present_flag")
  \o When(c.timing, U(32, "num_units_in_tick") \o U(32, "time_scale") \o Flag("fixed_frame_rate_flag"))
  \o Flag("nal_hrd_parameters_present_flag") \o When(c.nal, HrdParameters(c))
  \o Flag("vcl_hrd_parameters_present_flag") \o When(c.vcl, HrdParameters(c))
  \o When(c.nal \/ c.vcl, Flag("low_delay_hrd_flag"))
  \o Flag("pic_struct_present_flag") \o Flag("bitstream_restriction_flag")
  \o When(c.restricted,
          Flag("motion_vectors_over_pic_boundaries_flag")
          \o Each(LAMBDA n : UeMax(n, c.most, 16),
                  <<"max_bytes_per_pic_denom", "max_bits_per_mb_denom",
                    "log2_max_mv_length_horizontal", "log2_max_mv_length_vertical",
                    "max_num_reorder_frames", "max_dec_frame_buffering">>))

---------------------------------------------------------------------------
(* Picture parameter set *)

(* The switch over the types has no case for the dispersed groups of type 1. *)
SliceGroupMap(c) ==
  UeMax("slice_group_map_type", c.map_type, 6)
  \o CASE c.map_type = 0 -> Times(c.groups, Ue("run_length_minus1"))
       [] c.map_type = 2 -> Times(c.groups - 1, Ue("top_left") \o Ue("bottom_right"))
       [] c.map_type \in 3 .. 5 -> Flag("slice_group_change_direction_flag")
                                   \o Ue("slice_group_change_rate_minus1")
       [] c.map_type = 6 -> Ue("pic_size_in_map_units_minus1")
                            \o Times(c.map_units, U(CeilLog2(c.groups), "slice_group_id"))
       [] OTHER -> Require(FALSE, "slice_group_map_type")

PpsStart(c) ==
     UeMax("pic_parameter_set_id", c.pps_id, 255) \o UeMax("seq_parameter_set_id", c.sps_id, 31)
  \o Flag("entropy_coding_mode_flag") \o Flag("bottom_field_pic_order_in_frame_present_flag")
  \o UeMax("num_slice_groups_minus1", c.groups - 1, 7) \o When(c.groups > 1, SliceGroupMap(c))

PpsTail(c) ==
     UeMax("num_ref_idx_l0_default_active_minus1", c.default_l0, 31)
  \o UeMax("num_ref_idx_l1_default_active_minus1", c.default_l1, 31)
  \o Flag("weighted_pred_flag") \o U(2, "weighted_bipred_idc")
  \o SeBounded("pic_init_qp_minus26", c.qp) \o SeBounded("pic_init_qs_minus26", c.qs)
  \o SeBounded("chroma_qp_index_offset", c.chroma_offset)
  \o Each(Flag, <<"deblocking_filter_control_present_flag", "constrained_intra_pred_flag",
                  "redundant_pic_cnt_present_flag">>)
  \o When(c.more, Flag("transform_8x8_mode_flag") \o Flag("pic_scaling_matrix_present_flag")
                  \o When(c.matrix, ScalingLists(c))
                  \o SeBounded("second_chroma_qp_index_offset", c.second_offset))
  \o Is("second_chroma_qp_index_offset", IF c.more THEN c.second_offset ELSE 0)

---------------------------------------------------------------------------
(* Slice header *)

SlicePicOrderCnt(c) ==
  LET bottom == c.bottom_present /\ ~c.field
  IN  When(c.poc_type = 0, U(c.lsb_bits, "pic_order_cnt_lsb")
                           \o When(bottom, Se("delta_pic_order_cnt_bottom")))
      \o When(c.poc_type = 1 /\ ~c.always_zero,
              Se("delta_pic_order_cnt") \o When(bottom, Se("delta_pic_order_cnt")))

SliceStart(c) ==
     Ue("first_mb_in_slice") \o UeMax("slice_type", c.raw_type, 9) \o Is("slice_type", c.raw_type % 5)
  \o UeMax("pic_parameter_set_id", c.pps_id, 255) \o U(c.frame_num_bits, "frame_num")
  \o When(~c.frame_mbs_only, Flag("field_pic_flag") \o When(c.field, Flag("bottom_field_flag")))
  \o When(c.idr, Ue("idr_pic_id"))
  \o SlicePicOrderCnt(c)
  \o When(c.redundant, Ue("redundant_pic_cnt"))

(* parse_ref_pic_list_modification(): operations until the one that ends.   *)
ListModification(ops) ==
  Flag("modification_flag")
  \o When(ops # << >>, Loop(Len(ops), LAMBDA k : Ue("reordering_of_pic_nums_idc")
                                                 \o (IF ops[k] = 2 THEN Ue("long_term_pic_num")
                                                     ELSE Ue("abs_diff_pic_num_minus1")))
                       \o Ue("reordering_of_pic_nums_idc"))

(* parse_pred_weight_table(): luma and chroma of one reference together. *)
WeightTable(c, num_l0, num_l1) ==
  LET Entry(i) ==
           Flag("luma_weight_flag") \o When(c.luma[i], Se("luma_weight") \o Se("luma_offset"))
        \o When(c.chroma_format # 0,
                Flag("chroma_weight_flag")
                \o When(c.chroma[i], Times(2, Se("chroma_weight") \o Se("chroma_offset"))))
  IN  Ue("luma_log2_weight_denom") \o When(c.chroma_format # 0, Ue("chroma_log2_weight_denom"))
      \o Loop(num_l0, Entry) \o When(c.type = B, Loop(num_l1, Entry))

SliceReferences(c) ==
  LET num(given, default) == IF c.override THEN given ELSE default
      l0 == num(c.l0, c.default_l0) + 1
      l1 == IF c.type = B THEN num(c.l1, c.default_l1) + 1 ELSE 1
  IN  When(c.type = B, Flag("direct_spatial_mv_pred_flag"))
      \o When(c.type \in {P, SP, B},
              Flag("num_ref_idx_active_override_flag")
              \o When(c.override, UeMax("num_ref_idx_l0_active_minus1", c.l0, 31)
                                  \o When(c.type = B, UeMax("num_ref_idx_l1_active_minus1", c.l1, 31)))
              \o ListModification(c.ops) \o When(c.type = B, ListModification(c.ops))
              \o When((c.weighted /\ c.type = P) \/ (c.bipred = 1 /\ c.type = B), WeightTable(c, l0, l1)))

MmcoOperation(op) ==
     Ue("memory_management_control_operation")
  \o When(op \in {1, 3}, Ue("difference_of_pic_nums_minus1"))
  \o When(op = 2, Ue("long_term_pic_num"))
  \o When(op \in {3, 6}, Ue("long_term_frame_idx"))
  \o When(op = 4, Ue("max_long_term_frame_idx_plus1"))

(* parse_dec_ref_pic_marking() *)
DecRefPicMarking(c) ==
  IF c.idr THEN Flag("no_output_of_prior_pics_flag") \o Flag("long_term_reference_flag")
  ELSE Flag("adaptive_ref_pic_marking_mode_flag")
       \o When(c.mmco # << >>, Loop(Len(c.mmco), LAMBDA k : MmcoOperation(c.mmco[k]))
                               \o MmcoOperation(0))

(* The change cycle has the width of the change rate; the fields of SP and  *)
(* SI slices come last, with the switch flag for both.                      *)
SliceTail(c) ==
     When(c.ref_idc # 0, DecRefPicMarking(c))
  \o When(c.cabac /\ c.type \notin {I, SI}, Ue("cabac_init_idc"))
  \o SeBounded("slice_qp_delta", c.qp_delta)
  \o When(c.deblocking, Ue("disable_deblocking_filter_idc")
                        \o When(c.deblocking_idc # 1,
                                SeBounded("slice_alpha_c0_offset_div2", c.filter_offset)
                                \o SeBounded("slice_beta_offset_div2", c.filter_offset)))
  \o When(c.groups > 1 /\ c.map_type \in 3 .. 5,
          U(CeilLog2(c.change_rate), "slice_group_change_cycle"))
  \o When(c.type \in {SP, SI}, Flag("sp_for_switch_flag") \o SeBounded("slice_qs_delta", c.qs_delta))

---------------------------------------------------------------------------
(* What an encoder may choose, part by part.  The quantisers of samples of *)
(* 14 bits go down to -36, those of 8 bits to 0.                           *)

Starts == [part : {"avc_sps", "avc_pps", "avc_slice"}, fields : {<< >>}]

(* Of the scaling lists, at most the first of each size is coded. *)
ListChoices ==
  {[i \in 1 .. 12 |-> IF i \in {1, 7} THEN kinds[i] ELSE "absent"] :
     kinds \in [{1, 7} -> IF Uses("avc_scaling_lists") THEN {"absent", "coded", "stopped", "default"}
                          ELSE {"absent"}]}

---------------------------------------------------------------------------
(* Sequence parameter set *)

SpsStartChoices ==
  {c \in [profile : {66, 77, 100, 118, 244}, chroma_format : 0 .. 3, sps_id : {0, 31}, depth : {0, 6},
          matrix : BOOLEAN, lists : ListChoices] :
     c.matrix /\ c.chroma_format = 3 => Uses("avc_large_lists")}

ParseSpsStart == Part("avc_sps", "avc_sps_order", {}, SpsStartChoices, SpsStart, WritesSpsStart)

ParseSpsPicOrderCnt ==
  Part("avc_sps_order", "avc_sps_picture", {},
    [poc_type : 0 .. 2, frame_num_bits : {4, 16}, lsb_bits : {4, 16}, cycle : 0 .. 2],
    SpsPicOrderCnt, WritesSpsPicOrderCnt)

SpsPictureChoices ==
  {c \in [ref_frames : {0, 16}, chroma_format : 0 .. 3, planes : BOOLEAN, mbs : 1 .. 2,
          map_units : 1 .. 2, frame_mbs_only : BOOLEAN, cropping : BOOLEAN,
          crop : [1 .. 4 -> {0, 2}]] :
     /\ c.planes => c.chroma_format = 3
     /\ ~c.cropping => \A k \in 1 .. 4 : c.crop[k] = 0}

ParseSpsPicture ==
  \E vui \in BOOLEAN :
    Part("avc_sps_picture", IF vui THEN "avc_vui" ELSE "done", {}, SpsPictureChoices,
      SpsPicture, WritesSpsPicture)

ParseVuiDisplay ==
  Part("avc_vui", "avc_vui_decoder", {},
    [aspect : BOOLEAN, extended_sar : BOOLEAN, overscan : BOOLEAN, signal : BOOLEAN,
     colour : BOOLEAN, location : BOOLEAN],
    VuiDisplay, WritesVuiDisplay)

ParseVuiDecoder ==
  Part("avc_vui_decoder", "done", {},
    [timing : BOOLEAN, nal : BOOLEAN, vcl : BOOLEAN, cpb_cnt : {1, 2, 32}, restricted : BOOLEAN,
     most : {0, 16}],
    VuiDecoder, WritesVuiDecoder)

---------------------------------------------------------------------------
(* Picture parameter set *)

(* The evolving maps have two slice groups. *)
PpsStartChoices ==
  {c \in [pps_id : {0, 255}, sps_id : {0, 31}, groups : {1, 2, 3, 8}, map_type : 0 .. 6,
          map_units : {1, 4}] :
     /\ c.map_type \in 3 .. 5 => c.groups = 2
     /\ c.groups > 1 /\ c.map_type = 1 => Uses("avc_dispersed_groups")}

ParsePpsStart == Part("avc_pps", "avc_pps_tail", {}, PpsStartChoices, PpsStart, WritesPpsStart)

PpsTailChoices ==
  {c \in [default_l0 : {0, 31}, default_l1 : {0, 31}, more : BOOLEAN, transform_8x8 : BOOLEAN,
          matrix : BOOLEAN, chroma_format : {1, 3}, lists : ListChoices, chroma_offset : {-2, 0},
          second_offset : {-1, 0}, qp : {-62, -26, 25}, qs : {-26}] :
     /\ c.more /\ c.matrix /\ (~c.transform_8x8 \/ c.chroma_format = 3) => Uses("avc_large_lists")
     /\ ~c.more /\ c.chroma_offset # 0 => Uses("avc_chroma_offset")
     /\ c.qp < -26 => Uses("avc_high_depth_qp")}

ParsePpsTail == Part("avc_pps_tail", "done", {}, PpsTailChoices, PpsTail, WritesPpsTail)

---------------------------------------------------------------------------
(* Slice header *)

SliceStartChoices ==
  {c \in [raw_type : 0 .. 9, pps_id : {255}, planes : BOOLEAN, frame_num_bits : {4, 16},
          frame_mbs_only : BOOLEAN, field : BOOLEAN, idr : BOOLEAN, poc_type : 0 .. 2,
          lsb_bits : {4}, always_zero : BOOLEAN, bottom_present : BOOLEAN, redundant : BOOLEAN] :
     /\ c.field => ~c.frame_mbs_only
     /\ c.planes => Uses("avc_planes")}

ParseSliceStart ==
  Part("avc_slice", "avc_slice_references", {}, SliceStartChoices, SliceStart, WritesSliceStart)

SliceTypes == IF Uses("avc_switching") THEN {P, B, I, SP, SI} ELSE {P, B, I}

SliceReferencesChoices ==
  {c \in [type : SliceTypes, override : BOOLEAN, l0 : {0, 1}, l1 : {0, 2}, default_l0 : {0, 2},
          default_l1 : {1}, ops : {<< >>, <<0>>, <<2, 1>>}, weighted : BOOLEAN, bipred : 0 .. 2,
          chroma_format : {0, 1, 3}, planes : BOOLEAN,
          luma : {[k \in 1 .. 3 |-> k # 2]}, chroma : {[k \in 1 .. 3 |-> k = 2]}] :
     c.planes => c.chroma_format = 3 /\ Uses("avc_planes")}

ParseSliceReferences ==
  Part("avc_slice_references", "avc_slice_tail", {}, SliceReferencesChoices,
    SliceReferences, WritesSliceReferences)

SliceTailChoices ==
  {c \in [type : SliceTypes, ref_idc : 0 .. 1, idr : BOOLEAN,
          mmco : {<< >>, <<1, 2, 3>>, <<4, 6>>, <<5>>}, cabac : BOOLEAN, deblocking : BOOLEAN,
          deblocking_idc : 0 .. 2, groups : 1 .. 2, map_type : {0, 3, 5}, change_rate : {1, 2, 4},
          map_units : {4, 6}, qp_delta : {-87, -51, 51}, filter_offset : {-6}, qs_delta : {51}] :
     /\ c.groups > 1 /\ c.map_type # 0 => Uses("avc_change_cycle")
     /\ c.qp_delta < -51 => Uses("avc_high_depth_qp")}

ParseSliceTail ==
  Part("avc_slice_tail", "done", {}, SliceTailChoices, SliceTail, WritesSliceTail)

---------------------------------------------------------------------------

ParseHeaders ==
  \/ ParseSpsStart \/ ParseSpsPicOrderCnt \/ ParseSpsPicture
  \/ ParseVuiDisplay \/ ParseVuiDecoder \/ ParsePpsStart \/ ParsePpsTail
  \/ ParseSliceStart \/ ParseSliceReferences \/ ParseSliceTail
=============================================================================
