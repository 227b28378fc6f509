---------------------------- MODULE HeaderSyntax ----------------------------
(* Reading the headers of a stream: the parameter sets, the slice headers  *)
(* and the lists of reference pictures of HEVC, AVC and VVC, under them    *)
(* the bits, the codes and the SEI messages of a NAL unit, and the frame   *)
(* headers of AV1, VP9 and VP8.                                            *)
EXTENDS HevcSliceReading, HevcParameterSetReading, RbspReading

Vvc == INSTANCE VvcPictureReading
Avc == INSTANCE AvcReading
Aom == INSTANCE AomReading

(* Where a parser and its standard part ways: an encoder that uses none of *)
(* these writes headers that are read right.                               *)
HevcTools == {"long_term_sps", "cabac_init_intra", "unfiltered_slices", "colour_planes",
              "interleaved_weights", "range_extension", "screen_content",
              "dependent_entry_points", "chained_sets", "flagged_itself",
              "sub_layers", "shared_hrd", "depth_tables"}

VvcTools == {"vui", "many_lists", "sublayer_hrd", "tall_picture", "last_tile_split",
             "deblocking_override", "uni_prediction", "subpicture_slices",
             "whole_picture_slice", "unpartitioned_rows"}

AvcTools == {"avc_scaling_lists", "avc_large_lists", "avc_chroma_offset", "avc_planes",
             "avc_switching", "avc_change_cycle", "avc_sei_messages", "avc_dispersed_groups",
             "avc_high_depth_qp"}

AomTools == {"av1_plain_bits", "av1_still_tier", "av1_default_colours", "av1_layers",
             "av1_superres_shown", "av1_widest_frame", "av1_found_reference",
             "av1_low_quantizer", "av1_kept_parameters", "av1_skip_mode",
             "av1_inter_motion", "vp9_intra_only"}

ASSUME ToolsAssumption == Tools \subseteq HevcTools \cup VvcTools \cup AvcTools \cup AomTools

Init ==
  InitAt(SliceStarts \cup SetStarts \cup ParameterSetStarts
         \cup Vvc!PictureStarts \cup Vvc!ParameterSetStarts
         \cup Avc!Starts \cup Aom!Starts \cup RbspStarts)

Next ==
  \/ ParseSlice \/ ParseReferenceSets \/ ParseParameterSets
  \/ Vvc!ParsePictureHeader \/ Vvc!ParseSlice \/ Vvc!ParseParameterSets
  \/ Avc!ParseHeaders \/ Aom!ParseHeaders \/ ParseBytes
  \/ Forget

Spec == Init /\ [][Next]_vars
============================================================================
