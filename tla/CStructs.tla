------------------------------ MODULE CStructs ------------------------------
(***************************************************************************)
(* What the C mirrors of the parsed structures own on the heap             *)
(* (capi/bs_structs_conv.hpp, bs_structs_free.hpp).  bs_conv() fills a     *)
(* mirror: every std::vector becomes an array of its own, every nested     *)
(* structure is converted in place.  Scalars are left out, and so are      *)
(* structures without an array anywhere in them.                           *)
(*                                                                         *)
(* A block is named by its path: the members that lead to the pointer.     *)
(* The elements of an array are represented by one of them.                *)
(***************************************************************************)
EXTENDS Sequences

(* arrays: the pointers of the structure itself; parts: its nested ones.   *)
Mirror(arrays, parts) ==
  LET own == {<<a>> : a \in arrays}
  IN [own |-> own,
      all |-> own \cup UNION {{<<m>> \o p : p \in parts[m].all} : m \in DOMAIN parts}]

Flat == <<>>   \* no nested structure that owns anything

-----------------------------------------------------------------------------
(* H.264 *)

BsAvcRefPicListModification == Mirror({"ops"}, Flat)

BsAvcSliceGroupMap == Mirror({"slice_group_id"}, Flat)

BsAvcSliceHeader ==
  Mirror({"mmco_operations"},
         [ref_pic_list_modification_l0 |-> BsAvcRefPicListModification,
          ref_pic_list_modification_l1 |-> BsAvcRefPicListModification])

BsAvcPictureParameterSet == Mirror({}, [slice_group_map |-> BsAvcSliceGroupMap])

BsAvcSequenceParameterSet == Mirror({}, Flat)

-----------------------------------------------------------------------------
(* H.265 *)

BsHevcInterRpsPrediction == Mirror({"entries"}, Flat)

BsHevcPps3dExtensionDepthLayerTransform == Mirror({"dlt_value_flag"}, Flat)

BsHevcPps3dExtension ==
  Mirror({"depth_layer_transforms"},
         [depth_layer_transforms |-> BsHevcPps3dExtensionDepthLayerTransform])

BsHevcPpsColourMappingOctant == Mirror({"partition_coded_res_flags"}, Flat)

BsHevcPpsMultilayerExtension ==
  Mirror({"ref_location_offsets", "cm_ref_layer_id", "colour_mapping_octants"},
         [colour_mapping_octants |-> BsHevcPpsColourMappingOctant])

BsHevcPpsRangeExtension == Mirror({"cb_qp_offset_list", "cr_qp_offset_list"}, Flat)

BsHevcPpsTileConfiguration == Mirror({"column_width_minus1", "row_height_minus1"}, Flat)

BsHevcPredictionWeightTable == Mirror({"l0", "l1"}, Flat)

BsHevcRefPicListModification == Mirror({"list_entry"}, Flat)

BsHevcRefPicListModificationData ==
  Mirror({}, [list0 |-> BsHevcRefPicListModification, list1 |-> BsHevcRefPicListModification])

BsHevcShortTermRefPicSet ==
  Mirror({"negative_pics", "positive_pics"}, [inter_prediction |-> BsHevcInterRpsPrediction])

BsHevcSliceEntryPointOffsets == Mirror({"entry_point_offset_minus1"}, Flat)

BsHevcSliceHeaderExtension == Mirror({"data"}, Flat)

BsHevcSliceReferencePictureInfo == Mirror({}, [list_modification |-> BsHevcRefPicListModificationData])

BsHevcSliceSegmentHeader ==
  Mirror({"slice_reserved_flag", "long_term_references"},
         [short_term_ref_pic_set  |-> BsHevcShortTermRefPicSet,
          reference_pictures      |-> BsHevcSliceReferencePictureInfo,
          prediction_weight_table |-> BsHevcPredictionWeightTable,
          entry_points            |-> BsHevcSliceEntryPointOffsets,
          extension               |-> BsHevcSliceHeaderExtension])

BsHevcSpsReferencePictureSetParameters ==
  Mirror({"short_term_ref_pic_sets", "lt_ref_pic_poc_lsb_sps", "used_by_curr_pic_lt_sps_flag"},
         [short_term_ref_pic_sets |-> BsHevcShortTermRefPicSet])

BsHevcSubLayerHrdParameters == Mirror({"cpb_entries"}, Flat)

BsHevcHrdSubLayer == Mirror({}, [nal |-> BsHevcSubLayerHrdParameters, vcl |-> BsHevcSubLayerHrdParameters])

BsHevcHrdParameters == Mirror({}, [sub_layers |-> BsHevcHrdSubLayer])

BsHevcVuiParameters == Mirror({}, [hrd |-> BsHevcHrdParameters])

BsHevcVpsLayerSet == Mirror({"layer_id_included_flag", "layer_ids"}, Flat)

BsHevcVpsHrdParameter == Mirror({}, [hrd |-> BsHevcHrdParameters])

BsHevcVpsTimingInfo == Mirror({"hrd_parameters"}, [hrd_parameters |-> BsHevcVpsHrdParameter])

BsHevcVideoParameterSet ==
  Mirror({"layer_sets"}, [layer_sets |-> BsHevcVpsLayerSet, timing |-> BsHevcVpsTimingInfo])

BsHevcPictureParameterSet ==
  Mirror({}, [tiles                |-> BsHevcPpsTileConfiguration,
              range_extension      |-> BsHevcPpsRangeExtension,
              multilayer_extension |-> BsHevcPpsMultilayerExtension,
              three_d_extension    |-> BsHevcPps3dExtension])

BsHevcSequenceParameterSet ==
  Mirror({}, [reference_picture_sets |-> BsHevcSpsReferencePictureSetParameters,
              vui                    |-> BsHevcVuiParameters])

-----------------------------------------------------------------------------
(* H.266 *)

BsVvcDci == Mirror({}, Flat)

BsVvcOpi == Mirror({}, Flat)

BsVvcVideoParameterSet ==
  Mirror({"layer_ids", "independent_layer_flag", "pt_present_flag", "ptl_max_tid", "ols_ptl_idx"}, Flat)

BsVvcSequenceParameterSet ==
  Mirror({"virtual_boundary_pos_x_minus1", "virtual_boundary_pos_y_minus1"}, Flat)

BsVvcPictureParameterSet ==
  Mirror({"subpic_id", "tile_column_width_minus1", "tile_row_height_minus1", "col_width_val",
          "row_height_val", "slice_width_in_tiles_minus1", "slice_height_in_tiles_minus1",
          "num_exp_slices_in_tile", "tile_idx_delta_val", "slice_top_left_tile_idx",
          "num_slices_in_tile", "slice_height_in_ctus", "cb_qp_offset_list", "cr_qp_offset_list",
          "joint_cbcr_qp_offset_list"}, Flat)

BsVvcPictureHeaderRefPicListsList ==
  Mirror({"entries", "poc_lsb_lt", "delta_poc_msb_cycle_present_flag", "delta_poc_msb_cycle_lt"}, Flat)

BsVvcPictureHeaderRefPicLists == Mirror({}, [rpl |-> BsVvcPictureHeaderRefPicListsList])

BsVvcPictureHeader ==
  Mirror({"extra_bits", "alf_aps_id_luma", "virtual_boundary_pos_x_minus1",
          "virtual_boundary_pos_y_minus1", "extension_data"},
         [ref_pic_lists |-> BsVvcPictureHeaderRefPicLists])

BsVvcSliceHeader ==
  Mirror({"extra_bits", "alf_aps_id_luma", "slice_header_extension_data", "entry_point_offset_minus1"},
         [ph |-> BsVvcPictureHeader, ref_pic_lists |-> BsVvcPictureHeaderRefPicLists])

-----------------------------------------------------------------------------
(* AV1, VP9, VP8: arrays of fixed size only. *)

BsAv1SequenceHeader == Mirror({}, Flat)

BsAv1FrameHeader == Mirror({}, Flat)

BsVp9FrameHeader == Mirror({}, Flat)

BsVp8FrameHeader == Mirror({}, Flat)

-----------------------------------------------------------------------------
(* What bs_conv() allocates, and what bs_free_...() deletes: the arrays of *)
(* the structure it is called for, not those of its parts.                 *)
Allocated(mirror) == mirror.all
Released(mirror)  == mirror.own
=============================================================================
