-------------------------- MODULE HevcSliceReading --------------------------
(* The slice segment header as parse_slice_segment_header() reads it: one  *)
(* operator per function or part of it, from the fields c (those of the    *)
(* header, of its SPS and of its PPS) to the elements that are read and    *)
(* the values the header then holds (src/parser/hevc_slice_parser.hpp).    *)
(* Below, one action per part, with the fields that an encoder may choose  *)
(* there.                                                                  *)
EXTENDS SyntaxReading, H265Syntax

B == 0
P == 1
I == 2

---------------------------------------------------------------------------
(* Sizes in coding tree blocks, and the width of an address among them.    *)

InCtbs(samples, ctb) == (samples + ctb - 1) \div ctb
PicSizeInCtbs(c) == InCtbs(c.width, c.ctb) * InCtbs(c.height, c.ctb)

SegmentStart(c) ==
     Flag("first_slice_segment_in_pic_flag")
  \o When(c.irap, Flag("no_output_of_prior_pics_flag"))
  \o Ue("slice_pic_parameter_set_id")
  \o When(~c.first /\ c.dependent_enabled, Flag("dependent_slice_segment_flag"))
  \o When(~c.first, U(CeilLog2(PicSizeInCtbs(c)), "slice_segment_address"))

SliceKind(c) ==
     Loop(c.extra_bits, LAMBDA i : Flag("slice_reserved_flag"))
  \o Ue("slice_type")
  \o Require(c.type <= 2, "slice_type")
  \o When(c.output_present, Flag("pic_output_flag"))
  \o Is("pic_output_flag", c.output_present => c.output)
  \o When(c.planes, U(2, "colour_plane_id"))

(* Without a choice of sets the index has no bits. *)
ReferenceSetChoice(c) ==
     U(c.lsb_bits, "slice_pic_order_cnt_lsb")
  \o Flag("short_term_ref_pic_set_sps_flag")
  \o When(c.from_sps /\ c.sets > 1,
          U(CeilLog2(c.sets), "short_term_ref_pic_set_idx"))
  \o Require(c.from_sps => c.sets <= 1 \/ c.idx < c.sets, "short_term_ref_pic_set_idx")

(* parse_long_term_references(): an entry that comes from the SPS is read  *)
(* with an LSB and a flag of its own as well.                              *)
LongTermReferences(c) ==
  LET Entry(i) == When(i <= c.from_sps, U(CeilLog2(c.sps_count), "lt_idx_sps"))
                  \o U(c.lsb_bits, "poc_lsb_lt")
                  \o Flag("used_by_curr_pic_lt_flag")
                  \o Flag("delta_poc_msb_present_flag")
                  \o When(c.msb[i], Ue("delta_poc_msb_cycle_lt"))
  IN  When(c.long_term_present,
           When(c.sps_count # 0, Ue("num_long_term_sps"))
           \o Require(c.from_sps <= c.sps_count, "num_long_term_sps")
           \o Ue("num_long_term_pics")
           \o Loop(c.from_sps + c.own, Entry))

TemporalMvp(c) ==
     When(~c.idr /\ c.sps_temporal_mvp, Flag("slice_temporal_mvp_enabled_flag"))
  \o Is("slice_temporal_mvp_enabled_flag", ~c.idr /\ c.sps_temporal_mvp /\ c.tmvp)

SampleAdaptiveOffset(c) ==
     When(c.sao_enabled, Flag("slice_sao_luma_flag")
                         \o When(c.chroma_format # 0, Flag("slice_sao_chroma_flag")))
  \o Is("slice_sao_luma_flag", c.sao_enabled /\ c.sao_luma)
  \o Is("slice_sao_chroma_flag", c.sao_enabled /\ c.chroma_format # 0 /\ c.sao_chroma)

(* derive_slice_reference_counts(): <<L0, L1>> *)
ReferenceCounts(c) ==
  IF c.type = I THEN <<0, 0>>
  ELSE LET n == IF c.override THEN c.active ELSE c.default
       IN  <<n[1], IF c.type = P THEN 0 ELSE n[2]>>

ReferenceCountsRead(c) ==
     When(c.type \in {P, B},
          Flag("num_ref_idx_active_override_flag")
          \o When(c.override,
                  Ue("num_ref_idx_l0_active_minus1")
                  \o When(c.type = B, Ue("num_ref_idx_l1_active_minus1"))))
  \o Is("num_ref_idx_active", ReferenceCounts(c))

(* parse_ref_pic_list_modification() *)
ListModification(c) ==
  LET List(flag, modified, n) ==
        Flag(flag) \o When(modified, Loop(n, LAMBDA i : U(CeilLog2(c.total), "list_entry")))
  IN  When(c.lists_modification_present /\ c.total > 1 /\ c.type \in {P, B},
           List("ref_pic_list_modification_flag_l0", c.modified[1], c.n[1])
           \o When(c.type = B,
                   List("ref_pic_list_modification_flag_l1", c.modified[2], c.n[2])))

(* The CABAC table may be swapped for every slice, an intra one as well. *)
MvdAndCabac(c) ==
     When(c.type = B, Flag("mvd_l1_zero_flag"))
  \o When(c.cabac_init_present, Flag("cabac_init_flag"))

Collocated(c) ==
  LET fromL0 == c.type # B \/ c.from_l0
  IN  When(c.tmvp,
           When(c.type = B, Flag("collocated_from_l0_flag"))
           \o When(c.n[IF fromL0 THEN 1 ELSE 2] > 1, Ue("collocated_ref_idx")))
      \o Is("collocated_from_l0_flag", c.tmvp => fromL0)

(* parse_prediction_weight_table(): of each list first every weight of     *)
(* luma, then every weight of chroma.                                      *)
WeightTable(c) ==
  LET chroma == c.chroma_format # 0
      Weights(n, luma, both) ==
           Loop(n, LAMBDA i : Flag("luma_weight_flag"))
        \o When(chroma, Loop(n, LAMBDA i : Flag("chroma_weight_flag")))
        \o Loop(n, LAMBDA i : When(luma[i], Se("delta_luma_weight") \o Se("luma_offset")))
        \o When(chroma,
                Loop(n, LAMBDA i :
                  When(both[i], Loop(2, LAMBDA j : Se("delta_chroma_weight")
                                                   \o Se("delta_chroma_offset")))))
  IN  When((c.type = P /\ c.weighted_pred) \/ (c.type = B /\ c.weighted_bipred),
           Ue("luma_log2_weight_denom")
           \o When(chroma, Se("delta_chroma_log2_weight_denom")
                           \o Require(c.denominator \in 0 .. 7, "chroma_log2_weight_denom"))
           \o Weights(c.n[1], c.luma[1], c.chroma[1])
           \o When(c.type = B, Weights(c.n[2], c.luma[2], c.chroma[2])))

MergeAndQp(c) ==
     When(c.type # I, Ue("five_minus_max_num_merge_cand"))
  \o Require(c.type = I \/ c.five_minus <= 5, "five_minus_max_num_merge_cand")
  \o Is("five_minus_max_num_merge_cand", IF c.type = I THEN 0 ELSE c.five_minus)
  \o Se("slice_qp_delta")
  \o When(c.chroma_qp_offsets_present, Se("slice_cb_qp_offset") \o Se("slice_cr_qp_offset"))

Deblocking(c) ==
  LET own == c.control_present /\ c.override_enabled /\ c.override
  IN  When(c.control_present /\ c.override_enabled, Flag("deblocking_filter_override_flag"))
      \o When(own,
              Flag("slice_deblocking_filter_disabled_flag")
              \o When(~c.disabled, Se("slice_beta_offset_div2") \o Se("slice_tc_offset_div2")))
      \o Is("slice_deblocking_filter_disabled_flag",
            c.control_present /\ (IF own THEN c.disabled ELSE c.pps_disabled))

(* Read whenever the PPS allows it; false where it is not read. *)
FilterAcross(c) ==
     When(c.pps_across, Flag("slice_loop_filter_across_slices_enabled_flag"))
  \o Is("slice_loop_filter_across_slices_enabled_flag", c.pps_across /\ c.across)

(* parse_entry_point_offsets() and parse_slice_header_extension() *)
EntryPoints(c) ==
  When(c.tiles \/ c.entropy_sync,
       Ue("num_entry_point_offsets")
       \o When(c.entries # 0,
               Ue("offset_len_minus1")
               \o Require(c.offset_len <= 32, "offset_len_minus1")
               \o Loop(c.entries, LAMBDA i : U(c.offset_len, "entry_point_offset_minus1"))))

SliceExtension(c) ==
  When(c.extension_present,
       Ue("slice_segment_header_extension_length")
       \o Loop(c.extension, LAMBDA i : U(8, "slice_segment_header_extension_data_byte")))

---------------------------------------------------------------------------
(* Short-term reference picture sets: how the SPS and the slice header     *)
(* read them, and the two derivations of a predicted set that the code     *)
(* has, for the number of flags of the next set                            *)
(* (src/parser/hevc_sps_parser.hpp) and for the pictures of a slice        *)
(* (src/parser/hevc_reference_picture_manager.hpp).                        *)
(*                                                                         *)
(* A stored set is [inter, neg, pos, ref, delta, entries]: neg and pos are *)
(* sequences of pictures [delta, used], entries are the flags of a         *)
(* predicted set, each "used", "kept" (not used by this picture) or        *)
(* "dropped"; ref numbers the reference set from 1.                        *)

(* derive_explicit_rps(): the running sum of the deltas, away from zero. *)
DerivedPics(deltas, used, sign) ==
  [i \in DOMAIN deltas |->
     [delta |-> sign * FoldLeft(+, 0, SubSeq(deltas, 1, i)), used |-> used[i]]]

Stored(c) ==
  IF c.inter
  THEN [inter |-> TRUE, neg |-> << >>, pos |-> << >>, ref |-> c.ref, delta |-> c.delta,
        entries |-> c.entries]
  ELSE [inter |-> FALSE, neg |-> DerivedPics(c.neg, c.neg_used, -1),
        pos |-> DerivedPics(c.pos, c.pos_used, 1), ref |-> 0, delta |-> 0, entries |-> << >>]

Picked(entry) == entry # "dropped"

(* derive_rps_references_recursive(): the pictures of set i, in the order  *)
(* of the set it is predicted from, with the reference picture itself at   *)
(* the end.                                                                *)
SpsReferences(sets, index) ==
  LET refs[i \in DOMAIN sets] ==
        LET s == sets[i]
            old == IF s.inter THEN refs[s.ref] ELSE << >>
            Moved(j) == [delta |-> old[j].delta + s.delta, used |-> s.entries[j] = "used"]
            last == s.entries[Len(s.entries)]
        IN  IF ~s.inter THEN s.neg \o s.pos
            ELSE FlattenSeq([j \in DOMAIN old |->
                               IF Picked(s.entries[j]) /\ Moved(j).delta # 0
                               THEN <<Moved(j)>> ELSE << >>])
                 \o (IF Picked(last) /\ s.delta # 0
                     THEN << [delta |-> s.delta, used |-> last = "used"] >> ELSE << >>)
  IN  refs[index]

(* sps_rps_num_delta_pocs(), and the count a slice's own set ends up with. *)
NumDeltaPocs(sets, index) == Len(SpsReferences(sets, index))

(* parse_short_term_ref_pic_set() of the SPS and of the slice header: a set *)
(* names its reference only in the slice.                                  *)
RefPicSet(sets, c) ==
  LET Pic(i) == Ue("delta_poc_minus1") \o Flag("used_by_curr_pic_flag")
      Entry(j) == Flag("used_by_curr_pic_flag")
                  \o When(c.entries[j] # "used", Flag("use_delta_flag"))
  IN  When(Len(sets) # 0, Flag("inter_ref_pic_set_prediction_flag"))
      \o IF c.inter
         THEN When(c.in_slice, Ue("delta_idx_minus1")
                               \o Require(c.ref \in 1 .. Len(sets), "delta_idx_minus1"))
              \o Flag("delta_rps_sign") \o Ue("abs_delta_rps_minus1")
              \o Loop(NumDeltaPocs(sets, c.ref) + 1, Entry)
         ELSE Ue("num_negative_pics") \o Ue("num_positive_pics")
              \o Loop(Len(c.neg), Pic) \o Loop(Len(c.pos), Pic)

(* Fault: the last flag of a predicted set, which stands for the reference *)
(* picture itself, is passed over.                                         *)
SlicePicturesWithoutReference(sets, s) ==
  LET old == IF s.inter THEN sets[s.ref].neg \o sets[s.ref].pos ELSE << >>
  IN  IF ~s.inter THEN ToSet(s.neg \o s.pos)
      ELSE {[delta |-> old[j].delta + s.delta, used |-> s.entries[j] = "used"] :
              j \in {i \in DOMAIN old : Picked(s.entries[i])}}

(* build_explicit_short_term_list() and build_inter_predicted_list(): the  *)
(* pictures of a set for a slice.  The manager takes the reference set's   *)
(* own pictures, of which a predicted set has none.                        *)
SlicePictures(sets, s) ==
  LET old == IF s.inter THEN sets[s.ref].neg \o sets[s.ref].pos ELSE << >>
      Of(j) == [delta |-> (IF j <= Len(old) THEN old[j].delta ELSE 0) + s.delta,
                used |-> s.entries[j] = "used"]
  IN  IF ~s.inter THEN ToSet(s.neg \o s.pos)
      ELSE {Of(j) : j \in {i \in 1 .. Len(old) + 1 :
                             i <= Len(s.entries) /\ Picked(s.entries[i])}}

(* derive_num_poc_total_curr(): and the long-term pictures the slice uses. *)
NumPicTotalCurr(pictures, longTerm) == Cardinality({p \in pictures : p.used}) + longTerm

---------------------------------------------------------------------------
(* What an encoder may choose, part by part: the slice segment header.  *)

SliceStarts ==
  [part : {"slice_segment"}, fields : {[irap |-> TRUE, idr |-> TRUE], [irap |-> TRUE, idr |-> FALSE],
                                       [irap |-> FALSE, idr |-> FALSE]}]

ParseSegmentStart ==
  \E dependent \in BOOLEAN :
    Part("slice_segment", IF dependent THEN "dependent_entry_points" ELSE "slice_kind", {"irap", "idr"},
      {c \in [first : BOOLEAN, dependent_enabled : BOOLEAN, dependent : {dependent},
              width : {16, 24, 40}, height : {8, 24}, ctb : {16}] :
         c.dependent => c.dependent_enabled /\ ~c.first},
      SegmentStart, WritesSegmentStart)

(* The parser returns before the parts that a dependent segment has left. *)
ParseDependentSegment ==
  Part("dependent_entry_points", "done", {},
    {c \in [tiles : BOOLEAN, entropy_sync : {FALSE}, entries : {0, 2}, offset_len : {4}] :
       c.tiles => Uses("dependent_entry_points")},
    LAMBDA c : << >>, WritesEntryPoints)

ParseSliceKind ==
  Part("slice_kind", "slice_references", {"idr", "type", "planes", "chroma_format"},
    {c \in [type : {B, P, I}, extra_bits : 0 .. 2, output_present : BOOLEAN, output : BOOLEAN,
            planes : BOOLEAN, chroma_format : {0, 1, 3}] :
       /\ carry.irap => c.type = I
       /\ c.output \/ c.output_present
       /\ c.planes => c.chroma_format = 3 /\ Uses("colour_planes")},
    SliceKind, WritesSliceKind)

SliceFields == {"idr", "type", "planes", "chroma_format"}

ParseReferenceSetChoice ==
  Part("slice_references", "slice_long_term", SliceFields,
    {c \in [lsb_bits : {4}, from_sps : BOOLEAN, sets : 0 .. 5, idx : 0 .. 4] :
       IF c.from_sps THEN c.idx < c.sets ELSE c.idx = 0},
    LAMBDA c : When(~c.idr, ReferenceSetChoice(c)),
    LAMBDA c : When(~c.idr, WritesReferenceSetChoice(c)))

ParseLongTermReferences ==
  Part("slice_long_term", "slice_tmvp", SliceFields,
    {c \in [long_term_present : BOOLEAN, sps_count : 0 .. 3, lsb_bits : {4}, from_sps : 0 .. 2,
            own : 0 .. 2, msb : [1 .. 4 -> BOOLEAN]] :
       /\ c.from_sps <= c.sps_count
       /\ c.from_sps > 0 => Uses("long_term_sps")},
    LAMBDA c : When(~c.idr, LongTermReferences(c)),
    LAMBDA c : When(~c.idr, WritesLongTermReferences(c)))

ParseTemporalMvp ==
  Part("slice_tmvp", "slice_sao", SliceFields \cup {"tmvp"},
    {c \in [sps_temporal_mvp : BOOLEAN, tmvp : BOOLEAN] :
       c.tmvp => c.sps_temporal_mvp /\ ~carry.idr},
    TemporalMvp, WritesTemporalMvp)

Coded == SliceFields \cup {"tmvp", "sao_luma", "sao_chroma"}

ParseSampleAdaptiveOffset ==
  Part("slice_sao", "slice_counts", Coded,
    {c \in [sao_enabled : BOOLEAN, sao_luma : BOOLEAN, sao_chroma : BOOLEAN] :
       /\ c.sao_luma \/ c.sao_chroma => c.sao_enabled
       /\ c.sao_chroma => ChromaArrayType(carry) # 0},
    SampleAdaptiveOffset, WritesSampleAdaptiveOffset)

(* The counts in force: n, as derived. *)
ParseReferenceCounts ==
  Part("slice_counts", "slice_lists", Coded \cup {"n"},
    {[override |-> o, active |-> a, default |-> d, n |-> ReferenceCounts(
        [type |-> carry.type, override |-> o, active |-> a, default |-> d])] :
       o \in BOOLEAN, a \in [1 .. 2 -> 1 .. 2], d \in [1 .. 2 -> 1 .. 2]},
    ReferenceCountsRead, WritesReferenceCounts)

ParseListModification ==
  Part("slice_lists", "slice_mvd_cabac", Coded \cup {"n"},
    [lists_modification_present : BOOLEAN, total : 1 .. 4, modified : [1 .. 2 -> BOOLEAN]],
    ListModification, WritesListModification)

ParseMvdAndCabac ==
  Part("slice_mvd_cabac", "slice_collocated", Coded \cup {"n"},
    {c \in [cabac_init_present : BOOLEAN] :
       c.cabac_init_present => carry.type # I \/ Uses("cabac_init_intra")},
    MvdAndCabac, WritesMvdAndCabac)

ParseCollocated ==
  Part("slice_collocated", "slice_weights", Coded \cup {"n"},
    {c \in [from_l0 : BOOLEAN] : c.from_l0 \/ (carry.tmvp /\ carry.type = B)},
    LAMBDA c : When(~(c.tmvp /\ c.type = I), Collocated(c)),
    LAMBDA c : When(~(c.tmvp /\ c.type = I), WritesCollocated(c)))

Interleaves(c) ==
  \E x \in 1 .. 2 : \E i, j \in 1 .. 2 : i < j /\ c.chroma[x][i] /\ c.luma[x][j]

ParseWeightTable ==
  Part("slice_weights", "slice_qp", Coded,
    {c \in [weighted_pred : BOOLEAN, weighted_bipred : BOOLEAN, denominator : {0, 7},
            luma : [1 .. 2 -> [1 .. 2 -> BOOLEAN]], chroma : [1 .. 2 -> [1 .. 2 -> BOOLEAN]]] :
       Interleaves(c) => Uses("interleaved_weights")},
    WeightTable, WritesWeightTable)

ParseMergeAndQp ==
  Part("slice_qp", "slice_deblocking", Coded,
    {c \in [five_minus : {0, 4}, chroma_qp_offsets_present : BOOLEAN, integer_mv_choice : BOOLEAN,
            act_offsets_present : BOOLEAN, chroma_offset_list : BOOLEAN] :
       /\ carry.type = I => c.five_minus = 0
       /\ c.integer_mv_choice \/ c.act_offsets_present => Uses("screen_content")
       /\ c.chroma_offset_list => Uses("range_extension")},
    MergeAndQp, WritesMergeAndQp)

ParseDeblocking ==
  Part("slice_deblocking", "slice_filter_across", Coded \cup {"disabled"},
    {c \in [control_present : BOOLEAN, override_enabled : BOOLEAN, override : BOOLEAN,
            pps_disabled : BOOLEAN, disabled : BOOLEAN] :
       /\ c.override_enabled \/ c.pps_disabled => c.control_present
       /\ c.override => c.override_enabled
       /\ ~c.override => c.disabled = c.pps_disabled},
    Deblocking, WritesDeblocking)

(* Without the flag a slice filters across as its PPS says. *)
ParseFilterAcross ==
  Part("slice_filter_across", "slice_entry_points", {},
    {c \in [pps_across : BOOLEAN, across : BOOLEAN] :
       LET filters == carry.sao_luma \/ carry.sao_chroma \/ ~carry.disabled
       IN  /\ filters \/ ~c.pps_across \/ Uses("unfiltered_slices")
           /\ ~(filters /\ c.pps_across) => c.across = c.pps_across},
    FilterAcross, WritesFilterAcross)

ParseEntryPoints ==
  Part("slice_entry_points", "slice_extension", {},
    [tiles : BOOLEAN, entropy_sync : BOOLEAN, entries : 0 .. 2, offset_len : {1, 32}],
    EntryPoints, WritesEntryPoints)

ParseSliceExtension ==
  Part("slice_extension", "done", {},
    [extension_present : BOOLEAN, extension : 0 .. 2],
    SliceExtension, WritesSliceExtension)

ParseSlice ==
  \/ ParseSegmentStart \/ ParseDependentSegment \/ ParseSliceKind \/ ParseReferenceSetChoice
  \/ ParseLongTermReferences \/ ParseTemporalMvp \/ ParseSampleAdaptiveOffset
  \/ ParseReferenceCounts \/ ParseListModification \/ ParseMvdAndCabac \/ ParseCollocated
  \/ ParseWeightTable \/ ParseMergeAndQp \/ ParseDeblocking \/ ParseFilterAcross
  \/ ParseEntryPoints \/ ParseSliceExtension

---------------------------------------------------------------------------
(* The sets of an SPS and of a slice.  carry.sets is what the parser keeps,  *)
(* carry.truth the pictures the encoder means, carry.predicted the sets that *)
(* are predicted.                                                            *)

CONSTANTS MaxSets,  \* sets of an SPS before the slice has one of its own
          MaxPics   \* pictures of a set

SetStarts == [part : {"sps_set"}, fields : {[sets |-> << >>, truth |-> << >>]}]

ExplicitChoices(inSlice) ==
  UNION {[inter : {FALSE}, in_slice : {inSlice}, neg : [1 .. n -> {1}], pos : [1 .. p -> {1, 2}],
          neg_used : [1 .. n -> BOOLEAN], pos_used : [1 .. p -> {TRUE}]] :
         <<n, p>> \in {x \in (0 .. MaxPics) \X (0 .. 1) : x[1] + x[2] <= MaxPics}}

(* A flag for a picture that would be the current one says nothing. *)
PredictedChoices(ref, inSlice) ==
  LET pics == PicsOf(carry.truth[ref])
      itself(c) == {j \in DOMAIN pics : pics[j].delta + c.delta = 0}
  IN  {c \in [inter : {TRUE}, in_slice : {inSlice}, ref : {ref}, delta : {-2, -1, 1},
              entries : [1 .. Len(pics) + 1 -> {"used", "kept", "dropped"}]] :
         /\ carry.sets[ref].inter => Uses("chained_sets")
         /\ Len(PicsOf(PredictedSet(carry.truth[ref], c))) <= MaxPics
         /\ \A j \in itself(c) : c.entries[j] = "dropped" \/ Uses("flagged_itself")}

SpsSetChoices ==
  ExplicitChoices(FALSE) \cup
  IF carry.sets = << >> THEN {} ELSE PredictedChoices(Len(carry.sets), FALSE)

ParseSpsSet ==
  /\ at = "sps_set"
  /\ Compared
  /\ Len(carry.sets) < MaxSets
  /\ \E c \in SpsSetChoices :
       LET sets == Append(carry.sets, Stored(c))
           truth == Append(carry.truth, SetWritten(carry.truth, c))
           pics == ToSet(SpsReferences(sets, Len(sets)))
           meant == truth[Len(truth)]
       IN  /\ read' = RefPicSet(carry.sets, c)
                      \o Is("num_negative_pics", Cardinality({x \in pics : x.delta < 0}))
                      \o Is("num_positive_pics", Cardinality({x \in pics : x.delta > 0}))
           /\ wrote' = WritesRefPicSet(carry.truth, c)
                       \o Is("num_negative_pics", Len(meant.before))
                       \o Is("num_positive_pics", Len(meant.after))
           /\ carry' = [sets |-> sets, truth |-> truth]
  /\ UNCHANGED at

(* A slice takes a set of the SPS or has one of its own; of its pictures     *)
(* and its long-term pictures the used ones count.                           *)
CountsPictures(set, meant, Syntax, Written) ==
  \E longTerm \in 0 .. 1 :
    /\ read' = Syntax \o Is("NumPicTotalCurr",
                             NumPicTotalCurr(SlicePictures(carry.sets, set), longTerm))
    /\ wrote' = Written \o Is("NumPicTotalCurr",
                               Cardinality({j \in DOMAIN PicsOf(meant) : PicsOf(meant)[j].used})
                               + longTerm)
    /\ at' = "done"
    /\ carry' = << >>

ParseSliceOwnSet ==
  /\ at = "sps_set"
  /\ Compared
  /\ \E c \in ExplicitChoices(TRUE) \cup
                UNION {PredictedChoices(r, TRUE) : r \in DOMAIN carry.sets} :
       CountsPictures(Stored(c), SetWritten(carry.truth, c),
                      RefPicSet(carry.sets, c), WritesRefPicSet(carry.truth, c))

ParseSliceSpsSet ==
  /\ at = "sps_set"
  /\ Compared
  /\ \E i \in DOMAIN carry.sets :
       CountsPictures(carry.sets[i], carry.truth[i], << >>, << >>)

ParseReferenceSets == ParseSpsSet \/ ParseSliceOwnSet \/ ParseSliceSpsSet
=============================================================================
