----------------------- MODULE VvcParameterSetReading -----------------------
(* The VVC video, sequence and picture parameter sets, the decoding        *)
(* capability and the operating point information, part by part, with the  *)
(* fields that an encoder may choose there.                                *)
EXTENDS SyntaxReading, VvcParameterSetSyntax, H266Syntax

ParameterSetStarts ==
  [part : {"vvc_vps", "vvc_sps", "vvc_pps", "vvc_dci", "vvc_opi"}, fields : {<< >>}]

(* Profiles, and levels of the sub-layers. *)
ProfileChoices ==
  {c \in [constraints : BOOLEAN, additional : {0, 5, 6, 8}, levels : 0 .. 2, sub_profiles : 0 .. 1] :
     c.constraints \/ c.additional = 0}

(* Decoder schedules; du needs one of the first two. *)
TimingChoices ==
  {c \in [nal : BOOLEAN, vcl : BOOLEAN, du : BOOLEAN, general : BOOLEAN, within_cvs : BOOLEAN,
          cpb_cnt : 1 .. 2] : (c.general => c.within_cvs) /\ (c.du => c.nal \/ c.vcl)}

---------------------------------------------------------------------------
(* Video parameter set *)

(* Layers that refer to none, to the one below, or to all below. *)
LayerChoices ==
  {c \in [layers : 1 .. 3, max_sub : 0 .. 1, limited : BOOLEAN, all_independent : BOOLEAN,
          direct : {{}, {<<1, 0>>}, {<<1, 0>>, <<2, 1>>}, {<<2, 0>>}, {<<2, 0>>, <<2, 1>>}}] :
     /\ c.all_independent <=> c.direct = {}
     /\ \A d \in c.direct : d[1] < c.layers}

ParseVpsLayers ==
  Part("vvc_vps", "vvc_vps_ols", {"layers", "all_independent", "direct"},
    LayerChoices, VpsLayers, WritesVpsLayers)

(* Where layers are listed, some set has several of them. *)
OutputSetChoices ==
  {c \in [each_layer : BOOLEAN, mode : 0 .. 2, listed : {1}, output : [{1} -> SUBSET (0 .. 2) \ {{}}]] :
     /\ carry.layers = 1 => c.each_layer
     /\ c.each_layer => carry.all_independent
     /\ c.output[1] \subseteq 0 .. carry.layers - 1
     /\ ~c.each_layer => \E s \in ToSet(LayersOfSets(c @@ carry)) : Cardinality(s) > 1}

ParseVpsOutputLayerSets ==
  Part("vvc_vps_ols", "vvc_vps_profiles",
    {"layers", "all_independent", "direct", "each_layer", "mode", "listed", "output"},
    OutputSetChoices, VpsOutputLayerSets, WritesVpsSets)

ParseVpsProfiles ==
  Part("vvc_vps_profiles", "vvc_vps_schedules",
    {"layers", "all_independent", "direct", "each_layer", "mode", "listed", "output"},
    {[olss |-> Len(LayersOfSets(carry))] @@ c @@ d :
       c \in [ptls : 1 .. 3, default_tid : BOOLEAN, max_sub : {2}, tid : 0 .. 1, profiles : BOOLEAN],
       d \in {[constraints |-> FALSE, additional |-> 0, levels |-> 1, sub_profiles |-> 0]}},
    VpsProfiles, WritesVpsProfiles)

(* A schedule for fewer sub-layers than the stream has. *)
ScheduleChoices ==
  {c @@ d : c \in {s \in [max_sub : 0 .. 1, all_layers : BOOLEAN, default_tid : BOOLEAN, tid : 0 .. 1,
                          dpb_params : 1 .. 2, timing : BOOLEAN, timings : 1 .. 2] :
                     /\ s.tid <= s.max_sub
                     /\ s.timing /\ ~s.default_tid /\ s.tid < s.max_sub => Uses("sublayer_hrd")},
            d \in {t \in TimingChoices : t.nal /\ ~t.vcl /\ ~t.du /\ t.cpb_cnt = 1}}

ParseVpsSchedules ==
  Part("vvc_vps_schedules", "vvc_vps_extension", {}, ScheduleChoices, VpsSchedules, WritesVpsSchedules)

ParseVpsExtension ==
  Part("vvc_vps_extension", "done", {}, [extension : BOOLEAN, data : 0 .. 2],
    VpsExtension, WritesVpsExtension)

---------------------------------------------------------------------------
(* Sequence parameter set *)

SpsStartChoices ==
  {c @@ d : c \in [ptl : BOOLEAN, max_sub : 0 .. 2, resampling : BOOLEAN, window : BOOLEAN],
            d \in ProfileChoices}

ParseSpsStart == Part("vvc_sps", "vvc_sps_subpics", {}, SpsStartChoices, SpsStart, WritesSpsStart)

ParseSpsSubpictures ==
  Part("vvc_sps_subpics", "vvc_sps_coding", {},
    [width : {32, 40, 160}, height : {32, 96}, ctb : {32}, subpic_info : BOOLEAN, subpics : 1 .. 3,
     same_size : BOOLEAN, independent : BOOLEAN, explicit_ids : BOOLEAN, ids : BOOLEAN, id_len : {2}],
    SpsSubpictures, WritesSpsSubpictures)

ParseSpsCoding ==
  Part("vvc_sps_coding", "vvc_sps_tools", {},
    [msb : BOOLEAN, ph_bytes : 0 .. 2, sh_bytes : 0 .. 1, extra_bits : {0, 3}, ptl : BOOLEAN,
     max_sub : 0 .. 2, all_layers : BOOLEAN],
    SpsCoding, WritesSpsCoding)

ParseSpsTools ==
  Part("vvc_sps_tools", "vvc_sps_lists", {},
    [depths : [1 .. 3 -> 0 .. 1], chroma_format : {0, 1}, dual_tree : BOOLEAN, ctb : {32, 64},
     transform_skip : BOOLEAN, mts : BOOLEAN, joint_cbcr : BOOLEAN, same_table : BOOLEAN, points : 1 .. 2],
    LAMBDA c : SpsPartitioning(c) \o SpsTransform(c) \o SpsChromaQp(c), WritesSpsTools)

EntryKinds == {"next", "short", "long", "layer"}

(* The pictures of a list, as far as the SPS knows such pictures. *)
ListsOf(long_term, inter_layer, length) ==
  {l \in UNION {[1 .. n -> EntryKinds] : n \in 0 .. length} :
     \A i \in DOMAIN l : (l[i] = "long" => long_term) /\ (l[i] = "layer" => inter_layer)}

ParseSpsRefPicLists ==
  Part("vvc_sps_lists", "vvc_sps_inter", {},
    {c \in [alf : BOOLEAN, chroma_format : {1}, vps_id : 0 .. 1, rpl1_same : BOOLEAN, weighted : BOOLEAN,
            long_term : BOOLEAN, inter_layer : BOOLEAN, lsb_bits : {4},
            counts : {<<0, 0>>, <<2, 1>>} \cup IF Uses("many_lists") THEN {<<33, 0>>} ELSE {},
            list : [entries : UNION {[1 .. n -> EntryKinds] : n \in 0 .. 2}, in_header : BOOLEAN]] :
       /\ c.list.entries \in ListsOf(c.long_term, c.inter_layer, 2)
       /\ c.inter_layer => c.vps_id > 0
       /\ c.counts[1] = 0 => c.list.entries = << >>},
    LAMBDA c : SpsLoopFilters(c) \o SpsRefPicLists(c), WritesSpsLists)

ParseSpsInter ==
  Part("vvc_sps_inter", "vvc_sps_intra", {},
    [tmvp : BOOLEAN, amvr : BOOLEAN, bdof : BOOLEAN, dmvr : BOOLEAN, mmvd : BOOLEAN, affine : BOOLEAN,
     prof : BOOLEAN, gpm : BOOLEAN, six_minus_merge : {0, 3, 4, 5}],
    SpsInter, WritesSpsInter)

ParseSpsIntra ==
  Part("vvc_sps_intra", "vvc_sps_timing", {},
    [chroma_format : {0, 1, 3}, size_64 : BOOLEAN, transform_skip : BOOLEAN, palette : BOOLEAN,
     ibc : BOOLEAN, ladf : BOOLEAN, intervals : {2, 5}, scaling : BOOLEAN, lfnst : {TRUE}, act : BOOLEAN,
     alternative : BOOLEAN],
    LAMBDA c : SpsIntra(c) \o SpsLadf(c) \o SpsScaling(c), WritesSpsIntra)

SpsTimingChoices ==
  {c @@ d : c \in [boundaries : BOOLEAN, positions : BOOLEAN, vertical : {0, 2}, horizontal : {1},
                   ptl : BOOLEAN, timing : BOOLEAN, max_sub : 0 .. 1, all_layers : BOOLEAN],
            d \in {t \in TimingChoices : ~t.vcl \/ t.nal}}

(* A VUI is read up to the end of its payload. *)
ParseSpsTiming ==
  \E vui \in BOOLEAN :
    Part("vvc_sps_timing", IF vui THEN "vvc_vui" ELSE "vvc_sps_extension", {}, SpsTimingChoices,
      LAMBDA c : SpsVirtualBoundaries(c) \o SpsTiming(c) \o SpsDisplayFlags,
      LAMBDA c : WritesSpsTiming(c) \o WritesSpsDisplayFlags)

ParseVui ==
  Part("vvc_vui", "done", {},
    [aspect : BOOLEAN, extended_sar : BOOLEAN, overscan : BOOLEAN, colour : BOOLEAN, location : BOOLEAN,
     progressive : BOOLEAN, interlaced : BOOLEAN],
    VuiParameters, WritesVui)

(* What is left of an SPS without a VUI, and of one with a VUI.            *)
SpsExtensionChoices ==
  [extension : BOOLEAN, range : BOOLEAN, transform_skip : BOOLEAN, extension_7bits : BOOLEAN, data : 0 .. 2,
   after_vui : IF Uses("vui") THEN BOOLEAN ELSE {FALSE}]

ParseSpsExtension ==
  Part("vvc_sps_extension", "done", {}, SpsExtensionChoices,
    LAMBDA c : IF c.after_vui THEN AfterVui ELSE SpsExtension(c), WritesSpsExtension)

---------------------------------------------------------------------------
(* Picture parameter set *)

ParsePpsStart ==
  \E unpartitioned \in BOOLEAN :
    Part("vvc_pps", IF unpartitioned THEN "vvc_pps_references" ELSE "vvc_pps_tiles", {"unpartitioned"},
      [unpartitioned : {unpartitioned}, window : BOOLEAN, scaling_window : BOOLEAN, ids : BOOLEAN,
       subpics : 1 .. 2, id_len : {1, 16}],
      LAMBDA c : PpsStart(c) \o PpsSubpictures(c), WritesPpsStart)

(* Sizes of tiles that are given, and those of the picture in CTBs.        *)
Grids ==
  [width : 1 .. 3, height : {1, 3}, columns : {<<1>>, <<2>>, <<1, 2>>}, rows : {<<1>>, <<2>>, <<3>>}]
  \cup IF Uses("tall_picture")
       THEN [width : {1}, height : {66}, columns : {<<1>>}, rows : {[k \in 1 .. 66 |-> 1]}] ELSE {}

Fits(c) == FoldLeft(+, 0, c.columns) <= c.width /\ FoldLeft(+, 0, c.rows) <= c.height

ParsePpsTiles ==
  Part("vvc_pps_tiles", "vvc_pps_slices", {"width", "height", "columns", "rows"},
    {c \in Grids : Fits(c)}, PpsTiles, WritesPpsTiles)

(* Ways to lay slices on these tiles, each on a rectangle of them, in the  *)
(* order of their first tiles.                                             *)
RECURSIVE Layouts(_, _)
Layouts(tiles, cols) ==
  IF tiles = {} THEN {<< >>}
  ELSE LET first == Min(tiles)
           block(w, h) == {first + x + cols * y : x \in 0 .. w - 1, y \in 0 .. h - 1}
           sizes == {<<w, h>> \in (1 .. cols - (first % cols)) \X (1 .. Cardinality(tiles)) :
                       block(w, h) \subseteq tiles}
       IN  UNION {{<< <<first, z[1], z[2]>> >> \o l : l \in Layouts(tiles \ block(z[1], z[2]), cols)} :
                  z \in sizes}

(* A tile of its own may be cut into several slices. *)
SliceLayouts ==
  LET columns == Uniformly(carry.width, carry.columns)
      rows == Uniformly(carry.height, carry.rows)
      all == 0 .. Len(columns) * Len(rows) - 1
      layouts == IF Cardinality(all) > 9 THEN {<< <<0, Len(columns), Len(rows)>> >>}
                 ELSE Layouts(all, Len(columns))
      Heights(b) == {<< >>} \cup
        IF b[2] > 1 \/ b[3] > 1 THEN {}
        ELSE {h \in {<<1>>, <<1, 1>>, <<2>>} : FoldLeft(+, 0, h) <= rows[(b[1] \div Len(columns)) + 1]}
  IN  UNION {{[g \in DOMAIN l |-> l[g] \o <<cut[g]>>] :
                cut \in {f \in [DOMAIN l -> UNION {Heights(l[g]) : g \in DOMAIN l}] :
                           \A g \in DOMAIN l : f[g] \in Heights(l[g])}} : l \in layouts}

(* The slice fields in the order of the slices.                            *)
SliceFields(groups) ==
  LET rows == Uniformly(carry.height, carry.rows)
      cols == Len(Uniformly(carry.width, carry.columns))
      n(g) == IF groups[g][4] = << >> THEN 1
              ELSE Len(Uniformly(rows[(groups[g][1] \div cols) + 1], groups[g][4]))
      field(g) == [w |-> groups[g][2], h |-> groups[g][3], parts |-> groups[g][4],
                   delta |-> IF g < Len(groups) THEN groups[g + 1][1] - groups[g][1] ELSE 0]
  IN  FlattenSeq([g \in DOMAIN groups |-> [k \in 1 .. n(g) |-> field(g)]])

(* Without deltas each slice follows the one before it: a row of slices    *)
(* has one height.                                                         *)
InOrder(groups, cols) ==
  \A g \in 1 .. Len(groups) - 1 :
    LET b == groups[g]
        next == b[1] + b[2]
    IN  /\ groups[g + 1][1] = IF next % cols = 0 THEN next + (b[3] - 1) * cols ELSE next
        /\ next % cols # 0 => groups[g + 1][3] = b[3]

ParsePpsSlices ==
  LET cols == Len(Uniformly(carry.width, carry.columns))
      several == cols * Len(Uniformly(carry.height, carry.rows)) > 1
  IN  Part("vvc_pps_slices", "vvc_pps_references", {"unpartitioned"},
        {[groups |-> g, fields |-> SliceFields(g), slices |-> Len(SliceFields(g)), unpartitioned |-> FALSE] @@ c :
           <<g, c>> \in {x \in SliceLayouts \X [rect : BOOLEAN, single : BOOLEAN, deltas : BOOLEAN] :
              LET count == Len(SliceFields(x[1]))
              IN  /\ x[2].rect \/ several
                  /\ x[2].single => x[2].rect
                  /\ x[2].deltas => count > 2
                  /\ x[2].deltas \/ InOrder(x[1], cols)
                  /\ Last(x[1])[4] # << >> => Uses("last_tile_split")}},
        PpsSlices, WritesPpsSlices)

ParsePpsReferences ==
  Part("vvc_pps_references", "vvc_pps_end", {"unpartitioned"},
    [default : {1, 15}, wraparound : BOOLEAN, chroma_tools : BOOLEAN, joint : BOOLEAN, offset_lists : {0, 1, 6}],
    LAMBDA c : PpsReferences(c) \o PpsQp(c), WritesPpsTail)

ParsePpsEnd ==
  Part("vvc_pps_end", "done", {},
    [control : BOOLEAN, override : BOOLEAN, disabled : BOOLEAN, chroma_tools : BOOLEAN, weighted : BOOLEAN,
     rpl_in_ph : BOOLEAN, extension : BOOLEAN, data : 0 .. 1],
    LAMBDA c : PpsDeblocking(c) \o PpsHeaderInfo(c), WritesPpsEnd)

---------------------------------------------------------------------------

DciChoices == {c @@ d : c \in [ptls : 1 .. 2], d \in ProfileChoices}

ParseDci == Part("vvc_dci", "done", {}, DciChoices, Dci, WritesDci)

ParseOpi ==
  Part("vvc_opi", "done", {}, [ols_info : BOOLEAN, htid_info : BOOLEAN], Opi, WritesOpi)

ParseParameterSets ==
  \/ ParseVpsLayers \/ ParseVpsOutputLayerSets \/ ParseVpsProfiles \/ ParseVpsSchedules \/ ParseVpsExtension
  \/ ParseSpsStart \/ ParseSpsSubpictures \/ ParseSpsCoding \/ ParseSpsTools \/ ParseSpsRefPicLists
  \/ ParseSpsInter \/ ParseSpsIntra \/ ParseSpsTiming \/ ParseVui \/ ParseSpsExtension
  \/ ParsePpsStart \/ ParsePpsTiles \/ ParsePpsSlices \/ ParsePpsReferences \/ ParsePpsEnd
  \/ ParseDci \/ ParseOpi
============================================================================
