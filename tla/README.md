# bsparser-cpp in TLA+

bsparser-cpp is a header-only C++20 library that parses video elementary
streams: HEVC, AVC, VVC, AV1, VP9 and VP8. It decodes no pixels. It splits a
buffer into units, parses their headers, keeps the parameter sets that later
headers depend on, derives each picture's presentation order, and hands the
parsed structures to the caller's handlers, C++ or C. This directory models

- what survives from one unit, one slice, one `bs::parse()` call to the next
  (parameter sets, order counts, frame numbers, the C API's thread-local state),
- how buffers are cut into units, and
- the syntax: which elements each parser reads, in which order and width, and
  what it infers for those that are absent, against what an encoder writes.

## 1. Inventory

### Components, their state and operations

| Component | Source | State | Operations |
|---|---|---|---|
| HEVC order count | `parser/hevc_poc.hpp` | `prev_valid_`, `prev_reference_`, `prev_msb_`, `prev_lsb_` | `derive()`, `reset()` |
| AVC order count | `parser/avc_poc.hpp` | `prev_frame_num_`, `prev_frame_num_offset_`, `prev_poc_msb_`, `prev_poc_lsb_` | `derive()`, `reset()` |
| VVC order count | `parser/vvc_poc.hpp` | `prev_valid_`, `prev_msb_`, `prev_lsb_` | `derive()`, `reset()` |
| Parameter-set managers | `parser/{hevc,avc,vvc}_parameter_set_manager.hpp` | arrays of optional sets by id; for VVC also the last DCI, OPI and picture header | store, find, resolve, clear |
| State and dispatch | `bsparser.hpp` | `StateImpl`: codec, one manager, the three trackers, the AV1 sequence header | `create_state`, `parse` (11 overloads), `clear` |
| NAL framing | `parser/nal_framer.hpp` | position in the buffer | `valid`, `nal`, `next` (Annex B, length-prefixed) |
| OBU and IVF framing | `parser/obu_framer.hpp`, `ivf_framer.hpp` | position | `valid`, `next` |
| Bit readers | `bitstream/*.hpp` | byte and bit position, emulation-prevention window | `read_bit(s)`, `read_ue`, `read_se`, trailing-bit tests |
| Unit headers, raw dispatch | `parser/*_nal_unit_parser.hpp`, `*_nal_parser.hpp` | none | `parse_nal_unit`, `dispatch_nal` |
| Slice and picture headers | `parser/{hevc,avc,vvc}_slice_parser.hpp`, `vvc_ph_parser.hpp` | none (read the resolved sets and, for VVC, the stored picture header) | two passes: the PPS id first, then the header |
| Reference picture sets | `parser/hevc_reference_picture_manager.hpp`, `hevc_short_term_ref_pic_set_parser.hpp` | none as used | RPS and list construction |
| VPS, SPS, PPS, SEI, HRD, VUI, ... | `parser/*` | none | one pass over a bit reader |
| AV1, VP9, VP8 headers | `parser/av1_*`, `vp9_*`, `vp8_*` | none (AV1 reads the stored sequence header) | one pass |
| Syntax models | `syntax/*` | plain data | |
| C API | `capi/*` | thread-local pointers to the running call's handlers and report; heap blocks of the C mirrors | `bs_parse`, `bs_parse_report`, `bs_parse_<codec>`, `bs_parse_struct_report`, `bs_state_*`, report destruction |
| Demuxers | `demux/*` | per container: tables, PES buffers | `sniff`, `demux` |
| Command line, logging, tools | `cli/`, `logging/`, `tools/` | | |

### How they interact

Everything is synchronous and single-threaded, and nothing is persisted. A call
`bs::parse(state, chunk, framing, handlers)` runs one loop: the framer yields a
unit; its header is parsed; a parameter set is parsed, stored in the manager
and shown; a slice's PPS id is read, resolved through the manager, the header
is parsed against the resolved sets, the tracker derives the picture's order
count from it, and the header is shown; finally the raw handler is called.
Exceptions of parsers and handlers are caught per unit and swallowed. State
passes from call to call only through the manager and the tracker, and
`clear()` is the only way to drop it.

### What is hard

The library has no locks, no persistence and no clock, so there is no crash
recovery, no retry and no timeout. What is hard:

- *History.* A tracker must stay right over any legal sequence of pictures
  (leading and disposable pictures, temporal layers, wraps, sequence starts,
  several slices of a picture), a few of which a test covers. The state must be
  right after calls with other handlers, broken units, throwing handlers and
  chunk borders. A stale set, header or tracker shows only much later, as a
  plausible but wrong value.
- *Position.* A parser that reads one bit too many or too few does not fail: it
  reads the rest of the header from the wrong place. Conditions and widths
  depend on fields of several sets, and the parsers have thousands of them.
- *Re-entry and threads* in the C API: a call stashes its callbacks in
  thread-local variables, and a callback may call the API again, on the same
  function, which overwrites what the call around it has stashed.
- *Ownership* of the C mirrors: one generated file allocates, another frees.

`PROJECT.json` lists each such hazard at its line.

### What makes each component correct

- Trackers: from LSBs alone (modulo a period), rebuild the order counts the
  encoder had, as long as it keeps every picture within half a period of the
  previous anchor picture; further slices of a picture change nothing; stay in
  32 bits.
- Managers: hold exactly the latest set of each kind and id since `clear()`.
- Dispatch: whatever is broken, missing or thrown in between, a slice is shown
  if and only if its sets have arrived, with the latest sets it names, with its
  own picture header, and with the order count of the whole stream.
- Framing: the units handed out are exactly those of the buffer, in order; the
  loop ends; a cut is reported where that is promised.
- Readers: an RBSP read bit by bit is the payload without its
  emulation-prevention bytes.
- Parsers: read exactly the elements that were written (else everything after
  them is misread), store what the encoder meant, refuse nothing that is legal.
- C API: a call calls back its own set, with its own input, also around calls
  nested in its callbacks; its report is whole; a mirror is freed once, with all
  it owns; nothing is left for a later call.

## 2. Modules

### Order counts

| Module | Models | Correspondence |
|---|---|---|
| `PictureOrder` | the promise common to HEVC and VVC | abstract specification: `Join`, `Refresh`, `Picture`, `Stated`, `Stop` over the encoder's order count and the shown one |
| `HevcPocTracker` | `HevcPocState` as operators | `Derived` is what `derive()` returns, `Advanced` the members it leaves; `Saturate` and `AddInt32` keep the 32-bit width |
| `HevcPoc` | the tracker and an H.265 encoder | one action per kind of picture, each one call of `derive()` |
| `AvcPocTracker`, `AvcPoc` | `avc::PocState` and an H.264 encoder | the three `pic_order_cnt_type`s, frames and fields |
| `VvcPocTracker`, `VvcPoc` | `vvc::PocState` and an H.266 encoder | as for HEVC, with `ph_poc_msb_cycle_val` and CLVSS pictures |

### The state and its dispatchers

| Module | Models | Correspondence |
|---|---|---|
| `HevcParameterSets` | `hevc::ParameterSetManager` as operators on one record | `StoreVps` .. `FindPps`, `Resolve` (`resolve_pps`) |
| `HevcDispatch` | `dispatch_state_hevc()`, `store_hevc_parameter_set()`, `State::clear()` | one action is the loop body on one unit; `ParseSlice` is the two-pass slice block |
| `VvcParameterSets`, `VvcDispatch` | the same for VVC | `PictureHeaderUnit` and the embedded headers of `Slice` |
| `AvcParameterSets` | `avc::ParameterSetManager` | `StoreSps`, `StorePps`, `Resolve` |
| `StateDispatch` | `dispatch_state_avc()`, `dispatch_state_av1()`, `dispatch_state_vp_frame()`, `clear()` | one `State` of one of these codecs; a call is `BeginCall` .. `EndCall` |

`HevcDispatch`, `VvcDispatch` and `StateDispatch` compose a manager and a
tracker: they EXTEND the parameter-set module and the tracker module that the
`...Poc` modules also extend, so the operators that are checked and proved
about alone are those the dispatchers use.

### Framing

| Module | Models | Correspondence |
|---|---|---|
| `UnitStream` | what any framer promises | abstract specification: `HandOut` the next unit, `Stop` when all are out, `Fail` only where the buffer is cut |
| `AnnexBFraming` | `AnnexBNalIterator::locate_next()` | one step is one turn of a loop: search by lanes, search by bytes, trimming of zeros |
| `NalFraming` | all framers behind `NalFramingMode` | `LocateLengthPrefixed`, `LocateObu`, `LocateObuStartCodes`, `LocateIvf`, and the loop that drives them |

### Syntax

`SyntaxElements` is a vocabulary of tokens: an element read (`u` with its width,
`ue`, `se`), a value the structure holds (`is`), a refusal. A parser is an
operator from the fields that decide its path to the tokens it reads,
translated from the repository; the standard is another
such operator (`H264Syntax`, `H265Syntax`, `H266Syntax`, the `Writes...`
definitions), which is outside of the repository and marked external in the
map. The `...Reading` modules begin with the parsers of a component and go on
with what an encoder may choose for each of their parts. `SyntaxReading` puts them side by side: an action `Part` lets the encoder
choose the fields of the next part of a header and records what it wrote and
what the parser reads; `carry` keeps what later parts depend on.

| Module | Models |
|---|---|
| `HevcSliceReading` | `hevc_slice_parser.hpp`, `hevc_reference_picture_manager.hpp` |
| `HevcParameterSetReading` | HEVC VPS, SPS, PPS, VUI, HRD, profile-tier-level, scaling lists and range, multilayer, 3D, screen-content extensions |
| `VvcParameterSetSyntax`, `VvcParameterSetReading` | VVC VPS, SPS, PPS, DCI, OPI, with the tiles and slices the PPS parser derives |
| `VvcPictureReading` | `vvc_ph_parser.hpp`, `vvc_slice_parser.hpp` |
| `AvcReading` | AVC SPS, VUI, HRD, PPS and slice header |
| `AomSyntax`, `AomReading` | AV1 sequence and frame headers, the VP9 header, the VP8 tag, and `BooleanDecoder` |
| `RbspReading` | `RbspBitstreamReader` bit by bit, and the SEI message loop with its payload views |
| `HeaderSyntax` | their composition: one specification that reads any of these structures |

**Tools.** Where a parser and its standard part ways, the fields that bring the
difference out are a named *tool* that the encoder uses only if the constant
`Tools` has it. The passing run has none, so it shows that everything else is
read right; with any one tool in `Tools`, the same run reports `InStep`,
`SameMeaning` or `Accepted` violated (`HeaderSyntaxSei.cfg` is such a run;
section 5 lists the tools). A tool is as narrow as the difference is.

### The C API

| Module | Models | Correspondence |
|---|---|---|
| `CStructs` | what each C mirror owns | a mirror is the set of paths to the pointers in it, as `bs_conv()` fills and the free functions empty them |
| `CBridge` | `bs_capi.cpp` | `g_handlers`, `g_<codec>_h`, `g_entries`, ... per thread; one action is what a call does between two points where the caller's code runs; `faults` notes what is reached through a pointer that leads nowhere, and no step follows it |

### Instances and proofs

`MC...` modules are instances for TLC, for constants a configuration file cannot
write down (records, negative numbers, symmetry); the other specifications get
their constants from the `.cfg`. `<M>Proofs` extends `<M>` and holds the theorems
about it (section 6). The end of each module that has one states its inductive
invariant `IInv`, between the properties and the proofs; `NalFraming` states a
second one for its refinement, `Places`.

### Conventions

Three kinds of history variables occur, and no code reads them. In the `...Poc`
modules the encoder's true order count, its anchor picture and the *skew*: a
tracker that joins a stream in the middle cannot know how many LSB periods
went by, so it shows the true count displaced by a constant. In the
`...Dispatch` modules a listener to the whole stream: the latest sets, a tracker
of its own that is never interrupted, and the slice it is shown; in VVC also the
last picture header as it should read. In `CBridge`, `taken`: the calls in
whose place a nested call has stashed its own pointers.

Definitions under a comment that starts with "Fault:" or "Faults:" are faulty
variants of the operator that follows. They are not part of the models;
substituting one for its original makes the property named for it in
`PROJECT.json` ("mutants") fail, which shows that the property depends on the
code being as it is.

## 3. Runs

| Run | Question | Result |
|---|---|---|
| `hevc_poc` | Does the HEVC tracker rebuild the encoder's order counts and implement `PictureOrder`? Does a further slice change nothing? | holds |
| `avc_poc` | The same for AVC, against order counts computed one frame at a time | holds |
| `vvc_poc` | The same for VVC, with transmitted MSB cycles | holds |
| `hevc_dispatch` | Sets, order counts and slices right over calls, faults and `clear()`? | holds |
| `vvc_dispatch` | The same for VVC with stored and embedded picture headers, and is the stored one the latest? | holds |
| `state_dispatch` | The same for AVC; do AV1 frames find their sequence header, and do frame numbers grow? | holds |
| `nal_framing` | Are the units of every small buffer handed out exactly, and does the loop end? | holds |
| `header_syntax` | Is every modelled header read bit for bit, with its meaning, and accepted? | holds without tools |
| `c_bridge` | Two threads and nested calls of any function: does nobody call back another's set, and is every unit served unless the call's place was taken? Whole reports, mirrors freed once? | holds |
| `c_bridge_reentry` | May a callback enter the API again on its thread, as "reentrant" says? | violated |
| `c_bridge_leak` | Does the library free a mirror "and its heap buffers" after the callback? | violated |
| `header_syntax_sei` | Do the payloads of SEI messages stay valid? | violated |

The violated properties state what a document or comment of the repository
says; `PROJECT.json` ("findings") quotes it.

### Bounds

- LSBs of two bits (`MaxLsb` 4; frame numbers modulo 4 for AVC): the smallest
  period with pictures strictly inside, exactly at and beyond half of it.
- The 32-bit integer is scaled to three LSB periods on either side of zero
  (`Int32Max` 11 in `HevcPoc`, `VvcPoc`), which bounds the order counts; both ends
  are reached. The trackers clamp and wrap around as the code does, but no count
  within the range makes them (`WholePeriodsFit`, section 6), so these runs do not
  exercise either. The theorems hold for every width that is a whole number of
  periods.
- One base and one higher temporal layer: the code distinguishes 0 from not 0.
- AVC: a cycle of three offsets, of which `MaxFrameNum` is no multiple, an
  empty cycle, and one SPS of types 0 and 2; counters from -6 to 9, two frame
  number wraps; deltas -1, 0 and 2.
- Dispatch: one VPS and SPS slot and two PPS slots, ids one beyond each limit,
  an SPS whose content changes the LSB period (in `StateDispatch` the
  order-count type), a PPS that names a missing SPS, and a byte of three values
  (`IdByte`, in all three modules), so that a PPS id wraps into a stored one, that
  of a stored or embedded VVC picture header as well; at most two units per
  call (three in `StateDispatch`, any number in `VvcDispatch`) with any number of calls, so every
  unit can be the first and the last of a chunk. VP9 shares its loop with VP8, which stands for
  both.
- Framing: every buffer of up to eight bytes over {0, 1, 128} for the searching
  framer, with lanes of four bytes, so that start codes lie within a lane,
  across lanes and in the tail; 128 is the byte that the zero test of the lanes
  must not take for a zero. For the other framers up to two units of 0, 1 or 4
  bytes from a muxer, cut off anywhere, with length and ULEB128 bytes of base 4
  and headers of three bytes.
- Syntax: each field takes values on both sides of every condition and width
  that the parsers test: counts 0 to 2, widths at their limits, ids at 0 and at
  the maximum; each part is exhaustive over them. `MaxSets`, `MaxPics` bound the
  short-term sets and the pictures in one.
- C API: two threads (symmetric), two calls in a behaviour, two units per call,
  five codecs with one kind of structure for each way of owning memory. The
  second call may be nested in any callback of the first, with any function and
  codec, the same ones included; two codecs, one of each way the pointers are
  looked up, are enough for `c_bridge_reentry`.

Every run is exhaustive for its bounds. Deadlock is checked except where the
system really stops: a header ends (`header_syntax...`), and the callers of the
C API make a bounded number of calls (`c_bridge...`).

### Environment

The encoders respect the constraints the standards put on streams: pictures
lie within half an LSB period of the anchor, IRAP pictures are in temporal
layer 0, TSA and STSA pictures are not. `SpecAny` of `HevcPoc` drops all of
that. AVC streams start an IDR picture with the top field (its LSB is 0), and
frame-number gaps occur at reference pictures only. The muxers of `NalFraming`
write whole units, of sizes that the bytes of a length can hold
(`PayloadsAssumption`); the buffers of the searching framer are arbitrary.

### Fairness

`nal_framing` assumes weak fairness of `Next`: the caller's loop
`while (framer.valid()) { ...; framer.next(); }` (`bsparser.hpp:464` and the
other dispatch loops) drives a framer for as long as it is valid, in a single
thread, so a step that stays enabled is taken. Under it `ImplementsUnitStream`
includes the liveness of `UnitStream`: all units are handed out and the loop
ends. Everything else is safety and assumes no fairness.

## 4. What the properties say together

- A slice of any of the three ITU codecs is framed exactly (`nal_framing`), read
  bit for bit against the sets it names (`header_syntax`), resolved to the latest
  such sets (`ManagerHoldsLatest`, `SlicesAreShownRight`) and given the order
  count the encoder had (`...FollowsTimeline`, `TrackerFollowsListener`), over
  any number of calls. The seams between these models are the operators they
  share: the trackers, the managers, and the fields in `carry`.
- `InStep` is about position: after every part the parser stands where the next
  one begins. `SameMeaning` is about values, inferred ones in particular.
  `Accepted` is about refusals of legal streams.

## 5. Observations without a run of their own

The runs above hold because their encoders and callers keep clear of the
following; each was met while modelling.

### Order counts and dispatch

- `hevc_poc.hpp:77`: only IDR pictures and CRA pictures at the start reset the
  MSB; a BLA picture in the middle continues it, which displaces what follows by
  whole periods. `avc_poc.hpp:164`: memory management operation 5 is not
  followed. `vvc_poc.hpp:113`: a CRA or GDR picture in the middle of a sequence
  is taken for a start.
- A dependent slice segment has no LSB; `bsparser.hpp:496` derives its order
  count from the initial value.
- The trackers advance only in calls with a slice handler (`bsparser.hpp:470`),
  while `docs/architecture.md:80` has them updated so that `derived_poc` stays
  correct across chunked calls; after a call with other handlers the listener of
  the dispatch models is out of step until the next IDR picture (`listening`).
- VVC keeps one picture header for all slices that embed none. After a lost or
  broken picture header unit the slices are shown with the previous picture's
  (`bsparser.hpp:718`), although `syntax/vvc_slice.hpp:50` has `ph` as the header of
  the picture the slice belongs to. One that arrives before its SPS is stored
  without its LSB (`bsparser.hpp:686`), and the slices after it are shown with it
  when the SPS is there. In both the listener of `VvcDispatch` has no header
  for the picture and is out of step until the next sequence start.
- VVC narrows the PPS id of a picture header to a byte (`bsparser.hpp:684`, `:725`,
  `vvc_ph_parser.hpp:340`): a header that names PPS 256 is parsed and shown with
  PPS 0. In HEVC and AVC the second pass refuses such a slice, because the id is
  not that of the PPS or beyond 255; in VVC nothing does. `ParseSlice` has the narrowing; a listener that hears such a
  header is out of step (`PictureOf`).
- The typed `parse()` overloads count no unit that only a typed handler was
  shown; they return 0 for a stream without raw handler.
- The report overload takes every codec but HEVC for AVC (`bsparser.hpp:1145`).
- `clear()` keeps an AV1 state's sequence header (`bsparser.hpp:250`; the comment
  above says every stored set is dropped): a frame header before the new
  stream's first sequence header is parsed with the old one. `FramesReadTheirSequence`
  is about frames after it.
- `avc_poc.hpp:139` sums int32 values without a check; streams within the
  bounds of H.264 do not overflow. `vvc_poc.hpp:19` restricts the previous
  picture to the same `nuh_layer_id`; `derive()` is not given the layer.
  `vvc::PictureHeader::derived_poc` (`syntax/vvc_ph.hpp:159`) is never assigned.

### C API

- A nested call that stashes its pointers where a call around it did (run
  `c_bridge_reentry`) leaves nulls there, or, a report whose parser throws, the
  address of a set that is gone. The outer HEVC or AVC call, back from the
  callback for every unit, goes through that pointer for the one of the type
  (`bs_capi.cpp:502-507`); entered from the latter, it passes the rest of its units
  over. The walkers of the other codecs keep the set as an argument and only
  count offsets from null. A typed call passes the rest over (`:784`), the report
  calls run no code of the caller. `OwnCallbacks` exempts such a call (`taken`) from
  serving all its units, not from calling back its own set only.
- `bs_parse_report` handles an unsupported framing with an error
  only (`bs_capi.h:195`), and its catch block leaves `g_handlers` set until the
  next call (`TypedSlotsAreIdle` is about the typed slots). Probing
  (`detect_codec`) takes some streams for those of another codec.

### Tools: where a parser and its standard part ways

| Tool | Difference |
|---|---|
| `sub_layers` | reserved bits of profile-tier-level are not skipped as the comment `hevc_profile_tier_level_parser.hpp:267` says (`:281`) |
| `shared_hrd` | a VPS HRD without common part is read with defaults |
| `range_extension` | `hevc_pps_parser.hpp:277` reads `log2_max_transform_skip_block_size_minus2` always; `cu_chroma_qp_offset_enabled_flag` is not read in slices |
| `depth_tables` | `delta_dlt` without its first value, and `min_diff` inferred wrongly |
| `long_term_sps` | entries taken from the SPS still read an LSB and a flag (`hevc_slice_parser.hpp:478`) |
| `cabac_init_intra` | `cabac_init_flag` is read in I slices (`:1129`) |
| `unfiltered_slices` | `slice_loop_filter_across_slices_enabled_flag` read and inferred wrongly (`:1362`) |
| `colour_planes`, `avc_planes` | `chroma_format_idc` in place of ChromaArrayType; AVC `colour_plane_id` is not read (`avc_slice_parser.hpp:245`) |
| `interleaved_weights` | the order of the weight flags |
| `screen_content` | `use_integer_mv_flag` and the act offsets are not read |
| `dependent_entry_points` | entry points of dependent segments are not read |
| `chained_sets`, `flagged_itself` | a set predicted from a predicted set loses pictures, or the flag of the reference itself (`hevc_reference_picture_manager.hpp:559`) |
| `vui` | a VVC SPS with VUI parameters is refused: the end of the VUI is sought by reading to the end of the RBSP, trailing bits included, and `sps_extension_flag` is read past it (`vvc_sps_parser.hpp:869-906`) |
| `many_lists`, `sublayer_hrd` | `vvc_sps_parser.hpp:627`, `vvc_vps_parser.hpp:413` |
| `tall_picture`, `last_tile_split` | `vvc_pps_parser.hpp:159`, `:471` |
| `deblocking_override`, `uni_prediction` | `vvc_ph_parser.hpp:714`, `:650` |
| `subpicture_slices`, `whole_picture_slice`, `unpartitioned_rows` | the slice address and the entry points: `vvc_slice_parser.hpp:370`, `:728`, `vvc_pps_parser.hpp:552` |
| `avc_scaling_lists`, `avc_large_lists` | a `use_default` flag that H.264 has not is read (`avc_sps_parser.hpp:70`); eight lists whatever the chroma format and `transform_8x8_mode_flag` say (`:298`, `avc_pps_parser.hpp:128`) |
| `avc_dispersed_groups` | `slice_group_map_type` 1, which has no further syntax, is refused: the switch has no such case (`avc_pps_parser.hpp:49`, `:93`) |
| `avc_high_depth_qp` | quantisers are refused beyond 52 in either direction (`avc_pps_parser.hpp:110`, `avc_slice_parser.hpp:345`); at a bit depth of 14 they go down to -62 and `slice_qp_delta` further |
| `avc_chroma_offset` | `second_chroma_qp_index_offset` is not inferred (`avc_pps_parser.hpp:122`) |
| `avc_switching`, `avc_change_cycle` | fields of SP and SI slices (`avc_slice_parser.hpp:325`, `:369`); the width of `slice_group_change_cycle` (`:361`) |
| `avc_sei_messages` | run `header_syntax_sei` |
| `av1_plain_bits` | header bits are plain, but read by an arithmetic decoder (`boolean_decoder.hpp:36`): a one comes back as another one seven bits later. The other AV1 parts compare elements, as if each were read right |
| `av1_still_tier` | `seq_tier` is read for reduced still pictures (`av1_sequence_header_parser.hpp:125`) |
| `av1_default_colours` | undescribed colours are stored as 0, not 2 (`:51`) |
| `av1_layers` | `buffer_removal_time` as if of layers 0 and 0 (`av1_frame_header_parser.hpp:776`) |
| `av1_superres_shown` | the render size is taken after super-resolution (`:854`) |
| `av1_widest_frame` | 65536 samples are stored as 0 (`:822`) |
| `av1_found_reference` | all seven `found_ref` are read, and the size is the sequence's (`:892`, `:899`) |
| `av1_low_quantizer`, `av1_kept_parameters` | the index is not clipped at 0 (`:1040`); nothing is inherited from the primary reference (`:302`) |
| `av1_skip_mode` | `skip_mode_present` whenever two references are selected (`:1086`) |
| `av1_inter_motion` | eight references in place of seven (`:508`) |
| `vp9_intra_only` | the size is read before `refresh_frame_flags` (`vp9_frame_header_parser.hpp:119`) |

The differences are stated against the standards as the external modules give
them.

## 6. Proofs

Each theorem holds for every value of the constants under the assumptions its
module names, which TLC evaluates in every run.

| Module | Theorems (`Spec => ...`) | For every |
|---|---|---|
| `HevcPocProofs` | `TypeOK`, `DerivedFollowsTimeline`, `TrackerHoldsAnchor`, `ImplementsPictureOrder`; from `SpecAny`: `PreviousIsReference`, `RepeatedSliceIsIdempotent` | even LSB period, integer width of whole periods, set of temporal layers with layer 0 |
| `VvcPocProofs` | `TypeOK`, `DerivedFollowsTimeline`, `TrackerHoldsAnchor`, `RepeatedSliceIsIdempotent`, `ImplementsPictureOrder` | the same, and every length of the MSB cycle |
| `AvcPocProofs` | `TypeOK`, `DerivedFollowsTimeline`, `TrackerHoldsAnchor`, `RepeatedSliceIsIdempotent`; `CyclesAndRest` | width of frame numbers and LSBs, SPS of the three types, cycle of offsets, counters and deltas |
| `HevcDispatchProofs` | `TypeOK`, `ManagerHoldsLatest`, `TrackerFollowsListener`, `SlicesAreShownRight` | stream of sets and slices, cut into calls, handlers and exceptions, length of the manager's arrays |
| `VvcDispatchProofs` | `ManagerHoldsLatest`, `TrackerFollowsListener`, `SlicesAreShownRight` | the same, and every picture header |
| `StateDispatchProofs` | `TypeOK`, `ManagerHoldsLatest`, `TrackerFollowsListener`, `SlicesAreShownRight`, `FramesReadTheirSequence`, `NumbersGrow` | the same |
| `CBridgeProofs` | `TypeOK`, `OwnCallbacks`, `ReportsAreWhole`, `MirrorsAreFreed`, `TypedSlotsAreIdle` | number of threads, calls and units, set of codecs |
| `NalFramingProofs` | `TypeOK`, `NoStartCodeMissed`, `CutIsReported`, `FinishedForGood`; the steps of `UnitStream` (`StepsOfUnitStream`); `MatchesAreStartCodes`, `PayloadsSurvive` | buffer, payload, word size, width of lengths, ULEB128 sizes and headers |

Each module proves `Invariant`, `Spec => []IInv`, first; the others follow from
it. The structure is the same throughout: one lemma per action says that it
preserves `IInv`, `InvNext` splits `Next` into them, and the last step is
propositional temporal logic.

### The order counts

`DerivedFollowsTimeline` is not inductive: `derive()` sees only the tracker.
`IInv` adds `TrackerHoldsAnchor` (the tracker holds the encoder's anchor picture,
as a multiple of the period plus an LSB) and `Settled` (deriving again from the
last slice header changes nothing, which a further slice of the picture needs).

*HEVC.* `StepIsDistance`: for a picture within half a period of the anchor,
`MsbStep` is exactly the difference of the two MSBs, which is where the `>=` and
the `>` of the wrap tests matter. `WholePeriodsFit`: if such a count lies within
the integer range then so does its MSB, because the range is a whole number of
periods, hence nothing is clamped. `DeliverSettles`: a second call of `derive()`
with the same header returns the same (`DeriveTwice`: the step from an LSB to
itself is 0). `OnTimeline` and `AnchorRemembered` combine them into what one call
does. The refinement maps the abstract anchor to the one the tracker *holds*, so
`StepSimulation` depends on `TrackerHoldsAnchor` and not on the encoder's own
record.

*VVC.* The same argument, with the transmitted MSB cycle as a second way to
the MSB.

*AVC.* The three types need three arguments. Types 1 and 2 count frames: the
frame number offset is a whole number of periods (`WholePeriods`), so the wrap
test of `avc_poc.hpp:61` finds the encoder's. Type 1 also needs `CyclesAndRest`:
the code multiplies the sum of a cycle by the number of whole cycles and adds
a rest, and H.264 adds one offset per frame; they agree for every number of
frames. The proof is by the least number for which they would not
(`LeastNumber`), because an induction principle over an operator is out of the
provers' reach.

### The dispatchers

The managers' invariant relates an array to a set: slot `id` holds the one
element of `Latest(kind, id)`. It needs that everything received is in range
(otherwise a refused set would be the latest), which `IInv` adds.
`TrackerFollowsListener` says that two trackers fed from different places are
equal as long as `listening`. `SlicesAreShownRight` follows because the slice is
resolved through the same sets (`Wanted`) that the listener names; what could go
wrong is a PPS that arrives before its SPS or names a new one, and a slice id
that wraps into a stored PPS. In VVC the picture header is parsed when it
arrives and used later. `ManagerHoldsLatest` includes that the stored one is the
last picture header unit as it read with the sets then arrived (`header`), and
`IInv` adds that the current picture's is what parsing it with the sets of now
would give: a set that is only sent again changes nothing, and another one
ends the picture. An id is narrowed both where the header is stored and where it
is resolved; the current picture's fits a byte (`PictureOf`). In
`StateDispatch`, `NumbersGrow` needs that the last number is below the counter
the next one comes from, of which AV1 and VP8/VP9 have different ones.

### The C API

`OwnCallbacks` is about a call that looks into a thread-local variable long after
it has set it. `IInv` says for every *open* call, not only the innermost, that
what it stashed is still there unless it is `taken` (`KeepsPlace`), and for every
pointer that if it leads to an open call at all, then to one of the same thread
that still has the place (`LeadsHome`): a call whose place was taken finds null, or
a call that has returned, and never another's set. Of the calls of a thread that
stash in one place all but the innermost are taken (`StacksAreNested`), and only
the innermost call of all can end, so it clears nothing that a call which is not
taken still needs. After a fault the model takes no step; `IInv` says whose it was:
the call on top, which was taken. `MirrorsAreFreed` needs exact ownership: `Owned` says that each
owner's blocks are on the heap, that no two owners share a mirror, and that every
structure there has an owner, a callback, an entry under way, or an entry of a
report (`Owners`). `NumbersDiffer` keeps the owners of one call apart from those
of another.

### Framing

`MatchesAreStartCodes` is the correctness of the search by machine words: smearing
the bits of a byte by 1, 2 and 4 sets its top bit if and only if the byte is not
0 (`SmearIs`, `ZeroLanesAre`), the flipped lowest bit makes a 1 such a zero
(`ByteBits`, `WordBits`), so the lanes found are the ends of the start codes
within the word, with two lanes of overlap to the next one. From it,
`NoStartCodeMissed` for the loop by lanes and the one by bytes.

`TypeOK` includes that a unit that is ready lies within the buffer: `b + len <= Size`
is tested before it is handed out, for every value of the length bytes.
`FinishedForGood` is not inductive for the framers that look again: `IInv` adds
`Ended`, the condition at the place where the framer stopped that made it stop,
and `SizedTurn` says that a turn stops exactly when `Ended` holds.

`StepsOfUnitStream` is the refinement: every turn of every framer is a step of
`UnitStream`, which hands out the next unit of the buffer, or ends when there is
none left, or fails where the buffer is cut. `IInv` says that a framer stays within
its buffer, not that it stands at the right place in it. `Places`, inductive
together with `IInv` (`StandsAtUnit`), does: what is left to hand out begins at
`Mark` or behind it, and as many units have been handed out as begin before it
(`Counted`). A turn then has one of three meanings to the caller (`Means`): it
passes over bytes in which no unit begins, takes the first unit that begins from
`Mark` on, or ends with none left; `StreamFollows` makes each a step or a stutter
of `UnitStream`. It needs of `InOrder` that the unit before which k others begin is
the one at k + 1 (`InOrderIs`). What is left is to show, for each framer, what its
turns mean:

- Start codes (`SearchFollows`): `BetweenStartCodes` adds to `Mark` that there is no
  start code between the begin of a unit and the place the search has reached, and
  that the bytes trimmed from its end are zeros. Without the latter, a unit whose
  zeros are being trimmed would not be known to end where `IsUnit` says.
- OBUs between start codes (`ObuFollows`): one turn finds both ends, so `Counted` is
  enough (`FoundCode`, `ObusAre`).
- Sizes (`SizedFollows`): `AtUnit` says that the buffer is the beginning of what some
  muxer wrote and the position the end of one of its units. Of the muxer:
  the units follow one another without a gap (`UnitPlaces`), those that lie whole in
  the cut buffer begin in their order (`WholeUnitsAre`, `EndsGrow`). Of the framer:
  what it reads is what was written, the length (`PrefixRead`), the IVF header
  (`FrameRead`), the flags of an OBU header and its ULEB128 size, of any number of
  bytes (`FlagsRead`, `LebRead`), all from `ReadsAsWritten`: the digits of a number
  read back are the number, if they can hold it (`Fits`). So it takes the unit
  (`UnitTaken`), passes over an empty one (`EmptyPassed`), or, where the buffer is
  cut, ends or throws with no whole unit left (`CutInside`, `NothingLeft`). An OBU
  without a size, which a muxer writes last, takes the rest (`OpenTaken`). No
  sized OBU begins like a start code (`NoStartCode`), so the framer's choice of form
  by the first three bytes is the right one.

`CutIsReported` follows from `Places`: a framer of length-prefixed units that ends
without an exception stands at the end of the buffer and of a unit, which is not
`IsCut`.

`PayloadsSurvive` joins the framer to the reader behind it. Of the bytes that an
encoder writes for one byte of a payload, `RbspBitstreamReader` keeps that byte and
no other (`EscapeKept`: the 3 it drops is the one the encoder put in, since a 3 of
the payload behind two zeros was itself escaped); so the payload comes back
(`EscapedIs`), for every length and every byte. Escaped, it holds nothing below 3
behind two zeros (`EscapeProtected`), so no start code in it or across its end; put
between start codes, with any zeros behind it, it is in `UnitSpans` (`HeldIsUnit`),
which the framer hands out. Its last byte must not be 0, as the stop bit sees to:
the framer would take it for one of those zeros.

`MinIs` and `MaxIs` are what these proofs know of the community modules'
operators. Of recursion they know that such a function exists (`GoesOn`) and that
what goes from 0 to the next number holds of all (`Everywhere`), both by the
least number for which it would not; `NumberOf` and `FlattenPlaces` are examples.

### What stays with TLC

- The liveness of `ImplementsUnitStream`, that the loop ends: fairness is out of the
  prover's reach. Its safety is `StepsOfUnitStream`.
- `InStep`, `SameMeaning` and `Accepted`: they compare two operators per part of a
  header on records of fields, from finite sets that the specification names and
  the runs evaluate whole. The syntax of the VVC parameter sets is recursive besides.
- The enabledness of actions (deadlock), and the three violated properties.

## 7. What is left

### Plan

1. *(done)* Order counts, `PictureOrder`; their proofs for the three codecs.
2. *(done)* The dispatchers of all codecs with their managers; their proofs.
3. *(done)* Framing against `UnitStream`, with progress; proofs of the search, of
   the bounds, and of the steps of `UnitStream` for all five framers.
4. *(done)* The syntax of headers and parameter sets; the C API and its proofs.
5. The bits of every descriptor against their writer, for every value, on top of
   `PayloadsSurvive`, which does so for the bytes: the part of `InStep` that does not
   enumerate the fields of a header.

### Not modelled

- The construction of reference picture lists, and
  `hevc_short_term_ref_pic_set_parser.hpp` and `hevc_scaling_list_parser.hpp`,
  which nothing in the library includes.
- `RbspReader` (the map-building reader), `BitstreamReader`, `PlainBitReader`.
- The parameters of AV1 global motion, the alignment at the end of a VVC slice
  header (`vvc_slice_parser.hpp:798`), adaptation parameter sets (no parser).
- In the C API: copied scalars, strings and text formatting, NULL members of a
  callback set, and structures without an array (plain copies).
- The demuxers (independent programs over container tables), the command line,
  logging and tools (input, output and formatting).
- A truncated header: every reader throws, which the dispatch models have as a
  unit that cannot be parsed.
