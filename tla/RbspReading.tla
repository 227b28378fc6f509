----------------------------- MODULE RbspReading -----------------------------
(* The bytes of a NAL unit: the emulation prevention, the bits and the      *)
(* Exp-Golomb codes that RbspBitstreamReader reads                          *)
(* (src/bitstream/rbsp_bitstream_reader.hpp), and the SEI messages          *)
(* (src/syntax/hevc_sei.hpp, src/parser/{hevc,avc}_sei_parser.hpp).         *)
EXTENDS SyntaxReading

RbspStarts == [part : {"rbsp", "sei"}, fields : {<< >>}]

---------------------------------------------------------------------------
(* What an encoder writes: codes, trailing bits, and a byte 3 between two   *)
(* zero bytes and a byte that would complete a start code.                  *)

BinaryOf(value, width) == [k \in 1 .. width |-> (value \div 2 ^ (width - k)) % 2]

WritesUe(value) ==
  LET half == (CHOOSE k \in 0 .. 16 : 2 ^ k <= value + 1 /\ value + 1 < 2 ^ (k + 1))
  IN  BinaryOf(0, half) \o BinaryOf(value + 1, half + 1)

WritesCode(e) ==
  CASE e.kind = "u" -> BinaryOf(e.value, e.width)
    [] e.kind = "ue" -> WritesUe(e.value)
    [] e.kind = "se" -> WritesUe(IF e.value > 0 THEN 2 * e.value - 1 ELSE -2 * e.value)

(* The stop bit, and zeros up to the end of the byte. *)
WritesRbsp(codes) ==
  LET bits == FlattenSeq([k \in DOMAIN codes |-> WritesCode(codes[k])])
      bytes == Len(bits) \div 8 + 1
      padded == bits \o <<1>> \o BinaryOf(0, 8 * bytes - Len(bits) - 1)
  IN  [n \in 1 .. bytes |-> FoldLeft(LAMBDA sum, bit : 2 * sum + bit, 0,
                                     SubSeq(padded, 8 * n - 7, 8 * n))]

(* The bytes behind what was written before them. *)
Escape(written, byte) ==
  LET n == Len(written)
  IN  IF n >= 2 /\ written[n] = 0 /\ written[n - 1] = 0 /\ byte <= 3 THEN written \o <<3, byte>>
      ELSE Append(written, byte)

WritesEbsp(rbsp) ==
  LET ebsp[n \in 0 .. Len(rbsp)] == IF n = 0 THEN << >> ELSE Escape(ebsp[n - 1], rbsp[n])
  IN  ebsp[Len(rbsp)]

---------------------------------------------------------------------------
(* The reader.  Bit positions count from 0 in the bytes that are left once  *)
(* the emulation prevention bytes are dropped.                              *)

IsEmulationPreventionByte(ebsp, i) ==
  /\ i > 2 /\ i < Len(ebsp)
  /\ ebsp[i - 2] = 0 /\ ebsp[i - 1] = 0 /\ ebsp[i] = 3 /\ ebsp[i + 1] <= 3

(* build_logical_map(), and materialize_rbsp() of the HEVC SEI parser. *)
BuildLogicalMap(ebsp) ==
  LET rbsp[n \in 0 .. Len(ebsp)] ==
        IF n = 0 THEN << >>
        ELSE IF IsEmulationPreventionByte(ebsp, n) THEN rbsp[n - 1]
        ELSE Append(rbsp[n - 1], ebsp[n])
  IN  rbsp[Len(ebsp)]

ReadBit(rbsp, pos) == (rbsp[pos \div 8 + 1] \div 2 ^ (7 - (pos % 8))) % 2
ReadBits(rbsp, pos, count) ==
  FoldLeft(LAMBDA sum, k : 2 * sum + ReadBit(rbsp, pos + k - 1), 0, [k \in 1 .. count |-> k])

LastOneBit(rbsp) ==
  LET ones == {pos \in 0 .. 8 * Len(rbsp) - 1 : ReadBit(rbsp, pos) = 1}
  IN  CHOOSE last \in ones : \A pos \in ones : pos <= last
MoreRbspData(rbsp, pos) == pos < 8 * Len(rbsp) /\ LastOneBit(rbsp) > pos

(* read_ue(), read_se() and read_bits(): the value and the bits it takes. *)
ReadUe(rbsp, pos) ==
  LET zeros == CHOOSE k \in 0 .. 31 : /\ ReadBit(rbsp, pos + k) = 1
                                      /\ \A j \in 0 .. k - 1 : ReadBit(rbsp, pos + j) = 0
  IN  [value |-> 2 ^ zeros - 1 + ReadBits(rbsp, pos + zeros + 1, zeros), bits |-> 2 * zeros + 1]

ReadSe(rbsp, pos) ==
  LET code == ReadUe(rbsp, pos)
  IN  [code EXCEPT !.value = IF code.value % 2 = 1 THEN (code.value + 1) \div 2 ELSE -(code.value \div 2)]

ReadCode(rbsp, pos, e) ==
  CASE e.kind = "u" -> [value |-> ReadBits(rbsp, pos, e.width), bits |-> e.width]
    [] e.kind = "ue" -> ReadUe(rbsp, pos)
    [] e.kind = "se" -> ReadSe(rbsp, pos)

(* read_rbsp_trailing_bits() *)
TrailingBits(rbsp, pos) ==
  /\ pos < 8 * Len(rbsp) /\ ReadBit(rbsp, pos) = 1
  /\ \A k \in pos + 1 .. 8 * (pos \div 8 + 1) - 1 : ReadBit(rbsp, k) = 0

ReadsRbsp(codes) ==
  LET rbsp == BuildLogicalMap(WritesEbsp(WritesRbsp(codes)))
      Step(s, e) ==
        LET code == ReadCode(rbsp, s.pos, e)
        IN  [pos |-> s.pos + code.bits,
             tokens |-> s.tokens \o Is("more_rbsp_data", MoreRbspData(rbsp, s.pos)) \o Is(e.kind, code.value)]
      end == FoldLeft(Step, [pos |-> 0, tokens |-> << >>], codes)
  IN  end.tokens \o Is("more_rbsp_data", MoreRbspData(rbsp, end.pos))
      \o Require(TrailingBits(rbsp, end.pos), "rbsp_trailing_bits")

MeantRbsp(codes) ==
  Loop(Len(codes), LAMBDA k : Is("more_rbsp_data", TRUE) \o Is(codes[k].kind, codes[k].value))
  \o Is("more_rbsp_data", FALSE)

(* Codes whose bits make runs of zero bytes and bytes 1, 2 and 3. *)
Codes ==
  [kind : {"u"}, width : {8}, value : {0, 1, 3, 4}] \cup [kind : {"u"}, width : {16}, value : {0, 3}]
  \cup [kind : {"u"}, width : {1, 7}, value : {0, 1}]
  \cup [kind : {"ue"}, value : {0, 1, 6, 7, 255}] \cup [kind : {"se"}, value : {-3, 0, 1, 127}]

ParseRbsp ==
  Part("rbsp", "done", {}, [codes : UNION {[1 .. n -> Codes] : n \in 0 .. 3}],
    LAMBDA c : ReadsRbsp(c.codes), LAMBDA c : MeantRbsp(c.codes))

---------------------------------------------------------------------------
(* SEI messages.  A message is [type, payload]; types and sizes from 255 on *)
(* take bytes of 255 first.                                                 *)

WritesExtended(value) == [k \in 1 .. value \div 255 |-> 255] \o <<value % 255>>

WritesSei(messages) ==
  FlattenSeq([k \in DOMAIN messages |-> WritesExtended(messages[k].type)
                                        \o WritesExtended(Len(messages[k].payload))
                                        \o messages[k].payload]) \o <<128>>

(* decode_sei_extended_value() *)
ExtendedValue(rbsp, pos) ==
  LET last == CHOOSE n \in pos .. Len(rbsp) : rbsp[n] # 255 /\ \A k \in pos .. n - 1 : rbsp[k] = 255
  IN  [value |-> 255 * (last - pos) + rbsp[last], next |-> last + 1]

(* parse_sei_message(): the payload is a view of the bytes. *)
SeiMessage(rbsp, pos) ==
  LET type == ExtendedValue(rbsp, pos)
      size == ExtendedValue(rbsp, type.next)
  IN  [type |-> type.value, payload |-> SubSeq(rbsp, size.next, size.next + size.value - 1),
       next |-> size.next + size.value]

(* parse_sei_rbsp() stops at a last byte that is the trailing bits, the AVC *)
(* parser where only those are left.                                        *)
SeiMessages(rbsp, more) ==
  LET from[pos \in 1 .. Len(rbsp) + 1] ==
        IF pos \notin more THEN << >>
        ELSE LET m == SeiMessage(rbsp, pos)
             IN  <<[type |-> m.type, payload |-> m.payload]>> \o from[m.next]
  IN  from[1]

HevcSei(rbsp) ==
  SeiMessages(rbsp, {pos \in DOMAIN rbsp : ~(pos = Len(rbsp) /\ rbsp[pos] = 128)})

(* What is read through a view whose bytes are gone. *)
Freed == <<-1>>

(* The AVC parser copies the payloads to one storage that it reserves again *)
(* for every message: bytes that are added move it, and the views of the    *)
(* messages before stay behind.                                             *)
AvcSei(rbsp) ==
  LET messages == SeiMessages(rbsp, {pos \in DOMAIN rbsp : MoreRbspData(rbsp, 8 * (pos - 1))})
      moved(k) == /\ messages[k].payload # << >>
                  /\ \E j \in k + 1 .. Len(messages) : messages[j].payload # << >>
  IN  [k \in DOMAIN messages |-> IF moved(k) THEN [messages[k] EXCEPT !.payload = Freed]
                                 ELSE messages[k]]

Shown(messages) == Loop(Len(messages), LAMBDA k : Is("message", messages[k]))

Payloads == {<< >>, <<0>>, <<128>>, <<0, 0, 3>>, <<0, 0, 1, 255>>, <<0, 0, 0, 0, 0>>}

SeiChoices ==
  [messages : UNION {[1 .. n -> [type : {0, 128, 254, 255, 511}, payload : Payloads]] : n \in 1 .. 2}]

ParseHevcSei ==
  Part("sei", "sei_payload", {}, SeiChoices,
    LAMBDA c : Shown(HevcSei(BuildLogicalMap(WritesEbsp(WritesSei(c.messages))))),
    LAMBDA c : Shown(c.messages))

ParseAvcSei ==
  Part("sei", "done", {},
    {c \in SeiChoices : \/ Uses("avc_sei_messages")
                        \/ \E k \in DOMAIN c.messages : \A j \in DOMAIN c.messages \ {k} :
                             c.messages[j].payload = << >>},
    LAMBDA c : Shown(AvcSei(BuildLogicalMap(WritesEbsp(WritesSei(c.messages))))),
    LAMBDA c : Shown(c.messages))

---------------------------------------------------------------------------
(* The payloads that the HEVC SEI parser understands *)

Bytes(values, width) ==
  FlattenSeq([k \in DOMAIN values |-> [n \in 1 .. width |-> (values[k] \div 256 ^ (width - n)) % 256]])

(* read_u16() and read_u32() at an offset. *)
ReadBytes(payload, offset, width) ==
  FoldLeft(LAMBDA sum, byte : 256 * sum + byte, 0, SubSeq(payload, offset + 1, offset + width))

(* parse_mastering_display_colour_volume(): three primaries and the white   *)
(* point, each x and y, then the two luminances.                            *)
MasteringDisplay(payload) ==
  Require(Len(payload) >= 24, "mastering_display_colour_volume")
  \o Is("points", [k \in 1 .. 8 |-> ReadBytes(payload, 2 * (k - 1), 2)])
  \o Is("luminance", [k \in 1 .. 2 |-> ReadBytes(payload, 16 + 4 * (k - 1), 4)])

(* parse_content_light_level_info() *)
ContentLightLevel(payload) ==
  Require(Len(payload) >= 4, "content_light_level_info")
  \o Is("levels", <<ReadBytes(payload, 0, 2), ReadBytes(payload, 2, 2)>>)

(* parse_user_data_unregistered(): an identifier of sixteen bytes. *)
UserDataUnregistered(payload) ==
  Require(Len(payload) >= 16, "user_data_unregistered")
  \o Is("uuid", SubSeq(payload, 1, 16)) \o Is("user_data", SubSeq(payload, 17, Len(payload)))

PayloadChoices ==
  [points : {[k \in 1 .. 8 |-> 256 * k + 1], [k \in 1 .. 8 |-> 65535 - k]},
   luminance : {<<1, 65536>>, <<10000, 16777217>>}, levels : {<<0, 1>>, <<1000, 400>>},
   data : {<< >>, <<1>>, <<0, 255>>}]

Uuid == [k \in 1 .. 16 |-> k]

ParseSeiPayload ==
  Part("sei_payload", "done", {}, PayloadChoices,
    LAMBDA c : MasteringDisplay(Bytes(c.points, 2) \o Bytes(c.luminance, 4))
               \o ContentLightLevel(Bytes(c.levels, 2)) \o UserDataUnregistered(Uuid \o c.data),
    LAMBDA c : Is("points", c.points) \o Is("luminance", c.luminance) \o Is("levels", c.levels)
               \o Is("uuid", Uuid) \o Is("user_data", c.data))

---------------------------------------------------------------------------

ParseBytes == ParseRbsp \/ ParseHevcSei \/ ParseAvcSei \/ ParseSeiPayload
==============================================================================
