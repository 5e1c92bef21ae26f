----------------------------- MODULE FrameCodec -----------------------------
(***************************************************************************)
(* The WebSocket frame header: how websocket_send, websocket_send_pong and *)
(* check_heartbeat build it, and how neon_parse_ws_frame reads it back     *)
(* from however many bytes have arrived.  Bytes are numbers 0 .. 255, a    *)
(* frame is its header bytes followed by payload_len bytes nobody looks    *)
(* at.  The scalar parser (scalar_parse_ws_frame) makes the same tests in  *)
(* the same order.                                                         *)
(***************************************************************************)
EXTENDS Integers, Sequences

CONSTANTS
  Opcodes,    \* opcodes of the frames that arrive
  PayloadLens \* payload lengths of the frames that arrive

ASSUME OpcodeAssumption == Opcodes \subseteq 0 .. 15
ASSUME LenAssumption == PayloadLens \subseteq Nat

VARIABLES
  sentFrame,  \* the frame on its way: [opcode, mask, payload_len]
  arrived     \* how many bytes of it (and of what follows) are in the ring

vars == <<sentFrame, arrived>>

Frames == [opcode : Opcodes, mask : BOOLEAN, payload_len : PayloadLens]
-----------------------------------------------------------------------------
(* Building.                                                               *)

(* len without its n low bytes.                                            *)
Shifted(len) ==
  LET drop[n \in 0 .. 7] == IF n = 0 THEN len ELSE drop[n - 1] \div 256
  IN  drop

(* Lengths are below 2^63: with its header a frame has a size_t of bytes.  *)
ASSUME LenFits == \A len \in PayloadLens : Shifted(len)[7] < 128

(* Byte k of the n-byte big-endian form.                                   *)
BigEndian(n, len) == [k \in 1 .. n |-> Shifted(len)[n - k] % 256]

(* The low seven bits of the second byte, and the extended length.         *)
LengthField(len) ==
  CASE len < 126   -> << len >>
    [] len >= 126 /\ len < 65536 -> << 126 >> \o BigEndian(2, len)
    [] len >= 65536 -> << 127 >> \o BigEndian(8, len)

MaskingKey == << 17, 34, 51, 68 >>

(* frame_header: FIN and the opcode, MASK and the length, the masking key. *)
FrameHeader(f) ==
  LET field == LengthField(f.payload_len)
      bit   == IF f.mask THEN 128 ELSE 0
      key   == IF f.mask THEN MaskingKey ELSE << >>
  IN  << 128 + f.opcode, bit + Head(field) >> \o Tail(field) \o key
-----------------------------------------------------------------------------
(* Parsing.                                                                *)

(* A field in network byte order: ntohs, __builtin_bswap64.                *)
FromBigEndian(bytes) ==
  LET value[k \in 0 .. Len(bytes)] ==
        IF k = 0 THEN 0 ELSE 256 * value[k - 1] + bytes[k]
  IN  value[Len(bytes)]

Error    == [result |-> -1]
NeedMore == [result |-> 1]

(* Variant that does not wait for the masking key.                         *)
EagerParse(data, len) ==
  LET code == data[2] % 128
      extended == CASE code = 126 -> 2 [] code = 127 -> 8 [] OTHER -> 0
      mask == data[2] \div 128 = 1
      header == 2 + extended + (IF mask THEN 4 ELSE 0)
      payload_len == IF extended = 0 THEN code
                     ELSE FromBigEndian(SubSeq(data, 3, 2 + extended))
  IN  CASE len < 2 -> Error
        [] len >= 2 /\ len < 2 + extended -> NeedMore
        [] len >= 2 + extended /\ len < 2 + extended + payload_len -> NeedMore
        [] OTHER -> [result |-> 0, opcode |-> data[1] % 16, mask |-> mask,
                     payload_len |-> payload_len, header_size |-> header]

(* neon_parse_ws_frame(data, len): data[1] is the first byte, len how many *)
(* bytes may be looked at.  A field is only evaluated once len covers it.  *)
neon_parse_ws_frame(data, len) ==
  LET code == data[2] % 128
      extended == CASE code = 126 -> 2 [] code = 127 -> 8 [] OTHER -> 0
      mask == data[2] \div 128 = 1
      header == 2 + extended + (IF mask THEN 4 ELSE 0)
      payload_len == IF extended = 0 THEN code
                     ELSE FromBigEndian(SubSeq(data, 3, 2 + extended))
  IN  CASE len < 2 -> Error
        [] len >= 2 /\ len < 2 + extended -> NeedMore
        [] len >= 2 + extended /\ len < header -> NeedMore
        [] len >= header /\ len < header + payload_len -> NeedMore
        [] OTHER -> [result |-> 0, opcode |-> data[1] % 16, mask |-> mask,
                     payload_len |-> payload_len, header_size |-> header]
-----------------------------------------------------------------------------
FrameSize(f) == Len(FrameHeader(f)) + f.payload_len

(* The parser's view: no byte beyond those that arrived exists.            *)
Data == LET h == FrameHeader(sentFrame)
        IN  SubSeq(h, 1, IF arrived < Len(h) THEN arrived ELSE Len(h))
Parsed == neon_parse_ws_frame(Data, arrived)

Init == sentFrame \in Frames /\ arrived = 0

(* How the network may cut a frame: at every header byte and around the    *)
(* end of the frame.                                                       *)
Cuts == 1 .. 15 \cup (FrameSize(sentFrame) - 1 .. FrameSize(sentFrame) + 1)

Arrive ==
  /\ \E n \in Cuts : n > arrived /\ n <= FrameSize(sentFrame) + 1 /\ arrived' = n
  /\ UNCHANGED sentFrame

(* The frame has been parsed; the next one starts.                         *)
Consume ==
  /\ Parsed.result = 0
  /\ sentFrame' \in Frames
  /\ arrived' = 0

Next == Arrive \/ Consume

Spec == Init /\ [][Next]_vars
-----------------------------------------------------------------------------
(* A frame is reported exactly when its last byte has arrived, wherever    *)
(* the network cuts it, and what is reported is what was built: opcode,    *)
(* mask, payload length and the place of the payload.                      *)
RoundTrip ==
  /\ Parsed.result = 0 <=> arrived >= FrameSize(sentFrame)
  /\ Parsed.result = 0 =>
       /\ Parsed.opcode = sentFrame.opcode
       /\ Parsed.mask = sentFrame.mask
       /\ Parsed.payload_len = sentFrame.payload_len
       /\ Parsed.header_size = Len(FrameHeader(sentFrame))

(* "Returns 0 on success, -1 on error, >0 if more data needed"             *)
(* (parser_neon.h): part of a valid frame is no error.                     *)
PartialIsNoError == arrived > 0 => Parsed.result # -1
=============================================================================
