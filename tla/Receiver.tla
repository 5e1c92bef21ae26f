------------------------------ MODULE Receiver ------------------------------
(***************************************************************************)
(* The receive path of a connected WebSocket, plain or with TLS: the       *)
(* socket, the receive ring filled in place by io_read or ssl_read, and    *)
(* websocket_process, which polls, reads once per event and runs           *)
(* process_frames until the ring holds no whole frame.  With TLS it then   *)
(* drains the TLS layer, which keeps bytes that poll does not see.         *)
(*                                                                         *)
(* The server's bytes are a fixed stream: frame k occupies the positions   *)
(* FrameStart[k] .. FrameStart[k + 1] - 1, its header first.  A byte is    *)
(* its position.  neon_parse_ws_frame is used through what FrameCodec      *)
(* shows of it: -1 below two bytes, 1 until the whole frame is there, then *)
(* 0 with the frame's sizes.  TLS neither adds nor removes positions; it   *)
(* only keeps a record back until its last byte is there.                  *)
(*                                                                         *)
(* process_frames reads linearly from buf + read_ptr.  Where it would look *)
(* beyond the end of the buffer, or does not stand at the start of a       *)
(* frame, what it does next depends on memory that holds no frame: the     *)
(* model has no step from there, and StaysInRing says it is never reached. *)
(***************************************************************************)
EXTENDS RingIndex, Sequences

CONSTANTS
  Size,         \* RINGBUFFER_SIZE
  FrameCount,   \* how many frames the server sends
  FrameStart,   \* where each begins, and where the last one ends
  Opcode,       \* their opcodes
  RecordEnds,   \* positions at which the server ended a TLS record
  ResponseLen,  \* bytes of the handshake response, consumed before
  MaxEarly,     \* most bytes of frames that come with the response
  MaxRecv,      \* most bytes one recvmsg returns: the socket's receive buffer
  MaxSslRead,   \* most bytes one ssl_read returns: read_buf_size
  MaxAttempts,  \* max_parse_attempts
  MaxReads,     \* max_ssl_reads
  MaxRounds,    \* 50: passes over the ring after one ssl_read
  RetryReads,   \* 5: an empty ssl_read is repeated before so many reads
  PeerMayClose, \* whether the server closes the TCP connection in the end
  AppMayClose   \* whether on_message may call websocket_close

ASSUME ReceiverAssumption ==
  /\ {Size, MaxRecv, MaxSslRead, MaxAttempts, MaxReads} \subseteq Nat \ {0}
  /\ {MaxEarly, MaxRounds, RetryReads} \subseteq Nat
  /\ ResponseLen \in 1 .. Size - 1 /\ RecordEnds \subseteq Nat
  /\ {PeerMayClose, AppMayClose} \subseteq BOOLEAN

(* A frame has two bytes at least.                                         *)
ASSUME StreamAssumption ==
  /\ FrameCount \in Nat
  /\ FrameStart \in [1 .. FrameCount + 1 -> Nat] /\ FrameStart[1] = 0
  /\ \A j, k \in 1 .. FrameCount + 1 : j < k => FrameStart[j] + 2 <= FrameStart[k]
  /\ Opcode \in [1 .. FrameCount ->
                   {"CONT", "TEXT", "BINARY", "CLOSE", "PING", "PONG"}]

FrameSize(k) == FrameStart[k + 1] - FrameStart[k]
Total == FrameStart[FrameCount + 1]

(* Where in the ring byte p of the stream comes to lie.                    *)
Place(p) == (ResponseLen + p) % Size

(* Traffic the code is made for: no frame straddles the end of the ring;   *)
(* a read that follows part of a frame does not fill the ring; the server  *)
(* sends nothing after a CLOSE frame; and the passes over the ring that    *)
(* are counted are enough for the frames that come at once.                *)
Fitting ==
  /\ \A k \in 1 .. FrameCount : Place(FrameStart[k]) + FrameSize(k) <= Size
  /\ \A k \in 1 .. FrameCount :
       FrameSize(k) + MaxRecv <= Size /\ FrameSize(k) + MaxSslRead <= Size
  /\ \A k \in 1 .. FrameCount : Opcode[k] = "CLOSE" => k = FrameCount
  /\ MaxEarly <= 2 * MaxAttempts
  /\ MaxEarly + MaxSslRead <= 2 * (MaxAttempts * (MaxRounds + 1))

VARIABLES
  use_ssl,    \* ws->use_ssl
  arrived,    \* bytes of the stream that reached the socket
  alert,      \* the TLS close_notify: not sent, in the socket, or read
  fin,        \* the server's FIN reached the socket
  opened,     \* bytes the TLS layer has taken from the socket
  taken,      \* bytes io_read or ssl_read has moved into the ring
  buf, read_ptr, write_ptr,   \* ws->rx_ring
  state,      \* ws->state
  fd,         \* ws->fd >= 0: the socket is open and in the kqueue
  pf,         \* where websocket_process stands, and process_frames' locals
  drain,      \* the locals of the TLS drain loop
  handled     \* history: the frames dispatched, in order

ring == <<buf, read_ptr, write_ptr>>
network == <<use_ssl, arrived, alert, fin>>
vars == <<network, opened, taken, ring, state, fd, pf, drain, handled>>

Idle == [phase |-> "idle", len |-> 0, offset |-> 0, attempts |-> 0, consumed |-> 0]
NoDrain == [reads |-> 0, progress |-> FALSE, rounds |-> 0]

(* The entry of process_frames: ringbuffer_read_inline.                    *)
FramesPass(phase, rp, wp) ==
  [Idle EXCEPT !.phase = phase, !.len = Readable(Size, rp, wp)]
BeginFrames(phase) == FramesPass(phase, read_ptr', write_ptr')

(* What websocket_process goes on with after the events while connected:   *)
(* the drain loop with TLS, one pass over the ring without.                *)
AfterEvents(ssl, rp, wp) ==
  IF ssl THEN [Idle EXCEPT !.phase = "read"] ELSE FramesPass("final", rp, wp)

(* The bytes up to p are in records that are whole in the first n bytes.   *)
Decryptable(p, n) == p = 0 \/ \E r \in RecordEnds : p <= r /\ r <= n

(* The handshake has just succeeded within websocket_process.  The reads   *)
(* that brought the response may have brought n bytes of frames with it.   *)
Init ==
  /\ use_ssl \in BOOLEAN /\ alert = "no" /\ fin = FALSE
  /\ \E n \in 0 .. MaxEarly :
       /\ ResponseLen + n < Size
       /\ taken = n /\ opened \in n .. Total /\ arrived = opened
       /\ IF use_ssl THEN Decryptable(n, opened) ELSE n = opened
       /\ buf = [i \in 0 .. Size - 1 |->
                   IF i >= ResponseLen /\ i < ResponseLen + n THEN i - ResponseLen ELSE -1]
       /\ read_ptr = ResponseLen /\ write_ptr = ResponseLen + n
  /\ state = "CONNECTED" /\ fd = TRUE
  /\ pf = AfterEvents(use_ssl, read_ptr, write_ptr)
  /\ drain = NoDrain
  /\ handled = << >>
-----------------------------------------------------------------------------
(* The network and the server.                                             *)

Deliver ==
  /\ \E n \in arrived + 1 .. Total : arrived' = n
  /\ ~fin
  /\ UNCHANGED <<use_ssl, alert, fin, opened, taken, ring, state, fd, pf, drain, handled>>

(* Over TLS the server may say that it closes before it does.              *)
CloseNotify ==
  /\ PeerMayClose /\ use_ssl /\ arrived = Total /\ ~fin /\ alert = "no"
  /\ alert' = "sent"
  /\ UNCHANGED <<use_ssl, arrived, fin, opened, taken, ring, state, fd, pf, drain, handled>>

PeerClose ==
  /\ PeerMayClose /\ arrived = Total /\ ~fin
  /\ fin' = TRUE
  /\ UNCHANGED <<use_ssl, arrived, alert, opened, taken, ring, state, fd, pf, drain, handled>>
-----------------------------------------------------------------------------
(* websocket_process: the poll and what it leads to.                       *)

(* recvmsg into the contiguous room at write_ptr.                          *)
Received(n) ==
  [i \in 0 .. Size - 1 |->
     IF i >= write_ptr /\ i < write_ptr + n THEN taken + i - write_ptr ELSE buf[i]]

(* n bytes go to the contiguous room at write_ptr.                         *)
FillRing(n) ==
  /\ n <= InlineSpace(Size, read_ptr, write_ptr)
  /\ buf' = Received(n)
  /\ write_ptr' = Advance(Size, write_ptr, n)
  /\ taken' = taken + n
  /\ UNCHANGED read_ptr

RingFull == InlineSpace(Size, read_ptr, write_ptr) = 0

(* Without room the socket is left alone.                                  *)
io_read ==
  /\ IF RingFull THEN UNCHANGED <<taken, ring>>
                 ELSE \E n \in 1 .. MaxRecv : taken + n <= arrived /\ FillRing(n)
  /\ opened' = taken'

(* ssl_read_func, called by the TLS library: bytes leave the socket, up to *)
(* position o of the stream.                                               *)
ssl_read_func(o) == o \in opened .. arrived /\ opened' = o

(* ssl_read returns bytes: of records the TLS layer holds, or takes from   *)
(* the socket to return them.                                              *)
SslReadData ==
  \E o \in opened .. arrived, n \in 1 .. MaxSslRead :
    /\ ssl_read_func(o)
    /\ Decryptable(taken + n, o)
    /\ FillRing(n)

(* ssl_read returns 0: the ring has no room, or errSSLWouldBlock: what the *)
(* socket has does not complete a record, and is in the TLS layer now.     *)
(* The code looks at actual only with noErr, so the TLS library is taken   *)
(* to hand over no byte with errSSLWouldBlock.                             *)
SslReadNothing ==
  /\ ~RingFull => ~Decryptable(taken + 1, arrived) /\ alert = "no" /\ ~fin
  /\ IF RingFull THEN UNCHANGED opened ELSE ssl_read_func(arrived)
  /\ UNCHANGED <<taken, ring>>

(* ssl_read returns -1: all bytes are out and the end has been read.       *)
SslReadEnd ==
  /\ ~RingFull /\ taken = arrived /\ (alert # "no" \/ fin)
  /\ alert' = IF alert = "no" THEN "no" ELSE "read"
  /\ UNCHANGED <<opened, taken, ring>>

(* What poll sees.                                                         *)
SocketHasBytes == opened < arrived \/ alert = "sent"

(* A read event: one io_read or ssl_read, whose result is not looked at,   *)
(* then frames are processed if connected.                                 *)
ReadEvent ==
  /\ pf.phase = "idle" /\ fd /\ ~fin
  /\ SocketHasBytes
  /\ \/ ~use_ssl /\ io_read /\ UNCHANGED alert
     \/ use_ssl /\ (SslReadData \/ SslReadNothing) /\ UNCHANGED alert
     \/ use_ssl /\ SslReadEnd
  /\ pf' = IF state = "CONNECTED" THEN BeginFrames("first") ELSE Idle
  /\ UNCHANGED <<use_ssl, arrived, fin, state, fd, drain, handled>>

(* An event with EV_EOF: reported as soon as the FIN is in, whether or not *)
(* bytes wait before it.  The socket is not read, and stays open.          *)
EofEvent ==
  /\ pf.phase = "idle" /\ fd /\ fin
  /\ state' = IF state = "CONNECTED" THEN "CLOSED" ELSE state
  /\ UNCHANGED <<network, opened, taken, ring, fd, pf, drain, handled>>

(* Variant: the TLS layer is only drained after an event.                  *)
EventDrivenDrain ==
  /\ pf.phase = "idle"
  /\ fd => ~SocketHasBytes /\ ~fin
  /\ pf' = IF state = "CONNECTED"
             THEN FramesPass("final", read_ptr, write_ptr) ELSE Idle
  /\ UNCHANGED <<network, opened, taken, ring, state, fd, drain, handled>>

(* No event: websocket_process goes on all the same.                       *)
NoEvent ==
  /\ pf.phase = "idle"
  /\ fd => ~SocketHasBytes /\ ~fin
  /\ pf' = IF state = "CONNECTED"
             THEN AfterEvents(use_ssl, read_ptr, write_ptr) ELSE Idle
  /\ UNCHANGED <<network, opened, taken, ring, state, fd, drain, handled>>
-----------------------------------------------------------------------------
(* The drain loop.                                                         *)

(* One ssl_read and the process_frames that follows it; -1 also closes the *)
(* connection, with on_error.                                              *)
DrainRead ==
  /\ pf.phase = "read"
  /\ \/ /\ SslReadData
        /\ drain' = [drain EXCEPT !.reads = @ + 1, !.progress = TRUE]
        /\ pf' = BeginFrames("data")
        /\ UNCHANGED <<alert, state>>
     \/ /\ SslReadNothing
        /\ drain' = [drain EXCEPT !.reads = @ + 1]
        /\ pf' = BeginFrames("nothing")
        /\ UNCHANGED <<alert, state>>
     \/ /\ SslReadEnd
        /\ drain' = NoDrain
        /\ pf' = BeginFrames("closed")
        /\ state' = "CLOSED"
  /\ UNCHANGED <<use_ssl, arrived, fin, fd, handled>>

(* The next turn of the loop, or the pass over the ring behind it.         *)
NextRead(again) ==
  IF state = "CONNECTED" /\ again /\ drain.reads < MaxReads
    THEN pf' = [Idle EXCEPT !.phase = "read"] /\ drain' = [drain EXCEPT !.rounds = 0]
    ELSE /\ pf' = IF state = "CONNECTED" THEN BeginFrames("final") ELSE Idle
         /\ drain' = NoDrain
-----------------------------------------------------------------------------
(* process_frames.                                                         *)

Busy == pf.phase \notin {"idle", "read"}
InLoop == Busy /\ pf.offset < pf.len /\ pf.attempts < MaxAttempts

(* What the parser finds i bytes after data + offset; -2 beyond the buffer.*)
ByteAt(i) ==
  LET a == read_ptr + pf.offset + i IN IF a < Size THEN buf[a] ELSE -2

Left == pf.len - pf.offset
Covered(k) == Smaller(Left, FrameSize(k))

(* The bytes up to the end of frame k, or of the data, are those of k.     *)
StandsAt(k) ==
  \A i \in 0 .. Covered(k) - 1 : ByteAt(i) = FrameStart[k] + i

(* Variant: a frame that ends with the data is taken for incomplete.       *)
StrictComplete(k) == Left > FrameSize(k)

(* Variant: the last byte of a frame is not waited for.                    *)
LooseComplete(k) == Left + 1 >= FrameSize(k)

(* "len < total_frame_size" does not hold in the parser.                   *)
Complete(k) == Left >= FrameSize(k)

(* One byte is left: the parser returns -1, the loop skips it without      *)
(* consuming it.                                                           *)
ParseError ==
  /\ InLoop /\ Left < 2
  /\ pf' = [pf EXCEPT !.offset = @ + 1, !.attempts = @ + 1]
  /\ UNCHANGED <<network, opened, taken, ring, state, fd, drain, handled>>

(* The frame is not complete: the parser returns 1, the loop ends.         *)
NeedMore ==
  /\ InLoop /\ Left >= 2
  /\ \E k \in 1 .. FrameCount : StandsAt(k) /\ ~Complete(k)
  /\ pf' = [pf EXCEPT !.attempts = MaxAttempts]
  /\ UNCHANGED <<network, opened, taken, ring, state, fd, drain, handled>>

(* A whole frame is dispatched on its opcode.  on_message may close the    *)
(* connection; the loop goes on with the frames behind it.  A CONT frame   *)
(* is consumed and handed to nobody: messages are not put together.        *)
Dispatch(k) ==
  /\ handled' = Append(handled, k)
  /\ CASE Opcode[k] \in {"TEXT", "BINARY"} ->
            \/ UNCHANGED <<state, fd>>
            \/ AppMayClose /\ state' = "CLOSED" /\ fd' = FALSE
       [] Opcode[k] = "CLOSE" -> state' = "CLOSING" /\ UNCHANGED fd
       [] OTHER -> UNCHANGED <<state, fd>>

ParseFrame ==
  /\ InLoop /\ Left >= 2
  /\ \E k \in 1 .. FrameCount :
       /\ StandsAt(k) /\ Complete(k)
       /\ Dispatch(k)
       /\ pf' = [pf EXCEPT !.offset = @ + FrameSize(k), !.attempts = @ + 1,
                           !.consumed = @ + FrameSize(k)]
  /\ UNCHANGED <<network, opened, taken, ring, drain>>

(* Variant: the skipped byte counts as consumed.                           *)
OffsetConsumed == pf.offset

(* What process_frames adds to read_ptr: total_consumed.                   *)
Consumed == pf.consumed

(* The loop ends and read_ptr moves.  What follows depends on the caller:  *)
(* after an event, calls until one leaves read_ptr where it was; in the    *)
(* drain loop the same, but only while connected and so many times.        *)
EndFrames ==
  /\ Busy /\ ~InLoop
  /\ read_ptr' = Advance(Size, read_ptr, Consumed)
  /\ UNCHANGED <<network, opened, taken, buf, write_ptr, state, fd, handled>>
  /\ LET moved == read_ptr' # read_ptr
         rounds == drain.rounds + (IF pf.phase = "round" THEN 1 ELSE 0)
     IN  CASE pf.phase = "first" \/ (pf.phase = "again" /\ moved) ->
                pf' = BeginFrames("again") /\ UNCHANGED drain
           [] pf.phase = "again" /\ ~moved ->
                /\ pf' = IF state = "CONNECTED"
                           THEN AfterEvents(use_ssl, read_ptr', write_ptr') ELSE Idle
                /\ UNCHANGED drain
           [] pf.phase = "data" \/ (pf.phase = "round" /\ moved) ->
                IF state = "CONNECTED" /\ rounds < MaxRounds
                  THEN pf' = BeginFrames("round") /\ drain' = [drain EXCEPT !.rounds = rounds]
                  ELSE NextRead(TRUE)
           [] pf.phase = "round" /\ ~moved -> NextRead(TRUE)
           [] pf.phase = "nothing" ->
                NextRead(drain.progress /\ drain.reads < RetryReads)
           [] pf.phase \in {"closed", "final"} -> pf' = Idle /\ UNCHANGED drain
-----------------------------------------------------------------------------
process_frames == ParseError \/ NeedMore \/ ParseFrame \/ EndFrames
websocket_process == ReadEvent \/ EofEvent \/ NoEvent \/ DrainRead \/ process_frames

Next == Deliver \/ CloseNotify \/ PeerClose \/ websocket_process

Spec == Init /\ [][Next]_vars

(* Fairness: the application keeps calling websocket_process from its      *)
(* event loop; each call ends.                                             *)
FairSpec == Spec /\ WF_vars(websocket_process)
-----------------------------------------------------------------------------
(* Stream position of read_ptr: everything before it has been consumed.    *)
Position == FrameStart[Len(handled) + 1] - pf.consumed

(* Types of the state; the pointers stay inside the buffer, and the TLS    *)
(* layer between the socket and the ring.                                  *)
TypeOK ==
  /\ {use_ssl, fin, fd} \subseteq BOOLEAN /\ alert \in {"no", "sent", "read"}
  /\ arrived \in 0 .. Total /\ opened \in 0 .. arrived /\ taken \in 0 .. opened
  /\ ~use_ssl => opened = taken
  /\ buf \in [0 .. Size - 1 -> -1 .. Total - 1]
  /\ read_ptr \in 0 .. Size - 1 /\ write_ptr \in 0 .. Size - 1
  /\ state \in {"CONNECTED", "CLOSING", "CLOSED"}
  /\ pf.phase \in {"idle", "first", "again", "read", "data", "round", "nothing",
                    "closed", "final"}
  /\ {pf.len, pf.offset, pf.consumed} \subseteq 0 .. Size
  /\ pf.attempts \in 0 .. MaxAttempts
  /\ drain \in [reads : 0 .. MaxReads, progress : BOOLEAN, rounds : 0 .. MaxRounds]
  /\ handled \in Seq(1 .. FrameCount)

(* process_frames always stands at the start of a frame and never looks    *)
(* beyond the end of the buffer: "payload pointer to point to payload in   *)
(* ringbuffer".                                                            *)
StaysInRing == InLoop /\ Left >= 2 => \E k \in 1 .. FrameCount : StandsAt(k)

(* The pointers tell how much is unread: the bytes between them are the    *)
(* ones received and not consumed, no byte is lost because a full ring     *)
(* looks empty.                                                            *)
NothingLost == Readable(Size, read_ptr, write_ptr) = taken - Position

(* When websocket_process returns, no whole frame is left in the ring:     *)
(* neither while connected, nor when the end of the connection has been    *)
(* reported by an EOF or by the TLS layer.  (The application or a CLOSE    *)
(* frame may end the connection before frames that are already there.)     *)
Drained ==
  pf.phase = "idle" /\ fd /\ state # "CLOSING" =>
    \A k \in 1 .. FrameCount : FrameStart[k + 1] <= taken => k <= Len(handled)

(* on_message is "Called when a complete WebSocket message is received"    *)
(* (websocket.h): at the latest before the end of the connection is        *)
(* reported.                                                               *)
ReportedBeforeEof ==
  fin /\ fd /\ state = "CLOSED" =>
    \A k \in 1 .. FrameCount : FrameStart[k + 1] <= arrived => k <= Len(handled)

(* The frames that have come: over TLS, once their record is whole.        *)
WholeArrived ==
  {k \in 1 .. FrameCount : IF use_ssl THEN Decryptable(FrameStart[k + 1], arrived)
                                      ELSE FrameStart[k + 1] <= arrived}
Channel == INSTANCE MessageChannel
             WITH Messages <- FrameCount, in <- WholeArrived, out <- handled,
                  open <- state = "CONNECTED"

(* What the application sees is a message channel: process_frames          *)
(* dispatches frames only once they have arrived, in order, each once,     *)
(* however TCP and TLS cut the stream.                                     *)
ImplementsChannel == Channel!Spec

(* Each frame that has arrived is dispatched as long as the connection is  *)
(* up, although poll does not show what the TLS layer holds.               *)
ChannelDelivers == Channel!Delivers
=============================================================================
