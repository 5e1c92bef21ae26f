------------------------------- MODULE Sender -------------------------------
(***************************************************************************)
(* The send path of a WebSocket, plain or with TLS: the handshake request, *)
(* websocket_send, the pong that answers a ping, the heartbeat ping,       *)
(* tx_ring, io_write and ssl_write.                                        *)
(*                                                                         *)
(* tx_ring is the bounded first-in first-out stream that SpscRingProofs    *)
(* shows ringbuffer.c to be; io_write takes any number of bytes from its   *)
(* front, across the wrap (writev with two parts).  ssl_write hands all of *)
(* it to the TLS layer as one stretch from read_ptr: what would be across  *)
(* the wrap comes from behind the buffer instead.  Encryption keeps bytes  *)
(* and their order.  Byte i of frame f is [f |-> f, i |-> i], a byte from  *)
(* behind the buffer is Stray; frames are numbered in the order of the     *)
(* calls, the handshake request is frame 1.                                *)
(***************************************************************************)
EXTENDS Integers, Sequences, FiniteSets

CONSTANTS
  Capacity,  \* RINGBUFFER_SIZE - 1
  SendBuffer, \* bytes the kernel holds for the network (SO_SNDBUF)
  Requests,  \* lengths of the handshake request
  Payloads,  \* payload lengths the application and the server use
  MaxFrames, \* bound: frames that are begun
  MaxRepeats \* bound: TLS writes that take bytes and report errSSLWouldBlock

ASSUME SenderAssumption ==
  /\ Capacity \in Nat /\ SendBuffer \in Nat
  /\ MaxFrames \in Nat /\ MaxRepeats \in Nat
  /\ Requests \subseteq 1 .. Capacity /\ Payloads \subseteq Nat

VARIABLES
  use_ssl,   \* ws->use_ssl
  state,     \* ws->state
  tx,        \* ws->tx_ring: the bytes that wait
  read_ptr,  \* ws->tx_ring.read_ptr
  wire,      \* the bytes the kernel has taken, and those the TLS library has
             \* queued for it
  gone,      \* how many of them the network has taken
  frames,    \* history: the frames begun: [size, masked]
  accepted,  \* history: those for which the call returned 0
  repeats    \* history: TLS writes whose bytes were taken and stay in tx

vars == <<use_ssl, state, tx, read_ptr, wire, gone, frames, accepted, repeats>>

Least(a, b) == IF a < b THEN a ELSE b
Bytes(f, n) == [i \in 1 .. n |-> [f |-> f, i |-> i]]
Stray == [f |-> 0, i |-> 0]
Size == Capacity + 1
KernelRoom == SendBuffer - (Len(wire) - gone)

(* Variant: the bytes after the wrap are written first.                    *)
SwappedWrite(queue) ==
  LET n == Least(Len(queue), KernelRoom) IN
  /\ wire' = wire \o SubSeq(queue, Len(queue) - n + 1, Len(queue))
  /\ tx' = SubSeq(queue, 1, Len(queue) - n)
  /\ read_ptr' = (read_ptr + n) % Size

(* Variant: only the part before the wrap is given to writev.              *)
OnePartWrite(queue) ==
  LET n == Least(Least(Len(queue), Size - read_ptr), KernelRoom) IN
  /\ wire' = wire \o SubSeq(queue, 1, n)
  /\ tx' = SubSeq(queue, n + 1, Len(queue))
  /\ read_ptr' = (read_ptr + n) % Size

(* io_write: writev takes what the kernel has room for; without room it    *)
(* returns -1 (EAGAIN) and takes nothing.                                  *)
io_write(queue) ==
  LET n == Least(Len(queue), KernelRoom) IN
  /\ wire' = wire \o SubSeq(queue, 1, n)
  /\ tx' = SubSeq(queue, n + 1, Len(queue))
  /\ read_ptr' = (read_ptr + n) % Size

(* ssl_write_func, called by the TLS library: how much of n bytes it can   *)
(* bring to the kernel.                                                    *)
ssl_write_func(n) == IF n <= KernelRoom THEN {n} ELSE 0 .. KernelRoom

(* The first n of the bytes from read_ptr on, taken as one stretch.        *)
Stretch(queue, n) ==
  [i \in 1 .. n |-> IF read_ptr + i <= Size THEN queue[i] ELSE Stray]

(* ssl_write.  SSLWrite takes everything if the kernel has room for it,    *)
(* and otherwise some of it or nothing: noErr moves read_ptr by what was   *)
(* taken.  With errSSLWouldBlock the code returns 0 whatever "written"     *)
(* says: bytes the library has taken by then stay in tx_ring and are       *)
(* handed over again.                                                      *)
ssl_write(queue) ==
  \/ \E n \in ssl_write_func(Len(queue)) :
       /\ wire' = wire \o Stretch(queue, n)
       /\ tx' = SubSeq(queue, n + 1, Len(queue))
       /\ read_ptr' = (read_ptr + n) % Size
       /\ repeats' = repeats
  \/ \E n \in 0 .. Len(queue) :
       /\ Len(queue) > KernelRoom
       /\ n > 0 => repeats < MaxRepeats
       /\ wire' = wire \o Stretch(queue, n)
       /\ tx' = queue /\ read_ptr' = read_ptr
       /\ repeats' = IF n > 0 THEN repeats + 1 ELSE repeats

Flush(queue) ==
  IF use_ssl THEN ssl_write(queue) ELSE io_write(queue) /\ repeats' = repeats

(* websocket_connect up to the send_handshake that fills tx_ring; its      *)
(* write is the first one.                                                 *)
Init ==
  /\ use_ssl \in BOOLEAN
  /\ state = "NEW"
  /\ tx = << >> /\ read_ptr = 0 /\ wire = << >> /\ gone = 0
  /\ frames = << >> /\ accepted = {} /\ repeats = 0
-----------------------------------------------------------------------------
(* Variant: a frame that does not fit whole is cut and still sent.         *)
FlushingPut(header, payload, masked) ==
  LET f == Len(frames) + 1
      w == Least(header + payload, Capacity - Len(tx))
  IN  /\ f <= MaxFrames
      /\ frames' = Append(frames, [size |-> header + payload, masked |-> masked])
      /\ accepted' = accepted \cup {f}
      /\ Flush(tx \o Bytes(f, w))

(* Variant: the room in tx_ring is not looked at.                          *)
GreedyPut(header, payload, masked) ==
  LET f == Len(frames) + 1 IN
  /\ f <= MaxFrames
  /\ frames' = Append(frames, [size |-> header + payload, masked |-> masked])
  /\ accepted' = accepted \cup {f}
  /\ Flush(tx \o Bytes(f, header + payload))

(* Header and payload are written to tx_ring one after the other.  If      *)
(* either does not fit, what did fit stays and the call returns -1;        *)
(* otherwise tx_ring is flushed once and the call returns 0.               *)
Put(header, payload, masked) ==
  LET f == Len(frames) + 1
      h == Least(header, Capacity - Len(tx))
      p == IF h = header THEN Least(payload, Capacity - Len(tx) - h) ELSE 0
      queue == tx \o Bytes(f, h + p)
  IN  /\ f <= MaxFrames
      /\ frames' = Append(frames, [size |-> header + payload, masked |-> masked])
      /\ IF h + p = header + payload
           THEN accepted' = accepted \cup {f} /\ Flush(queue)
           ELSE accepted' = accepted /\ tx' = queue /\ UNCHANGED <<wire, read_ptr, repeats>>

send_handshake ==
  /\ state = "NEW"
  /\ \E n \in Requests : Put(n, 0, TRUE)
  /\ state' = "CONNECTING"
  /\ UNCHANGED <<use_ssl, gone>>

(* The frames: header sizes are those of payloads below 126 bytes.         *)
websocket_send(payload) == payload > 0 /\ Put(2, payload, FALSE)
websocket_send_pong(payload) == Put(6, payload, TRUE)
check_heartbeat == Put(2, 0, FALSE)

Send ==
  /\ state = "CONNECTED"
  /\ \/ \E payload \in Payloads :
          websocket_send(payload) \/ websocket_send_pong(payload)
     \/ check_heartbeat
  /\ UNCHANGED <<use_ssl, state, gone>>

(* With TLS, a read event while connecting writes what is left of the      *)
(* request.  (Without, nothing does.)                                      *)
TlsHandshakeEvent ==
  /\ use_ssl /\ state = "CONNECTING"
  /\ ssl_write(tx)
  /\ UNCHANGED <<use_ssl, state, gone, frames, accepted>>

(* The server answers the handshake once it has the whole request.  (The   *)
(* write event websocket_process then registers needs a non-empty tx_ring, *)
(* and no branch handles EVFILT_WRITE.)                                    *)
HandshakeDone ==
  /\ state = "CONNECTING"
  /\ \A i \in 1 .. frames[1].size : \E k \in 1 .. gone : wire[k] = [f |-> 1, i |-> i]
  /\ state' = "CONNECTED"
  /\ UNCHANGED <<use_ssl, tx, read_ptr, wire, gone, frames, accepted, repeats>>

(* The network takes bytes from the kernel.                                *)
Network ==
  /\ \E n \in gone + 1 .. Len(wire) : gone' = n
  /\ UNCHANGED <<use_ssl, state, tx, read_ptr, wire, frames, accepted, repeats>>

Next == send_handshake \/ Send \/ TlsHandshakeEvent \/ HandshakeDone \/ Network

Spec == Init /\ [][Next]_vars

(* Fairness: the network keeps taking bytes and the server answers; the    *)
(* application owes no message.                                            *)
FairSpec == Spec /\ WF_vars(Network) /\ WF_vars(HandshakeDone)
-----------------------------------------------------------------------------
Stream == wire \o tx
Positions(f) == {k \in DOMAIN Stream : Stream[k].f = f}

(* Types of the state; tx_ring never holds more than it can, nor the       *)
(* kernel; only a TLS write takes bytes and leaves them where they are.    *)
TypeOK ==
  /\ use_ssl \in BOOLEAN /\ state \in {"NEW", "CONNECTING", "CONNECTED"}
  /\ Len(tx) <= Capacity /\ read_ptr \in 0 .. Capacity
  /\ gone <= Len(wire) /\ repeats \in 0 .. MaxRepeats
  /\ ~use_ssl => Len(wire) - gone <= SendBuffer /\ repeats = 0
  /\ accepted \subseteq DOMAIN frames
  /\ \A k \in DOMAIN Stream : Stream[k] # Stray =>
       Stream[k].f \in DOMAIN frames /\ Stream[k].i \in 1 .. frames[Stream[k].f].size

(* "Zero-copy" writes stay within tx_ring.                                 *)
StaysInRing == \A k \in DOMAIN wire : wire[k] # Stray

(* A frame whose call returned 0 is on the wire or in tx_ring as a whole,  *)
(* in one piece, byte after byte, whatever calls before or after it failed *)
(* and however the kernel cuts the stream.  A TLS write that meets the     *)
(* wrap of tx_ring puts other bytes in the place of some.  Once a TLS      *)
(* write that took bytes has reported errSSLWouldBlock, pieces of frames   *)
(* come more than once; what remains is that no byte of the frame is       *)
(* missing, if no write has met the wrap.                                  *)
AcceptedIntact ==
  \A f \in accepted :
    IF repeats = 0
      THEN \E from \in 0 .. Len(Stream) - frames[f].size :
             /\ Positions(f) \subseteq from + 1 .. from + frames[f].size
             /\ \A i \in 1 .. frames[f].size :
                  \/ Stream[from + i] = [f |-> f, i |-> i]
                  \/ Stream[from + i] = Stray /\ use_ssl
      ELSE StaysInRing =>
             \A i \in 1 .. frames[f].size :
               \E k \in DOMAIN Stream : Stream[k] = [f |-> f, i |-> i]

Before(a, b) == a.f < b.f \/ (a.f = b.f /\ a.i < b.i)

(* Bytes leave in the order of the calls and of the frame, each once, also *)
(* when others go missing.  After a TLS write that took bytes and reported *)
(* errSSLWouldBlock, a byte may come out of its turn, if it has come in    *)
(* its turn already.                                                       *)
InCallOrder ==
  \A j, k \in DOMAIN Stream :
    j < k /\ Stray \notin {Stream[j], Stream[k]} =>
      \/ Before(Stream[j], Stream[k])
      \/ repeats > 0 /\ \E i \in 1 .. j : Stream[i] = Stream[k]

(* What a short write or a failed call left in tx_ring leaves with the     *)
(* next call that returns 0, once the kernel has room for all of it.       *)
(* Nothing else flushes tx_ring: websocket_send and the others ignore what *)
(* the write returns.                                                      *)
NextSendFlushes ==
  [][accepted' # accepted /\ Len(tx) + frames'[Len(frames')].size <= KernelRoom
       => tx' = << >>]_vars

(* "RFC 6455 compliant" (README): what goes to the server is a sequence of *)
(* whole frames.                                                           *)
WholeFrames ==
  \A f \in DOMAIN frames : Positions(f) # {} => Cardinality(Positions(f)) = frames[f].size

(* "RFC 6455 requires client-to-server frames to be MASKED" (websocket.c). *)
ClientFramesMasked == \A f \in DOMAIN frames : frames[f].masked

(* "Re-register write event if tx_ring has data" (websocket.c): what waits *)
(* is eventually written.                                                  *)
Flushed == tx # << >> ~> tx = << >>
=============================================================================
