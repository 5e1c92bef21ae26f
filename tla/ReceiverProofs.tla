--------------------------- MODULE ReceiverProofs ---------------------------
(***************************************************************************)
(* Proofs about Receiver for every size of the ring, every stream of       *)
(* frames and every limit on reads and passes.  The types need no more     *)
(* than that; that frames are found, none is lost and all are dispatched   *)
(* in order is proved for Fitting traffic.                                 *)
(***************************************************************************)
EXTENDS Receiver, TLAPS

Phases == {"idle", "first", "again", "read", "data", "round", "nothing", "closed", "final"}
PassState ==
  [phase : Phases, len : 0 .. Size, offset : 0 .. Size, attempts : 0 .. MaxAttempts,
   consumed : 0 .. Size]

DrainState == [reads : 0 .. MaxReads, progress : BOOLEAN, rounds : 0 .. MaxRounds]

(* The types, and why the counters of the loops stay within theirs.        *)
NetTypes ==
  /\ use_ssl \in BOOLEAN /\ fin \in BOOLEAN /\ fd \in BOOLEAN
  /\ alert \in {"no", "sent", "read"}
  /\ arrived \in 0 .. Total /\ opened \in 0 .. arrived /\ taken \in 0 .. opened
  /\ ~use_ssl => opened = taken
RingTypes ==
  /\ buf \in [0 .. Size - 1 -> -1 .. Total - 1]
  /\ read_ptr \in 0 .. Size - 1 /\ write_ptr \in 0 .. Size - 1
FrameTypes ==
  state \in {"CONNECTED", "CLOSING", "CLOSED"} /\ handled \in Seq(1 .. FrameCount)
LoopTypes ==
  /\ pf \in PassState /\ drain \in DrainState
  /\ pf.consumed <= pf.offset /\ pf.offset <= pf.len
  /\ pf.phase = "read" => drain.reads < MaxReads
  /\ pf.phase \in {"read", "data", "round", "nothing"} => use_ssl
  /\ pf.phase \notin {"read", "data", "round", "nothing"} => drain = NoDrain
Types == NetTypes /\ RingTypes /\ FrameTypes /\ LoopTypes
-----------------------------------------------------------------------------
Done == Len(handled)
Unread == taken - Position

(* Of the first t bytes, no more than b follow the frame after d frames:   *)
(* it is not whole if b < 0.                                               *)
Beyond(d, t, b) == d < FrameCount => t - FrameStart[d + 2] <= b
Spare(b) == Beyond(Done, taken, b)
NoWhole == Spare(-1)

(* n bytes of the stream, from position p on, lie in one piece from rp on, *)
(* short of the whole ring, and wp stands behind them.                     *)
Holds(b, rp, wp, p, n) ==
  /\ rp = Place(p) /\ n < Size /\ rp + n <= Size
  /\ wp = IF rp + n = Size THEN 0 ELSE rp + n
  /\ \A i \in 0 .. n - 1 : b[rp + i] = p + i

(* The ring holds what is unread.                                          *)
RingInv ==
  /\ Done <= FrameCount
  /\ Position >= 0 /\ Position + pf.consumed <= taken
  /\ Holds(buf, read_ptr, write_ptr, Position, Unread)

(* A pass of process_frames: it covers what is unread; it skips a byte     *)
(* only at the end; as long as a whole frame is left every attempt has     *)
(* consumed one.                                                           *)
PassInv ==
  /\ ~Busy => pf.consumed = 0
  /\ Busy =>
       /\ pf.len = Unread
       /\ pf.offset = pf.consumed \/ pf.offset = pf.len
       /\ NoWhole \/ (pf.offset = pf.consumed /\ pf.consumed >= 2 * pf.attempts)

(* The handshake is over and nothing has been read since.                  *)
Early == Done = 0 /\ taken <= MaxEarly /\ ResponseLen + taken < Size

(* How many bytes can still follow the next frame, by phase.               *)
BudgetInv ==
  /\ pf.phase = "idle" /\ fd => NoWhole
  /\ pf.phase = "read" => NoWhole \/ Early
  /\ pf.phase = "data" => NoWhole \/ Spare(MaxEarly + MaxSslRead - 1 - 2 * pf.attempts)
  /\ pf.phase = "round" =>
       NoWhole \/ Spare(MaxEarly + MaxSslRead - 1
                          - 2 * (pf.attempts + MaxAttempts * (drain.rounds + 1)))
  /\ pf.phase \in {"nothing", "closed", "final"} =>
       NoWhole \/ Spare(MaxEarly - 2 - 2 * pf.attempts)
  /\ pf.phase \in {"read", "data", "nothing"} => drain.rounds = 0
  /\ pf.phase = "round" => drain.rounds < MaxRounds

(* The end of the connection.                                              *)
EndInv ==
  /\ pf.phase = "read" => state = "CONNECTED"
  /\ ~fd => state # "CONNECTED"
  /\ state = "CLOSING" => Done = FrameCount
  /\ fd /\ state = "CLOSED" => pf.phase \in {"idle", "closed"}
  /\ fd /\ state # "CONNECTED" => fin \/ taken = Total
  /\ alert # "no" \/ fin => arrived = Total
  /\ use_ssl => Decryptable(taken, opened)

Inv == Types /\ RingInv /\ PassInv /\ BudgetInv /\ EndInv
-----------------------------------------------------------------------------
(* Arithmetic of the ring.                                                 *)

LEMMA Divided ==
  ASSUME NEW a \in Nat, NEW n \in Nat \ {0}
  PROVE  \E q \in Nat : a = n * q + (a % n) /\ a % n \in 0 .. n - 1
<1>1. a = n * (a \div n) + (a % n) /\ a % n \in 0 .. n - 1 /\ a \div n \in Nat
  OBVIOUS
<1> QED
  BY <1>1, Zenon

LEMMA Remainder ==
  ASSUME NEW n \in Nat \ {0}, NEW q \in Nat, NEW r \in 0 .. n - 1
  PROVE  (n * q + r) % n = r
OBVIOUS

(* A pointer that is moved twice is where one move would have brought it.  *)
LEMMA TwoMoves ==
  ASSUME NEW a \in Nat, NEW c \in Nat, NEW n \in Nat \ {0}
  PROVE  ((a % n) + c) % n = (a + c) % n
<1>1. PICK q \in Nat : a = n * q + (a % n) /\ a % n \in 0 .. n - 1
  BY Divided, Zenon
<1>2. PICK r \in 0 .. n - 1 : r = a % n
  BY <1>1
<1>3. r + c \in Nat
  BY <1>2
<1>4. PICK p \in Nat : r + c = n * p + ((r + c) % n) /\ (r + c) % n \in 0 .. n - 1
  BY <1>3, Divided, Zenon
<1>5. PICK s \in 0 .. n - 1 : s = (r + c) % n
  BY <1>4
<1>6. a + c = n * q + (n * p + s)
  BY <1>1, <1>2, <1>4, <1>5
<1>7. n * q + (n * p + s) = n * (q + p) + s
  OBVIOUS
<1>8. (n * (q + p) + s) % n = s
  BY Remainder
<1> QED
  BY <1>2, <1>5, <1>6, <1>7, <1>8, Zenon

(* A move by no more than the rest of the buffer.                          *)
LEMMA ShortMove ==
  ASSUME NEW p \in 0 .. Size - 1, NEW n \in Nat, p + n <= Size
  PROVE  Advance(Size, p, n) = IF p + n = Size THEN 0 ELSE p + n
<1> USE ReceiverAssumption
<1>1. CASE p + n < Size
  BY <1>1 DEF Advance
<1>2. CASE p + n = Size
  <2>1. (Size * 1 + 0) % Size = 0
    BY Remainder
  <2> QED
    BY <1>2, <2>1 DEF Advance
<1> QED
  BY <1>1, <1>2

LEMMA AdvanceInRing ==
  ASSUME NEW p \in 0 .. Size - 1, NEW n \in Nat
  PROVE  Advance(Size, p, n) \in 0 .. Size - 1
<1>1. p + n \in Nat /\ Size \in Nat \ {0}
  BY ReceiverAssumption
<1> QED
  BY <1>1, Divided DEF Advance

LEMMA ReadableInRing ==
  ASSUME NEW rp \in 0 .. Size - 1, NEW wp \in 0 .. Size - 1
  PROVE  Readable(Size, rp, wp) \in 0 .. Size
BY ReceiverAssumption DEF Readable
-----------------------------------------------------------------------------
(* Frames: they have two bytes at least, and lie before the end.           *)
LEMMA FrameFacts ==
  /\ Total \in Nat
  /\ \A k \in 1 .. FrameCount + 1 : FrameStart[k] \in Nat /\ FrameStart[k] <= Total
  /\ \A k \in 1 .. FrameCount :
       /\ FrameSize(k) \in Nat /\ FrameSize(k) >= 2
       /\ FrameStart[k + 1] = FrameStart[k] + FrameSize(k)
       /\ k + 1 \in 1 .. FrameCount + 1
<1>1. Total \in Nat /\ FrameCount \in Nat /\ FrameCount + 1 \in 1 .. FrameCount + 1
  BY StreamAssumption DEF Total
<1>2. ASSUME NEW k \in 1 .. FrameCount + 1
      PROVE  FrameStart[k] \in Nat /\ FrameStart[k] <= Total
  <2>1. FrameStart[k] \in Nat
    BY StreamAssumption
  <2>2. CASE k = FrameCount + 1
    BY <2>1, <2>2 DEF Total
  <2>3. CASE k < FrameCount + 1
    BY <1>1, <2>1, <2>3, StreamAssumption DEF Total
  <2> QED
    BY <1>1, <2>1, <2>2, <2>3
<1>3. ASSUME NEW k \in 1 .. FrameCount
      PROVE  /\ FrameSize(k) \in Nat /\ FrameSize(k) >= 2
             /\ FrameStart[k + 1] = FrameStart[k] + FrameSize(k)
             /\ k + 1 \in 1 .. FrameCount + 1
  <2>1. k \in 1 .. FrameCount + 1 /\ k + 1 \in 1 .. FrameCount + 1 /\ k < k + 1
    BY <1>1
  <2>2. FrameStart[k] + 2 <= FrameStart[k + 1]
    BY <2>1, StreamAssumption
  <2> QED
    BY <1>2, <2>1, <2>2 DEF FrameSize
<1> QED
  BY <1>1, <1>2, <1>3

(* The states between passes, and the start of a pass.                     *)
LEMMA BetweenPasses ==
  ASSUME NEW phase \in Phases
  PROVE  LET q == [Idle EXCEPT !.phase = phase]
         IN  /\ q \in PassState /\ q.phase = phase /\ q.len = 0
             /\ q.offset = 0 /\ q.attempts = 0 /\ q.consumed = 0
<1>1. [Idle EXCEPT !.phase = phase] =
        [phase |-> phase, len |-> 0, offset |-> 0, attempts |-> 0, consumed |-> 0]
  BY DEF Idle
<1>2. 0 \in 0 .. Size /\ 0 \in 0 .. MaxAttempts
  BY ReceiverAssumption
<1> QED
  BY <1>1, <1>2 DEF PassState

LEMMA PassStarts ==
  ASSUME NEW phase \in Phases, NEW rp \in 0 .. Size - 1, NEW wp \in 0 .. Size - 1
  PROVE  LET q == FramesPass(phase, rp, wp)
         IN  /\ q \in PassState /\ q.phase = phase /\ q.len = Readable(Size, rp, wp)
             /\ q.offset = 0 /\ q.attempts = 0 /\ q.consumed = 0
<1>1. PICK r \in PassState :
        /\ r = [Idle EXCEPT !.phase = phase]
        /\ r.phase = phase /\ r.offset = 0 /\ r.attempts = 0 /\ r.consumed = 0
  BY BetweenPasses, Zenon
<1>2. PICK n \in 0 .. Size : n = Readable(Size, rp, wp)
  BY ReadableInRing
<1>3. FramesPass(phase, rp, wp) = [r EXCEPT !.len = n]
  BY <1>1, <1>2 DEF FramesPass
<1>4. [r EXCEPT !.len = n] \in PassState
  BY DEF PassState
<1>5. LET q == [r EXCEPT !.len = n]
      IN  /\ q.phase = r.phase /\ q.len = n
          /\ q.offset = r.offset /\ q.attempts = r.attempts /\ q.consumed = r.consumed
  BY DEF PassState
<1> QED
  BY <1>1, <1>2, <1>3, <1>4, <1>5

LEMMA IdleFacts ==
  /\ Idle \in PassState /\ Idle.phase = "idle" /\ Idle.len = 0
  /\ Idle.offset = 0 /\ Idle.attempts = 0 /\ Idle.consumed = 0
BY ReceiverAssumption DEF Idle, PassState, Phases

LEMMA PassFields ==
  ASSUME NEW r \in PassState
  PROVE  /\ r.phase \in Phases /\ r.len \in 0 .. Size /\ r.offset \in 0 .. Size
         /\ r.attempts \in 0 .. MaxAttempts /\ r.consumed \in 0 .. Size
BY DEF PassState

(* One turn of the loop: a byte skipped, no more attempts, a frame consumed.*)
LEMMA ByteSkipped ==
  ASSUME NEW r \in PassState, r.offset < Size, r.attempts < MaxAttempts
  PROVE  LET q == [r EXCEPT !.offset = @ + 1, !.attempts = @ + 1]
         IN  /\ q \in PassState /\ q.phase = r.phase /\ q.len = r.len
             /\ q.offset = r.offset + 1 /\ q.attempts = r.attempts + 1
             /\ q.consumed = r.consumed
<1>1. r.offset + 1 \in 0 .. Size /\ r.attempts + 1 \in 0 .. MaxAttempts
  BY PassFields, ReceiverAssumption
<1>2. PICK q1 \in PassState : q1 = [r EXCEPT !.offset = r.offset + 1]
  BY <1>1, Zenon DEF PassState
<1>3. [q1 EXCEPT !.attempts = r.attempts + 1] \in PassState
  BY <1>1 DEF PassState
<1>4. [r EXCEPT !.offset = @ + 1, !.attempts = @ + 1] = [q1 EXCEPT !.attempts = r.attempts + 1]
  BY <1>2
<1>5. LET q == [r EXCEPT !.offset = @ + 1, !.attempts = @ + 1]
      IN  /\ q.phase = r.phase /\ q.len = r.len
          /\ q.offset = r.offset + 1 /\ q.attempts = r.attempts + 1
          /\ q.consumed = r.consumed
  BY DEF PassState
<1> QED
  BY <1>3, <1>4, <1>5

LEMMA LoopLeft ==
  ASSUME NEW r \in PassState
  PROVE  LET q == [r EXCEPT !.attempts = MaxAttempts]
         IN  /\ q \in PassState /\ q.phase = r.phase /\ q.len = r.len
             /\ q.offset = r.offset /\ q.attempts = MaxAttempts
             /\ q.consumed = r.consumed
<1>1. MaxAttempts \in 0 .. MaxAttempts
  BY ReceiverAssumption
<1>2. [r EXCEPT !.attempts = MaxAttempts] \in PassState
  BY <1>1 DEF PassState
<1>3. LET q == [r EXCEPT !.attempts = MaxAttempts]
      IN  /\ q.phase = r.phase /\ q.len = r.len
          /\ q.offset = r.offset /\ q.attempts = MaxAttempts
          /\ q.consumed = r.consumed
  BY DEF PassState
<1> QED
  BY <1>2, <1>3

LEMMA FrameConsumed ==
  ASSUME NEW r \in PassState, NEW n \in Nat, r.attempts < MaxAttempts,
         r.offset + n <= Size, r.consumed + n <= Size
  PROVE  LET q == [r EXCEPT !.offset = @ + n, !.attempts = @ + 1, !.consumed = @ + n]
         IN  /\ q \in PassState /\ q.phase = r.phase /\ q.len = r.len
             /\ q.offset = r.offset + n /\ q.attempts = r.attempts + 1
             /\ q.consumed = r.consumed + n
<1>1. /\ r.offset + n \in 0 .. Size /\ r.attempts + 1 \in 0 .. MaxAttempts
      /\ r.consumed + n \in 0 .. Size
  BY PassFields, ReceiverAssumption
<1>2. PICK q1 \in PassState : q1 = [r EXCEPT !.offset = r.offset + n]
  BY <1>1, Zenon DEF PassState
<1>3. PICK q2 \in PassState : q2 = [q1 EXCEPT !.attempts = r.attempts + 1]
  BY <1>1, Zenon DEF PassState
<1>4. [q2 EXCEPT !.consumed = r.consumed + n] \in PassState
  BY <1>1 DEF PassState
<1>5. [r EXCEPT !.offset = @ + n, !.attempts = @ + 1, !.consumed = @ + n]
        = [q2 EXCEPT !.consumed = r.consumed + n]
  BY <1>2, <1>3
<1>6. LET q == [r EXCEPT !.offset = @ + n, !.attempts = @ + 1, !.consumed = @ + n]
      IN  /\ q.phase = r.phase /\ q.len = r.len
          /\ q.offset = r.offset + n /\ q.attempts = r.attempts + 1
          /\ q.consumed = r.consumed + n
  BY DEF PassState
<1> QED
  BY <1>4, <1>5, <1>6

(* The locals of the drain loop.                                           *)
LEMMA NoDrainFacts == NoDrain \in DrainState /\ NoDrain.reads = 0 /\ NoDrain.rounds = 0
BY ReceiverAssumption DEF NoDrain, DrainState

LEMMA DrainFacts ==
  /\ \A d \in DrainState :
       /\ d.reads \in 0 .. MaxReads /\ d.rounds \in 0 .. MaxRounds
       /\ d.progress \in BOOLEAN
  /\ \A d \in DrainState : d.reads < MaxReads =>
       /\ [d EXCEPT !.reads = @ + 1] \in DrainState
       /\ [d EXCEPT !.reads = @ + 1].rounds = d.rounds
  /\ \A d \in DrainState : d.reads < MaxReads =>
       /\ [d EXCEPT !.reads = @ + 1, !.progress = TRUE] \in DrainState
       /\ [d EXCEPT !.reads = @ + 1, !.progress = TRUE].rounds = d.rounds
  /\ \A d \in DrainState, n \in 0 .. MaxRounds :
       /\ [d EXCEPT !.rounds = n] \in DrainState
       /\ [d EXCEPT !.rounds = n].rounds = n /\ [d EXCEPT !.rounds = n].reads = d.reads
<1> USE ReceiverAssumption
<1>2. ASSUME NEW d \in DrainState
      PROVE  /\ d.reads \in 0 .. MaxReads /\ d.rounds \in 0 .. MaxRounds
             /\ d.progress \in BOOLEAN
  BY DEF DrainState
<1>3. ASSUME NEW d \in DrainState, d.reads < MaxReads
      PROVE  /\ [d EXCEPT !.reads = @ + 1] \in DrainState
             /\ [d EXCEPT !.reads = @ + 1].rounds = d.rounds
             /\ [d EXCEPT !.reads = @ + 1, !.progress = TRUE] \in DrainState
             /\ [d EXCEPT !.reads = @ + 1, !.progress = TRUE].rounds = d.rounds
  <2>1. d.reads + 1 \in 0 .. MaxReads
    BY <1>2, <1>3
  <2>2. PICK e \in DrainState : e = [d EXCEPT !.reads = d.reads + 1] /\ e.rounds = d.rounds
    <3>1. [d EXCEPT !.reads = d.reads + 1] \in DrainState
      BY <2>1, Zenon DEF DrainState
    <3>2. [d EXCEPT !.reads = d.reads + 1].rounds = d.rounds
      BY DEF DrainState
    <3> QED
      BY <3>1, <3>2, Zenon
  <2>3. [e EXCEPT !.progress = TRUE] \in DrainState
    BY Zenon DEF DrainState
  <2>4. [e EXCEPT !.progress = TRUE].rounds = e.rounds
    BY DEF DrainState
  <2>5. [d EXCEPT !.reads = @ + 1, !.progress = TRUE] = [e EXCEPT !.progress = TRUE]
    BY <2>2
  <2> QED
    BY <2>2, <2>3, <2>4, <2>5
<1>4. ASSUME NEW d \in DrainState, NEW n \in 0 .. MaxRounds
      PROVE  /\ [d EXCEPT !.rounds = n] \in DrainState
             /\ [d EXCEPT !.rounds = n].rounds = n /\ [d EXCEPT !.rounds = n].reads = d.reads
  <2>1. [d EXCEPT !.rounds = n] \in DrainState
    BY Zenon DEF DrainState
  <2>2. [d EXCEPT !.rounds = n].rounds = n /\ [d EXCEPT !.rounds = n].reads = d.reads
    BY DEF DrainState
  <2> QED
    BY <2>1, <2>2
<1> QED
  BY <1>2, <1>3, <1>4, Zenon
-----------------------------------------------------------------------------
(* Every action keeps the types.                                           *)

LEMMA InitTypes == Init => Types
<1> SUFFICES ASSUME Init PROVE Types
  OBVIOUS
<1> USE ReceiverAssumption, FrameFacts
<1>1. PICK n \in 0 .. MaxEarly :
        /\ ResponseLen + n < Size
        /\ taken = n /\ opened \in n .. Total /\ arrived = opened
        /\ IF use_ssl THEN Decryptable(n, opened) ELSE n = opened
        /\ buf = [i \in 0 .. Size - 1 |->
                    IF i >= ResponseLen /\ i < ResponseLen + n THEN i - ResponseLen ELSE -1]
        /\ read_ptr = ResponseLen /\ write_ptr = ResponseLen + n
  BY DEF Init
<1>2. NetTypes
  <2>1. /\ use_ssl \in BOOLEAN /\ fin \in BOOLEAN /\ fd \in BOOLEAN
        /\ alert \in {"no", "sent", "read"}
    BY Zenon DEF Init
  <2>2. /\ arrived \in 0 .. Total /\ opened \in 0 .. arrived /\ taken \in 0 .. opened
        /\ ~use_ssl => opened = taken
    BY <1>1
  <2> QED
    BY <2>1, <2>2 DEF NetTypes
<1>3. read_ptr \in 0 .. Size - 1 /\ write_ptr \in 0 .. Size - 1
  BY <1>1
<1>4. RingTypes
  <2>1. \A i \in 0 .. Size - 1 :
          (IF i >= ResponseLen /\ i < ResponseLen + n THEN i - ResponseLen ELSE -1)
            \in -1 .. Total - 1
    BY <1>1
  <2> QED
    BY <1>1, <1>3, <2>1 DEF RingTypes
<1>5. FrameTypes
  BY DEF Init, FrameTypes
<1>6. LoopTypes
  <2>1. drain = NoDrain /\ pf = AfterEvents(use_ssl, read_ptr, write_ptr)
    BY DEF Init
  <2>2. CASE use_ssl
    <3>1. pf = [Idle EXCEPT !.phase = "read"]
      BY <2>1, <2>2 DEF AfterEvents
    <3>2. /\ pf \in PassState /\ pf.phase = "read" /\ pf.len = 0
          /\ pf.offset = 0 /\ pf.consumed = 0
      BY <3>1, BetweenPasses DEF Phases
    <3>3. drain \in DrainState /\ drain.reads < MaxReads
      BY <2>1, NoDrainFacts
    <3> QED
      BY <2>2, <3>2, <3>3 DEF LoopTypes
  <2>3. CASE ~use_ssl
    <3>1. pf = FramesPass("final", read_ptr, write_ptr)
      BY <2>1, <2>3 DEF AfterEvents
    <3>2. /\ pf \in PassState /\ pf.phase = "final" /\ pf.offset = 0 /\ pf.consumed = 0
      BY <1>3, <3>1, PassStarts DEF Phases
    <3>3. drain \in DrainState /\ pf.len \in 0 .. Size
      BY <2>1, <3>2, NoDrainFacts, PassFields
    <3> QED
      BY <2>1, <3>2, <3>3 DEF LoopTypes
  <2> QED
    BY <2>2, <2>3
<1> QED
  BY <1>2, <1>4, <1>5, <1>6 DEF Types

LEMMA FillTypes ==
  ASSUME NetTypes, RingTypes, NEW n \in Nat, FillRing(n), taken + n <= Total
  PROVE  RingTypes' /\ taken' = taken + n
<1>1. taken \in Nat /\ Total \in Nat /\ Size \in Nat \ {0} /\ write_ptr \in 0 .. Size - 1
  BY FrameFacts, ReceiverAssumption DEF NetTypes, RingTypes
<1>2. \A i \in 0 .. Size - 1 :
        (IF i >= write_ptr /\ i < write_ptr + n THEN taken + i - write_ptr ELSE buf[i])
          \in -1 .. Total - 1
  BY <1>1 DEF RingTypes
<1>3. buf' \in [0 .. Size - 1 -> -1 .. Total - 1]
  BY <1>2 DEF FillRing, Received
<1>4. write_ptr' \in 0 .. Size - 1 /\ read_ptr' \in 0 .. Size - 1
  BY <1>1, AdvanceInRing DEF FillRing, RingTypes
<1> QED
  BY <1>3, <1>4 DEF RingTypes, FillRing

(* What ssl_read or io_read leaves behind.                                 *)
LEMMA ReadTypes ==
  ASSUME NetTypes, RingTypes,
         \/ ~use_ssl /\ io_read /\ alert' = alert
         \/ use_ssl /\ (SslReadData \/ SslReadNothing) /\ alert' = alert
         \/ use_ssl /\ SslReadEnd,
         use_ssl' = use_ssl, arrived' = arrived, fin' = fin, fd' = fd
  PROVE  NetTypes' /\ RingTypes'
<1>1. /\ arrived \in Nat /\ opened \in Nat /\ taken \in Nat /\ Total \in Nat
      /\ arrived <= Total /\ opened <= arrived /\ taken <= opened
  BY FrameFacts DEF NetTypes
<1>2. CASE ~use_ssl /\ io_read /\ alert' = alert
  <2>1. CASE RingFull
    BY <1>1, <1>2, <2>1 DEF io_read, ring, NetTypes, RingTypes
  <2>2. ASSUME NEW n \in 1 .. MaxRecv, taken + n <= arrived, FillRing(n)
        PROVE  NetTypes' /\ RingTypes'
    <3>1. n \in Nat /\ taken + n <= Total
      BY <1>1, <2>2, ReceiverAssumption
    <3>2. RingTypes' /\ taken' = taken + n
      BY <2>2, <3>1, FillTypes
    <3>3. opened' = taken'
      BY <1>2 DEF io_read
    <3> QED
      BY <1>1, <1>2, <2>2, <3>1, <3>2, <3>3 DEF NetTypes
  <2> QED
    BY <1>2, <2>1, <2>2 DEF io_read
<1>3. CASE use_ssl /\ SslReadData /\ alert' = alert
  <2>1. PICK o \in opened .. arrived, n \in 1 .. MaxSslRead :
          ssl_read_func(o) /\ Decryptable(taken + n, o) /\ FillRing(n)
    BY <1>3 DEF SslReadData
  <2>2. n \in Nat /\ n > 0 /\ o \in Nat /\ o <= arrived
    BY <1>1, ReceiverAssumption
  <2>3. PICK r \in RecordEnds : taken + n <= r /\ r <= o
    BY <1>1, <2>1, <2>2 DEF Decryptable
  <2>4. taken + n <= o
    BY <1>1, <2>2, <2>3, ReceiverAssumption
  <2>5. RingTypes' /\ taken' = taken + n
    BY <1>1, <2>1, <2>2, <2>4, FillTypes
  <2>6. opened' = o
    BY <2>1 DEF ssl_read_func
  <2> QED
    BY <1>1, <1>3, <2>2, <2>4, <2>5, <2>6 DEF NetTypes
<1>4. CASE use_ssl /\ SslReadNothing /\ alert' = alert
  <2>1. taken' = taken /\ UNCHANGED ring /\ (opened' = opened \/ opened' = arrived)
    BY <1>4 DEF SslReadNothing, ssl_read_func
  <2> QED
    BY <1>1, <1>4, <2>1 DEF NetTypes, RingTypes, ring
<1>5. CASE use_ssl /\ SslReadEnd
  BY <1>1, <1>5 DEF SslReadEnd, NetTypes, RingTypes, ring
<1> QED
  BY <1>2, <1>3, <1>4, <1>5

(* A pass begins, or the loop that calls it goes on or ends.               *)
LEMMA PassBegins ==
  ASSUME RingTypes', NEW phase \in Phases, pf' = BeginFrames(phase)
  PROVE  /\ pf' \in PassState /\ pf'.phase = phase
         /\ pf'.len = Readable(Size, read_ptr', write_ptr')
         /\ pf'.offset = 0 /\ pf'.attempts = 0 /\ pf'.consumed = 0 /\ 0 <= pf'.len
<1>1. read_ptr' \in 0 .. Size - 1 /\ write_ptr' \in 0 .. Size - 1
  BY DEF RingTypes
<1> QED
  BY <1>1, PassStarts, PassFields DEF BeginFrames

LEMMA LoopStays ==
  ASSUME NEW phase \in Phases, drain' \in DrainState, pf' \in PassState, pf'.phase = phase,
         pf'.offset = 0, pf'.consumed = 0, 0 <= pf'.len,
         phase = "read" => drain'.reads < MaxReads,
         phase \in {"read", "data", "round", "nothing"} => use_ssl',
         phase \notin {"read", "data", "round", "nothing"} => drain' = NoDrain
  PROVE  LoopTypes'
BY DEF LoopTypes

LEMMA AfterEventsTypes ==
  ASSUME RingTypes', use_ssl' = use_ssl, use_ssl \in BOOLEAN, drain' = NoDrain,
         pf' = AfterEvents(use_ssl, read_ptr', write_ptr')
  PROVE  LoopTypes'
<1>0. drain' \in DrainState /\ drain'.reads < MaxReads
  BY NoDrainFacts, ReceiverAssumption
<1>1. CASE use_ssl
  <2>1. pf' = [Idle EXCEPT !.phase = "read"]
    BY <1>1 DEF AfterEvents
  <2>2. "read" \in Phases
    BY DEF Phases
  <2>3. /\ pf' \in PassState /\ pf'.phase = "read" /\ pf'.len = 0
        /\ pf'.offset = 0 /\ pf'.consumed = 0
    BY <2>1, <2>2, BetweenPasses
  <2>4. use_ssl'
    BY <1>1, Zenon
  <2>5. 0 <= pf'.len
    BY <2>3
  <2> QED
    BY <1>0, <2>2, <2>3, <2>4, <2>5, LoopStays, Zenon
<1>2. CASE ~use_ssl
  <2>1. pf' = BeginFrames("final") /\ "final" \in Phases
    BY <1>2 DEF AfterEvents, BeginFrames, Phases
  <2>2. /\ pf' \in PassState /\ pf'.phase = "final"
        /\ pf'.offset = 0 /\ pf'.consumed = 0 /\ 0 <= pf'.len
    BY <2>1, PassBegins
  <2> QED
    BY <1>0, <2>1, <2>2, LoopStays
<1> QED
  BY <1>1, <1>2

LEMMA IdleTypes ==
  ASSUME pf' = Idle, drain' = NoDrain
  PROVE  LoopTypes'
<1>1. "idle" \in Phases
  BY DEF Phases
<1> QED
  BY <1>1, IdleFacts, NoDrainFacts, LoopStays

LEMMA ReadEventTypes ==
  ASSUME Types, ReadEvent
  PROVE  Types'
<1>1. NetTypes' /\ RingTypes'
  BY ReadTypes DEF Types, ReadEvent
<1>2. FrameTypes'
  BY DEF Types, FrameTypes, ReadEvent
<1>3. drain' = NoDrain /\ use_ssl' = use_ssl
  BY DEF ReadEvent, Types, LoopTypes
<1>4. LoopTypes'
  <2>1. CASE pf' = Idle
    BY <1>3, <2>1, IdleTypes
  <2>2. CASE pf' = BeginFrames("first")
    <3>1. "first" \in Phases
      BY DEF Phases
    <3> QED
      BY <1>1, <1>3, <2>2, <3>1, PassBegins, NoDrainFacts, LoopStays
  <2> QED
    BY <2>1, <2>2 DEF ReadEvent
<1> QED
  BY <1>1, <1>2, <1>4 DEF Types

LEMMA EofEventTypes ==
  ASSUME Types, EofEvent
  PROVE  Types'
<1>1. FrameTypes'
  BY DEF Types, FrameTypes, EofEvent
<1>2. NetTypes' /\ RingTypes' /\ LoopTypes'
  BY DEF Types, NetTypes, RingTypes, LoopTypes, EofEvent, network, ring
<1> QED
  BY <1>1, <1>2 DEF Types

LEMMA NoEventTypes ==
  ASSUME Types, NoEvent
  PROVE  Types'
<1>1. NetTypes' /\ RingTypes' /\ FrameTypes'
  BY DEF Types, NetTypes, RingTypes, FrameTypes, NoEvent, network, ring
<1>2. drain' = NoDrain /\ use_ssl' = use_ssl /\ use_ssl \in BOOLEAN
  BY DEF NoEvent, Types, NetTypes, LoopTypes, network
<1>3. read_ptr' = read_ptr /\ write_ptr' = write_ptr
  BY DEF NoEvent, ring
<1>4. pf' = Idle \/ pf' = AfterEvents(use_ssl, read_ptr', write_ptr')
  BY <1>3 DEF NoEvent
<1>5. LoopTypes'
  BY <1>1, <1>2, <1>4, IdleTypes, AfterEventsTypes
<1> QED
  BY <1>1, <1>5 DEF Types

LEMMA DrainReadTypes ==
  ASSUME Types, DrainRead
  PROVE  Types'
<1>1. use_ssl /\ drain \in DrainState /\ drain.reads < MaxReads
  BY DEF Types, LoopTypes, DrainRead
<1>2. NetTypes' /\ RingTypes'
  BY <1>1, ReadTypes DEF Types, DrainRead
<1>3. FrameTypes'
  BY DEF Types, FrameTypes, DrainRead
<1>4. use_ssl'
  BY <1>1 DEF DrainRead
<1>5. LoopTypes'
  <2>1. CASE /\ drain' = [drain EXCEPT !.reads = @ + 1, !.progress = TRUE]
             /\ pf' = BeginFrames("data")
    <3>1. "data" \in Phases /\ drain' \in DrainState
      BY <1>1, <2>1, DrainFacts, Zenon DEF Phases
    <3> QED
      BY <1>2, <1>4, <2>1, <3>1, PassBegins, LoopStays
  <2>2. CASE drain' = [drain EXCEPT !.reads = @ + 1] /\ pf' = BeginFrames("nothing")
    <3>1. "nothing" \in Phases /\ drain' \in DrainState
      BY <1>1, <2>2, DrainFacts, Zenon DEF Phases
    <3> QED
      BY <1>2, <1>4, <2>2, <3>1, PassBegins, LoopStays
  <2>3. CASE drain' = NoDrain /\ pf' = BeginFrames("closed")
    <3>1. "closed" \in Phases
      BY DEF Phases
    <3> QED
      BY <1>2, <2>3, <3>1, PassBegins, NoDrainFacts, LoopStays
  <2> QED
    BY <2>1, <2>2, <2>3 DEF DrainRead
<1> QED
  BY <1>2, <1>3, <1>5 DEF Types

LEMMA NextReadTypes ==
  ASSUME LoopTypes, RingTypes', use_ssl, use_ssl', NEW again, NextRead(again)
  PROVE  LoopTypes'
<1>1. CASE /\ drain.reads < MaxReads
           /\ pf' = [Idle EXCEPT !.phase = "read"] /\ drain' = [drain EXCEPT !.rounds = 0]
  <2>1. 0 \in 0 .. MaxRounds /\ "read" \in Phases /\ drain \in DrainState
    BY ReceiverAssumption DEF Phases, LoopTypes
  <2>2. drain' \in DrainState /\ drain'.reads < MaxReads
    BY <1>1, <2>1, DrainFacts, Zenon
  <2>3. /\ pf' \in PassState /\ pf'.phase = "read" /\ pf'.len = 0
        /\ pf'.offset = 0 /\ pf'.consumed = 0
    BY <1>1, <2>1, BetweenPasses
  <2>4. 0 <= pf'.len
    BY <2>3
  <2> QED
    BY <2>1, <2>2, <2>3, <2>4, LoopStays
<1>2. CASE pf' = BeginFrames("final") /\ drain' = NoDrain
  <2>1. "final" \in Phases
    BY DEF Phases
  <2> QED
    BY <1>2, <2>1, PassBegins, NoDrainFacts, LoopStays
<1>3. CASE pf' = Idle /\ drain' = NoDrain
  BY <1>3, IdleTypes
<1> QED
  BY <1>1, <1>2, <1>3 DEF NextRead

LEMMA ParseErrorTypes ==
  ASSUME Types, ParseError
  PROVE  Types'
<1>1. NetTypes' /\ RingTypes' /\ FrameTypes' /\ drain' = drain /\ use_ssl' = use_ssl
  BY DEF Types, NetTypes, RingTypes, FrameTypes, ParseError, network, ring
<1>2. /\ pf \in PassState /\ pf.offset < pf.len /\ pf.attempts < MaxAttempts
      /\ pf' = [pf EXCEPT !.offset = @ + 1, !.attempts = @ + 1]
  BY DEF Types, LoopTypes, ParseError, InLoop
<1>3. /\ pf.offset \in Nat /\ pf.len \in 0 .. Size /\ pf.consumed \in Nat
      /\ pf.offset < Size
  BY <1>2, PassFields, ReceiverAssumption
<1>4. /\ pf' \in PassState /\ pf'.phase = pf.phase /\ pf'.len = pf.len
      /\ pf'.offset = pf.offset + 1 /\ pf'.consumed = pf.consumed
  BY <1>2, <1>3, ByteSkipped, Zenon
<1>5. pf'.consumed <= pf'.offset /\ pf'.offset <= pf'.len
  BY <1>2, <1>3, <1>4 DEF Types, LoopTypes
<1> QED
  BY <1>1, <1>4, <1>5 DEF Types, LoopTypes

LEMMA NeedMoreTypes ==
  ASSUME Types, NeedMore
  PROVE  Types'
<1>1. NetTypes' /\ RingTypes' /\ FrameTypes' /\ drain' = drain /\ use_ssl' = use_ssl
  BY DEF Types, NetTypes, RingTypes, FrameTypes, NeedMore, network, ring
<1>2. pf \in PassState /\ pf' = [pf EXCEPT !.attempts = MaxAttempts]
  BY DEF Types, LoopTypes, NeedMore
<1>3. /\ pf' \in PassState /\ pf'.phase = pf.phase /\ pf'.len = pf.len
      /\ pf'.offset = pf.offset /\ pf'.consumed = pf.consumed
  BY <1>2, LoopLeft
<1> QED
  BY <1>1, <1>3 DEF Types, LoopTypes

LEMMA ParseFrameTypes ==
  ASSUME Types, ParseFrame
  PROVE  Types'
<1>1. RingTypes' /\ drain' = drain /\ use_ssl' = use_ssl
  BY DEF Types, RingTypes, ParseFrame, network, ring
<1>2. PICK k \in 1 .. FrameCount :
        /\ Complete(k) /\ Dispatch(k)
        /\ pf' = [pf EXCEPT !.offset = @ + FrameSize(k), !.attempts = @ + 1,
                            !.consumed = @ + FrameSize(k)]
  BY Zenon DEF ParseFrame
<1>3. fd' \in BOOLEAN /\ state' \in {"CONNECTED", "CLOSING", "CLOSED"}
  BY <1>2, Zenon DEF Dispatch, Types, NetTypes, FrameTypes
<1>4. NetTypes'
  BY <1>3 DEF Types, NetTypes, ParseFrame, network
<1>5. FrameTypes'
  <2>1. handled' = Append(handled, k)
    BY <1>2 DEF Dispatch
  <2>2. handled' \in Seq(1 .. FrameCount)
    BY <2>1 DEF Types, FrameTypes
  <2> QED
    BY <1>3, <2>2 DEF FrameTypes
<1>6. /\ pf \in PassState /\ pf.offset < pf.len /\ pf.attempts < MaxAttempts
      /\ pf.consumed <= pf.offset
  BY DEF Types, LoopTypes, ParseFrame, InLoop
<1>7. /\ FrameSize(k) \in Nat /\ pf.offset \in Nat /\ pf.consumed \in Nat
      /\ pf.len \in 0 .. Size
  BY <1>6, FrameFacts, PassFields
<1>8. /\ pf.offset + FrameSize(k) <= pf.len /\ pf.offset + FrameSize(k) <= Size
      /\ pf.consumed + FrameSize(k) <= Size
  BY <1>2, <1>6, <1>7, ReceiverAssumption DEF Complete, Left
<1>9. /\ pf' \in PassState /\ pf'.phase = pf.phase /\ pf'.len = pf.len
      /\ pf'.offset = pf.offset + FrameSize(k)
      /\ pf'.consumed = pf.consumed + FrameSize(k)
  BY <1>2, <1>6, <1>7, <1>8, FrameConsumed, Zenon
<1>10. pf'.consumed <= pf'.offset /\ pf'.offset <= pf'.len
  BY <1>6, <1>7, <1>8, <1>9
<1>11. LoopTypes'
  BY <1>1, <1>9, <1>10 DEF Types, LoopTypes
<1> QED
  BY <1>1, <1>4, <1>5, <1>11 DEF Types

(* How EndFrames goes on, case by case.                                    *)
LEMMA EndFramesCases ==
  ASSUME LoopTypes, EndFrames
  PROVE  LET moved == read_ptr' # read_ptr
             rounds == drain.rounds + (IF pf.phase = "round" THEN 1 ELSE 0)
         IN  \/ /\ pf.phase = "first" \/ (pf.phase = "again" /\ moved)
                /\ pf' = BeginFrames("again") /\ drain' = drain
             \/ /\ pf.phase = "again" /\ ~moved
                /\ pf' = IF state = "CONNECTED"
                           THEN AfterEvents(use_ssl, read_ptr', write_ptr') ELSE Idle
                /\ drain' = drain
             \/ /\ pf.phase = "data" \/ (pf.phase = "round" /\ moved)
                /\ IF state = "CONNECTED" /\ rounds < MaxRounds
                     THEN /\ pf' = BeginFrames("round")
                          /\ drain' = [drain EXCEPT !.rounds = rounds]
                     ELSE NextRead(TRUE)
             \/ pf.phase = "round" /\ ~moved /\ NextRead(TRUE)
             \/ pf.phase = "nothing" /\ NextRead(drain.progress /\ drain.reads < RetryReads)
             \/ pf.phase \in {"closed", "final"} /\ pf' = Idle /\ drain' = drain
<1>1. pf.phase \in Phases \ {"idle", "read"}
  BY PassFields DEF LoopTypes, EndFrames, Busy
<1>2. CASE pf.phase = "first"
  BY <1>2 DEF EndFrames
<1>3. CASE pf.phase = "again"
  BY <1>3, Zenon DEF EndFrames
<1>4. CASE pf.phase = "data"
  BY <1>4, Zenon DEF EndFrames
<1>5. CASE pf.phase = "round"
  BY <1>5, Zenon DEF EndFrames
<1>6. CASE pf.phase = "nothing"
  BY <1>6 DEF EndFrames
<1>7. CASE pf.phase \in {"closed", "final"}
  BY <1>7, Zenon DEF EndFrames
<1> QED
  BY <1>1, <1>2, <1>3, <1>4, <1>5, <1>6, <1>7, Zenon DEF Phases

LEMMA EndFramesTypes ==
  ASSUME Types, EndFrames
  PROVE  Types'
<1>1. NetTypes' /\ FrameTypes' /\ use_ssl' = use_ssl /\ use_ssl \in BOOLEAN
  BY DEF Types, NetTypes, FrameTypes, EndFrames, network
<1>2. RingTypes'
  <2>1. pf.consumed \in Nat /\ read_ptr \in 0 .. Size - 1
    BY PassFields, ReceiverAssumption DEF Types, LoopTypes, RingTypes
  <2>2. read_ptr' \in 0 .. Size - 1
    BY <2>1, AdvanceInRing DEF EndFrames, Consumed
  <2> QED
    BY <2>2 DEF Types, RingTypes, EndFrames
<1>3. drain \in DrainState /\ LoopTypes
  BY DEF Types, LoopTypes
<1>4. pf.phase \in {"data", "round", "nothing"} => use_ssl /\ use_ssl'
  BY <1>1 DEF Types, LoopTypes
<1>5. pf.phase \in {"first", "again", "closed", "final"} => drain = NoDrain
  BY DEF Types, LoopTypes
<1>6. CASE /\ pf.phase \in {"first", "again"}
           /\ pf' = BeginFrames("again") /\ drain' = drain
  <2>1. "again" \in Phases /\ drain' = NoDrain
    BY <1>5, <1>6 DEF Phases
  <2>2. LoopTypes'
    BY <1>2, <1>6, <2>1, PassBegins, NoDrainFacts, LoopStays
  <2> QED
    BY <1>1, <1>2, <2>2 DEF Types
<1>7. CASE /\ pf.phase = "again" /\ drain' = drain
           /\ pf' \in {AfterEvents(use_ssl, read_ptr', write_ptr'), Idle}
  <2>1. LoopTypes'
    BY <1>1, <1>2, <1>5, <1>7, AfterEventsTypes, IdleTypes
  <2> QED
    BY <1>1, <1>2, <2>1 DEF Types
<1>8. ASSUME NEW n \in Nat, n < MaxRounds, pf.phase \in {"data", "round"},
             pf' = BeginFrames("round"), drain' = [drain EXCEPT !.rounds = n]
      PROVE  Types'
  <2>1. n \in 0 .. MaxRounds /\ "round" \in Phases
    BY <1>8, ReceiverAssumption DEF Phases
  <2>2. drain' \in DrainState
    BY <1>3, <1>8, <2>1, DrainFacts, Zenon
  <2>3. LoopTypes'
    BY <1>2, <1>4, <1>8, <2>1, <2>2, PassBegins, LoopStays
  <2> QED
    BY <1>1, <1>2, <2>3 DEF Types
<1>9. ASSUME NEW again, pf.phase \in {"data", "round", "nothing"}, NextRead(again)
      PROVE  Types'
  <2>1. LoopTypes'
    BY <1>2, <1>3, <1>4, <1>9, NextReadTypes
  <2> QED
    BY <1>1, <1>2, <2>1 DEF Types
<1>10. CASE pf.phase \in {"closed", "final"} /\ pf' = Idle /\ drain' = drain
  <2>1. LoopTypes'
    BY <1>5, <1>10, IdleTypes
  <2> QED
    BY <1>1, <1>2, <2>1 DEF Types
<1>11. PICK rounds \in Nat : rounds = drain.rounds + (IF pf.phase = "round" THEN 1 ELSE 0)
  <2>1. drain.rounds \in Nat
    BY <1>3, ReceiverAssumption DEF DrainState
  <2> QED
    BY <2>1
<1>12. \/ /\ pf.phase \in {"first", "again"}
          /\ pf' = BeginFrames("again") /\ drain' = drain
       \/ /\ pf.phase = "again" /\ drain' = drain
          /\ pf' \in {AfterEvents(use_ssl, read_ptr', write_ptr'), Idle}
       \/ /\ pf.phase \in {"data", "round"} /\ rounds < MaxRounds
          /\ pf' = BeginFrames("round") /\ drain' = [drain EXCEPT !.rounds = rounds]
       \/ pf.phase \in {"data", "round", "nothing"} /\ \E again : NextRead(again)
       \/ pf.phase \in {"closed", "final"} /\ pf' = Idle /\ drain' = drain
  BY <1>3, <1>11, EndFramesCases, Zenon
<1> QED
  BY <1>6, <1>7, <1>8, <1>9, <1>10, <1>12

LEMMA NetworkTypes ==
  ASSUME Types, Deliver \/ CloseNotify \/ PeerClose \/ UNCHANGED vars
  PROVE  Types'
<1>1. UNCHANGED <<use_ssl, opened, taken, ring, state, fd, pf, drain, handled>>
  BY DEF Deliver, CloseNotify, PeerClose, vars, network
<1>2. alert' \in {"no", "sent", "read"} /\ fin' \in BOOLEAN
  BY Zenon DEF Types, NetTypes, Deliver, CloseNotify, PeerClose, vars, network
<1>3. arrived' = arrived \/ arrived' \in arrived + 1 .. Total
  BY DEF Deliver, CloseNotify, PeerClose, vars, network
<1>4. arrived' \in 0 .. Total /\ opened \in 0 .. arrived'
  BY <1>3, FrameFacts DEF Types, NetTypes
<1>5. NetTypes'
  BY <1>1, <1>2, <1>4 DEF Types, NetTypes
<1>6. RingTypes' /\ FrameTypes' /\ LoopTypes'
  BY <1>1 DEF Types, RingTypes, FrameTypes, LoopTypes, ring
<1> QED
  BY <1>5, <1>6 DEF Types

LEMMA StepTypes == Types /\ [Next]_vars => Types'
BY NetworkTypes, ReadEventTypes, EofEventTypes, NoEventTypes, DrainReadTypes,
   ParseErrorTypes, NeedMoreTypes, ParseFrameTypes, EndFramesTypes
   DEF Next, websocket_process, process_frames

(* For every ring, stream and limit: the pointers stay inside the buffer,  *)
(* the counters of the nested loops within their limits, and the bytes     *)
(* pass from the socket to the TLS layer to the ring.                      *)
THEOREM ReceiverTypes == Spec => []TypeOK
<1>1. Types => TypeOK
  <2> SUFFICES ASSUME Types PROVE TypeOK
    OBVIOUS
  <2>1. /\ {use_ssl, fin, fd} \subseteq BOOLEAN /\ alert \in {"no", "sent", "read"}
        /\ arrived \in 0 .. Total /\ opened \in 0 .. arrived /\ taken \in 0 .. opened
        /\ ~use_ssl => opened = taken
    BY DEF Types, NetTypes
  <2>2. /\ pf.phase \in Phases /\ {pf.len, pf.offset, pf.consumed} \subseteq 0 .. Size
        /\ pf.attempts \in 0 .. MaxAttempts
    BY PassFields DEF Types, LoopTypes
  <2>3. drain \in DrainState
    BY DEF Types, LoopTypes
  <2> QED
    BY <2>1, <2>2, <2>3
       DEF TypeOK, Types, RingTypes, FrameTypes, DrainState, Phases
<1> QED
  BY InitTypes, StepTypes, <1>1, PTL DEF Spec
-----------------------------------------------------------------------------
(* What the ring holds, when bytes are read from it or received into it.   *)

LEMMA PlaceInRing ==
  ASSUME NEW p \in Nat
  PROVE  Place(p) \in 0 .. Size - 1
<1>1. ResponseLen + p \in Nat /\ Size \in Nat \ {0}
  BY ReceiverAssumption
<1> QED
  BY <1>1, Divided, Zenon DEF Place

LEMMA HeldReadable ==
  ASSUME NEW b, NEW rp, NEW wp, NEW p \in Nat, NEW n \in Nat, Holds(b, rp, wp, p, n)
  PROVE  Readable(Size, rp, wp) = n
<1>1. rp \in 0 .. Size - 1 /\ Size \in Nat \ {0}
  BY PlaceInRing, ReceiverAssumption DEF Holds
<1>2. n < Size /\ rp + n <= Size /\ wp = IF rp + n = Size THEN 0 ELSE rp + n
  BY DEF Holds
<1> QED
  BY <1>1, <1>2 DEF Readable

LEMMA HeldConsumed ==
  ASSUME NEW b, NEW rp, NEW wp, NEW p \in Nat, NEW n \in Nat, Holds(b, rp, wp, p, n),
         NEW c \in 0 .. n
  PROVE  Holds(b, Advance(Size, rp, c), wp, p + c, n - c)
<1>1. rp \in 0 .. Size - 1 /\ Size \in Nat \ {0} /\ c \in Nat /\ rp = Place(p)
  BY PlaceInRing, ReceiverAssumption DEF Holds
<1>2. n < Size /\ rp + n <= Size /\ wp = IF rp + n = Size THEN 0 ELSE rp + n
  BY DEF Holds
<1>3. PICK q : q = Advance(Size, rp, c) /\ q = IF rp + c = Size THEN 0 ELSE rp + c
  <2>1. rp + c <= Size
    BY <1>1, <1>2
  <2> QED
    BY <1>1, <2>1, ShortMove
<1>4. q = Place(p + c)
  <2>1. ResponseLen + p \in Nat
    BY ReceiverAssumption
  <2>2. (((ResponseLen + p) % Size) + c) % Size = (ResponseLen + p + c) % Size
    BY <1>1, <2>1, TwoMoves
  <2>3. ResponseLen + (p + c) = ResponseLen + p + c
    BY <1>1, ReceiverAssumption
  <2> QED
    BY <1>1, <1>3, <2>2, <2>3 DEF Advance, Place
<1>5. n - c < Size /\ q + (n - c) <= Size
  BY <1>1, <1>2, <1>3
<1>6. wp = IF q + (n - c) = Size THEN 0 ELSE q + (n - c)
  BY <1>1, <1>2, <1>3
<1>7. ASSUME NEW i \in 0 .. (n - c) - 1 PROVE b[q + i] = (p + c) + i
  <2>1. c + i \in 0 .. n - 1 /\ rp + c < Size
    BY <1>1, <1>2
  <2>2. b[rp + (c + i)] = p + (c + i)
    BY <2>1 DEF Holds
  <2>3. q + i = rp + (c + i) /\ p + (c + i) = (p + c) + i
    BY <1>1, <1>3, <2>1
  <2> QED
    BY <2>2, <2>3
<1>8. Holds(b, q, wp, p + c, n - c)
  BY <1>4, <1>5, <1>6, <1>7 DEF Holds
<1> QED
  BY <1>3, <1>8

(* As long as the ring is not filled to the end of the buffer, the room    *)
(* for a read reaches to that end.                                         *)
LEMMA HeldReceived ==
  ASSUME RingTypes, NEW p \in Nat, NEW n \in Nat, taken = p + n,
         Holds(buf, read_ptr, write_ptr, p, n), read_ptr + n < Size,
         NEW m \in Nat, FillRing(m), n + m < Size
  PROVE  Holds(buf', read_ptr', write_ptr', p, n + m)
<1>1. /\ read_ptr \in 0 .. Size - 1 /\ Size \in Nat \ {0} /\ read_ptr' = read_ptr
      /\ read_ptr = Place(p)
  BY ReceiverAssumption DEF RingTypes, FillRing, Holds
<1>2. write_ptr = read_ptr + n /\ write_ptr \in 0 .. Size - 1
  BY <1>1 DEF Holds
<1>3. InlineSpace(Size, read_ptr, write_ptr) = Size - write_ptr
  BY <1>1, <1>2 DEF InlineSpace
<1>4. write_ptr + m <= Size
  BY <1>1, <1>2, <1>3 DEF FillRing
<1>5. write_ptr' = IF write_ptr + m = Size THEN 0 ELSE write_ptr + m
  BY <1>2, <1>4, ShortMove DEF FillRing
<1>6. buf' = [i \in 0 .. Size - 1 |->
                IF i >= write_ptr /\ i < write_ptr + m THEN taken + i - write_ptr ELSE buf[i]]
  BY DEF FillRing, Received
<1>7. ASSUME NEW i \in 0 .. n + m - 1 PROVE buf'[read_ptr + i] = p + i
  <2>1. read_ptr + i \in 0 .. Size - 1
    BY <1>1, <1>2, <1>4
  <2>2. CASE i < n
    <3>1. i \in 0 .. n - 1 /\ ~(read_ptr + i >= write_ptr)
      BY <1>1, <1>2, <2>2
    <3>2. buf[read_ptr + i] = p + i
      BY <3>1 DEF Holds
    <3> QED
      BY <1>6, <2>1, <3>1, <3>2
  <2>3. CASE i >= n
    <3>1. read_ptr + i >= write_ptr /\ read_ptr + i < write_ptr + m
      BY <1>1, <1>2, <2>3
    <3>2. taken + (read_ptr + i) - write_ptr = p + i
      BY <1>1, <1>2
    <3> QED
      BY <1>6, <2>1, <3>1, <3>2
  <2> QED
    BY <2>2, <2>3
<1>8. write_ptr' = IF read_ptr' + (n + m) = Size THEN 0 ELSE read_ptr' + (n + m)
  BY <1>1, <1>2, <1>5
<1>9. read_ptr' + (n + m) <= Size
  BY <1>1, <1>2, <1>4
<1> QED
  BY <1>1, <1>7, <1>8, <1>9 DEF Holds
-----------------------------------------------------------------------------
(* Where process_frames stands in the stream.                              *)

LEMMA Where ==
  ASSUME Types, RingInv
  PROVE  /\ FrameCount \in Nat /\ Done \in 0 .. FrameCount
         /\ Done + 1 \in 1 .. FrameCount + 1 /\ FrameStart[Done + 1] \in Nat
         /\ taken \in Nat /\ pf.consumed \in Nat /\ Position \in Nat /\ Unread \in Nat
         /\ Position + pf.consumed = FrameStart[Done + 1]
         /\ pf.consumed <= Unread /\ taken = Position + Unread
         /\ taken - FrameStart[Done + 1] = Unread - pf.consumed
         /\ taken <= Total /\ Total \in Nat
         /\ Done = FrameCount => FrameStart[Done + 1] = Total
<1>1. Done \in Nat /\ FrameCount \in Nat /\ Done <= FrameCount
  BY StreamAssumption DEF Types, FrameTypes, Done, RingInv
<1>2. Done + 1 \in 1 .. FrameCount + 1
  BY <1>1
<1>3. FrameStart[Done + 1] \in Nat /\ Total \in Nat
  BY <1>2, FrameFacts
<1>4. pf.consumed \in Nat
  BY PassFields, ReceiverAssumption DEF Types, LoopTypes
<1>5. taken \in Nat /\ taken <= Total
  BY <1>3 DEF Types, NetTypes
<1>6. Position = FrameStart[Done + 1] - pf.consumed
  BY DEF Position, Done
<1>7. Position \in Nat /\ Position + pf.consumed = FrameStart[Done + 1]
      /\ FrameStart[Done + 1] <= taken
  BY <1>3, <1>4, <1>6 DEF RingInv
<1>8. /\ Unread \in Nat /\ pf.consumed <= Unread /\ taken = Position + Unread
      /\ taken - FrameStart[Done + 1] = Unread - pf.consumed
  BY <1>3, <1>4, <1>5, <1>7 DEF Unread
<1>9. Done = FrameCount => FrameStart[Done + 1] = Total
  BY DEF Total
<1> QED
  BY <1>1, <1>2, <1>3, <1>4, <1>5, <1>7, <1>8, <1>9

(* The next frame.                                                         *)
LEMMA NextFrame ==
  ASSUME NEW d \in Nat, d < FrameCount
  PROVE  /\ d + 1 \in 1 .. FrameCount /\ d + 2 \in 1 .. FrameCount + 1
         /\ FrameStart[d + 1] \in Nat /\ FrameStart[d + 2] \in Nat
         /\ FrameSize(d + 1) \in Nat /\ FrameSize(d + 1) >= 2
         /\ FrameStart[d + 2] = FrameStart[d + 1] + FrameSize(d + 1)
<1>1. /\ FrameCount \in Nat /\ d + 1 \in 1 .. FrameCount /\ d + 2 \in 1 .. FrameCount + 1
      /\ (d + 1) + 1 = d + 2 /\ d + 1 \in 1 .. FrameCount + 1
  BY StreamAssumption
<1>2. PICK k \in 1 .. FrameCount : k = d + 1 /\ k + 1 = d + 2
  BY <1>1
<1>3. FrameStart[k] \in Nat /\ FrameStart[k + 1] \in Nat /\ FrameSize(k) \in Nat
      /\ FrameSize(k) >= 2 /\ FrameStart[k + 1] = FrameStart[k] + FrameSize(k)
  BY <1>1, <1>2, FrameFacts
<1> QED
  BY <1>1, <1>2, <1>3

(* No whole frame is left if less than the next one is.                    *)
LEMMA NoWholeIf ==
  ASSUME NEW d \in Nat, NEW t \in Nat, FrameCount \in Nat
  PROVE  /\ Beyond(d, t, -1) <=>
              (d < FrameCount => t - FrameStart[d + 1] < FrameSize(d + 1))
         /\ d < FrameCount /\ t - FrameStart[d + 1] < 2 => Beyond(d, t, -1)
<1>1. CASE d < FrameCount
  BY <1>1, NextFrame DEF Beyond
<1>2. CASE ~(d < FrameCount)
  BY <1>2 DEF Beyond
<1> QED
  BY <1>1, <1>2

(* With two bytes left process_frames stands at the next frame, which lies *)
(* in one piece before it.                                                 *)
LEMMA AtFrame ==
  ASSUME Types, RingInv, PassInv, InLoop, Left >= 2
  PROVE  /\ pf.offset = pf.consumed /\ Done < FrameCount
         /\ Left = taken - FrameStart[Done + 1]
         /\ StandsAt(Done + 1)
         /\ \A k \in 1 .. FrameCount : StandsAt(k) => k = Done + 1
<1>1. /\ Busy /\ pf.offset < pf.len /\ pf.len = Unread
      /\ pf.offset = pf.consumed \/ pf.offset = pf.len
  BY DEF InLoop, PassInv
<1>2. /\ pf.offset \in Nat /\ pf.len \in Nat /\ Size \in Nat /\ read_ptr \in 0 .. Size - 1
  BY PassFields, ReceiverAssumption DEF Types, LoopTypes, RingTypes
<1>3. pf.offset = pf.consumed /\ Left = Unread - pf.consumed
  BY <1>1, <1>2 DEF Left
<1>4. Left = taken - FrameStart[Done + 1] /\ Left \in Nat
  BY <1>3, Where
<1>5. Done < FrameCount
  <2>1. FrameStart[Done + 1] + 2 <= taken
    BY <1>4, Where
  <2> QED
    BY <2>1, Where
<1>6. /\ read_ptr + Unread <= Size
      /\ \A i \in 0 .. Unread - 1 : buf[read_ptr + i] = Position + i
  BY DEF RingInv, Holds
<1>7. ASSUME NEW i \in 0 .. Left - 1 PROVE ByteAt(i) = FrameStart[Done + 1] + i
  <2>1. pf.offset + i \in 0 .. Unread - 1
    BY <1>1, <1>2, <1>3, <1>4, Where
  <2>2. /\ read_ptr + pf.offset + i = read_ptr + (pf.offset + i)
        /\ read_ptr + pf.offset + i < Size
    BY <1>2, <1>6, <2>1, Where
  <2>3. ByteAt(i) = buf[read_ptr + (pf.offset + i)]
    BY <2>2 DEF ByteAt
  <2>4. buf[read_ptr + (pf.offset + i)] = Position + (pf.offset + i)
    BY <1>6, <2>1
  <2>5. Position + (pf.offset + i) = FrameStart[Done + 1] + i
    BY <1>2, <1>3, Where
  <2> QED
    BY <2>3, <2>4, <2>5
<1>8. \A k \in 1 .. FrameCount : Covered(k) \in 2 .. Left
  BY <1>4, FrameFacts DEF Covered, Smaller
<1>9. StandsAt(Done + 1)
  <2>1. Done + 1 \in 1 .. FrameCount
    BY <1>5, Where, NextFrame
  <2>2. Covered(Done + 1) \in 2 .. Left
    BY <1>8, <2>1
  <2> QED
    BY <1>4, <1>7, <2>2 DEF StandsAt
<1>10. ASSUME NEW k \in 1 .. FrameCount, StandsAt(k) PROVE k = Done + 1
  <2>1. 0 \in 0 .. Covered(k) - 1 /\ 0 \in 0 .. Left - 1
    BY <1>4, <1>8
  <2>2. FrameStart[k] + 0 = FrameStart[Done + 1] + 0
    BY <1>7, <1>10, <2>1 DEF StandsAt
  <2>3. FrameStart[k] = FrameStart[Done + 1] /\ k \in 1 .. FrameCount + 1 /\ k \in Int
    BY <2>2, FrameFacts, Where
  <2>4. /\ k < Done + 1 => FrameStart[k] + 2 <= FrameStart[Done + 1]
        /\ Done + 1 < k => FrameStart[Done + 1] + 2 <= FrameStart[k]
    BY <2>3, StreamAssumption, Where, Zenon
  <2> QED
    BY <2>3, <2>4, Where
<1> QED
  BY <1>3, <1>4, <1>5, <1>9, <1>10
-----------------------------------------------------------------------------
(* The steps of process_frames keep the invariant.                         *)

(* In a pass that finds no whole frame any more little can go wrong.       *)
LEMMA PassWithoutFrame ==
  ASSUME Inv, Busy, NoWhole, pf' \in PassState, pf'.phase = pf.phase, pf'.len = pf.len,
         pf'.offset = pf.consumed \/ pf'.offset = pf.len, pf'.consumed = pf.consumed,
         UNCHANGED <<network, opened, taken, ring, state, fd, drain, handled>>
  PROVE  RingInv' /\ PassInv' /\ BudgetInv' /\ EndInv'
<1>1. /\ Done' = Done /\ Position' = Position /\ Unread' = Unread
      /\ taken' = taken /\ drain' = drain
  BY DEF Done, Position, Unread
<1>2. NoWhole' /\ Busy'
  BY <1>1 DEF NoWhole, Spare, Beyond, Busy
<1>3. RingInv'
  BY <1>1 DEF Inv, RingInv, Holds, ring
<1>4. PassInv'
  BY <1>1, <1>2 DEF Inv, PassInv
<1>5. BudgetInv'
  BY <1>1, <1>2 DEF Inv, BudgetInv, Busy
<1>6. EndInv'
  BY <1>1 DEF Inv, EndInv, network, Decryptable
<1> QED
  BY <1>3, <1>4, <1>5, <1>6

LEMMA ParseErrorKeeps ==
  ASSUME Inv, ParseError, Types'
  PROVE  RingInv' /\ PassInv' /\ BudgetInv' /\ EndInv'
<1>1. /\ Types /\ RingInv /\ Busy /\ pf.offset < pf.len /\ pf.len = Unread /\ Left < 2
      /\ pf.offset = pf.consumed \/ pf.offset = pf.len
      /\ pf' = [pf EXCEPT !.offset = @ + 1, !.attempts = @ + 1]
      /\ pf \in PassState /\ pf.attempts < MaxAttempts
  BY DEF Inv, Types, LoopTypes, PassInv, ParseError, InLoop
<1>2. /\ pf.offset \in Nat /\ pf.len \in 0 .. Size /\ Size \in Nat /\ pf.consumed \in Nat
      /\ pf.offset < Size
  BY <1>1, PassFields, ReceiverAssumption
<1>3. pf.offset = pf.consumed /\ Unread - pf.consumed = 1
  BY <1>1, <1>2 DEF Left
<1>4. NoWhole
  <2>1. taken - FrameStart[Done + 1] < 2
    BY <1>1, <1>3, Where
  <2>2. Done \in Nat /\ taken \in Nat /\ FrameCount \in Nat
    BY <1>1, Where
  <2> QED
    BY <2>1, <2>2, NoWholeIf DEF NoWhole, Spare, Beyond
<1>5. /\ pf' \in PassState /\ pf'.phase = pf.phase /\ pf'.len = pf.len
      /\ pf'.offset = pf.offset + 1 /\ pf'.consumed = pf.consumed
  BY <1>1, <1>2, ByteSkipped, Zenon
<1>6. pf'.offset = pf.len
  BY <1>1, <1>2, <1>3, <1>5
<1> QED
  BY <1>1, <1>4, <1>5, <1>6, PassWithoutFrame DEF ParseError

LEMMA NeedMoreKeeps ==
  ASSUME Inv, NeedMore, Types'
  PROVE  RingInv' /\ PassInv' /\ BudgetInv' /\ EndInv'
<1>1. /\ Types /\ RingInv /\ PassInv /\ InLoop /\ Left >= 2 /\ Busy
      /\ pf' = [pf EXCEPT !.attempts = MaxAttempts] /\ pf \in PassState
  BY DEF Inv, Types, LoopTypes, NeedMore, InLoop
<1>2. PICK k \in 1 .. FrameCount : StandsAt(k) /\ ~Complete(k)
  BY DEF NeedMore
<1>3. /\ pf.offset = pf.consumed /\ Done < FrameCount /\ k = Done + 1
      /\ Left = taken - FrameStart[Done + 1]
  BY <1>1, <1>2, AtFrame
<1>4. NoWhole
  <2>1. Done \in Nat /\ taken \in Nat /\ FrameCount \in Nat /\ FrameStart[Done + 1] \in Nat
    BY <1>1, Where
  <2>2. FrameSize(Done + 1) \in Nat
    BY <1>3, <2>1, NextFrame
  <2>3. taken - FrameStart[Done + 1] < FrameSize(Done + 1)
    BY <1>2, <1>3, <2>1, <2>2 DEF Complete
  <2> QED
    BY <2>1, <2>3, NoWholeIf DEF NoWhole, Spare
<1>5. /\ pf' \in PassState /\ pf'.phase = pf.phase /\ pf'.len = pf.len
      /\ pf'.offset = pf.offset /\ pf'.consumed = pf.consumed
  BY <1>1, LoopLeft
<1> QED
  BY <1>1, <1>3, <1>4, <1>5, PassWithoutFrame DEF NeedMore

(* A frame is consumed: two bytes at least less can follow the next one.   *)
LEMMA BeyondFalls ==
  ASSUME NEW d \in Nat, NEW t \in Nat, NEW b \in Int, FrameCount \in Nat,
         d < FrameCount, Beyond(d, t, b)
  PROVE  Beyond(d + 1, t, b - 2)
<1>1. CASE d + 1 < FrameCount
  <2>1. /\ FrameStart[d + 2] \in Nat /\ FrameStart[d + 3] \in Nat
        /\ FrameStart[d + 2] + 2 <= FrameStart[d + 3]
    <3>1. PICK e \in Nat : e = d + 1 /\ e + 1 = d + 2 /\ e + 2 = d + 3 /\ e < FrameCount
      BY <1>1
    <3>2. /\ FrameStart[e + 1] \in Nat /\ FrameStart[e + 2] \in Nat
          /\ FrameSize(e + 1) \in Nat /\ FrameSize(e + 1) >= 2
          /\ FrameStart[e + 2] = FrameStart[e + 1] + FrameSize(e + 1)
      BY <3>1, NextFrame
    <3> QED
      BY <3>1, <3>2
  <2>2. (d + 1) + 2 = d + 3 /\ t - FrameStart[d + 2] <= b
    BY DEF Beyond
  <2> QED
    BY <2>1, <2>2 DEF Beyond
<1>2. CASE ~(d + 1 < FrameCount)
  BY <1>2 DEF Beyond
<1> QED
  BY <1>1, <1>2

(* Where a frame that is dispatched leaves the loop and the stream.        *)
LEMMA FrameTaken ==
  ASSUME Inv, ParseFrame
  PROVE  /\ Done + 1 \in 1 .. FrameCount /\ Dispatch(Done + 1) /\ ~NoWhole
         /\ pf.offset = pf.consumed /\ pf.consumed >= 2 * pf.attempts
         /\ Done' = Done + 1 /\ Position' = Position /\ Unread' = Unread
         /\ Position + pf'.consumed = FrameStart[Done + 2] /\ FrameStart[Done + 2] <= taken
         /\ pf'.phase = pf.phase /\ pf'.len = pf.len /\ pf'.offset = pf'.consumed
         /\ pf'.attempts = pf.attempts + 1 /\ pf'.consumed >= 2 * pf'.attempts
<1>1. /\ Types /\ RingInv /\ PassInv /\ InLoop /\ Left >= 2 /\ Busy
      /\ pf \in PassState /\ pf.attempts < MaxAttempts /\ taken' = taken
      /\ pf.offset <= pf.len
  BY DEF Inv, Types, LoopTypes, ParseFrame, InLoop
<1>2. PICK k \in 1 .. FrameCount :
        /\ StandsAt(k) /\ Complete(k) /\ Dispatch(k)
        /\ pf' = [pf EXCEPT !.offset = @ + FrameSize(k), !.attempts = @ + 1,
                            !.consumed = @ + FrameSize(k)]
  BY Zenon DEF ParseFrame
<1>3. /\ pf.offset = pf.consumed /\ Done < FrameCount /\ k = Done + 1
      /\ Left = taken - FrameStart[Done + 1]
  BY <1>1, <1>2, AtFrame
<1>4. /\ Done \in Nat /\ taken \in Nat /\ FrameCount \in Nat /\ FrameStart[Done + 1] \in Nat
      /\ pf.consumed \in Nat /\ Position \in Nat
      /\ Position + pf.consumed = FrameStart[Done + 1]
  BY <1>1, Where
<1>5. PICK n \in Nat : /\ n = FrameSize(k) /\ n >= 2 /\ FrameStart[Done + 2] \in Nat
                       /\ FrameStart[Done + 2] = FrameStart[Done + 1] + n
  BY <1>3, <1>4, NextFrame
<1>6. FrameStart[Done + 2] <= taken /\ Left >= n
  BY <1>2, <1>3, <1>4, <1>5 DEF Complete
<1>7. ~NoWhole
  BY <1>3, <1>4, <1>5, <1>6 DEF NoWhole, Spare, Beyond
<1>8. pf.consumed >= 2 * pf.attempts
  BY <1>1, <1>7 DEF PassInv
<1>9. /\ pf.offset + n <= Size /\ pf.consumed + n <= Size
      /\ pf.attempts \in Nat
  <2>1. pf.len \in 0 .. Size /\ pf.attempts \in Nat /\ Size \in Nat
    BY <1>1, PassFields, ReceiverAssumption
  <2> QED
    BY <1>3, <1>4, <1>6, <2>1 DEF Left
<1>10. /\ pf'.phase = pf.phase /\ pf'.len = pf.len
       /\ pf'.offset = pf.offset + n /\ pf'.attempts = pf.attempts + 1
       /\ pf'.consumed = pf.consumed + n
  <2>1. pf' = [pf EXCEPT !.offset = @ + n, !.attempts = @ + 1, !.consumed = @ + n]
    BY <1>2, <1>5, Zenon
  <2> QED
    BY <1>1, <1>9, <2>1, FrameConsumed, Zenon
<1>11. Done' = Done + 1
  <2>1. handled' = Append(handled, k) /\ handled \in Seq(1 .. FrameCount)
    BY <1>1, <1>2 DEF Dispatch, Types, FrameTypes
  <2> QED
    BY <2>1 DEF Done
<1>12. Position' = FrameStart[(Done + 1) + 1] - (pf.consumed + n)
  BY <1>10, <1>11 DEF Position, Done
<1>13. Position' = Position /\ Unread' = Unread /\ (Done + 1) + 1 = Done + 2
  BY <1>1, <1>4, <1>5, <1>12 DEF Unread
<1>14. /\ Position + pf'.consumed = FrameStart[Done + 2]
       /\ pf'.offset = pf'.consumed /\ pf'.consumed >= 2 * pf'.attempts
  BY <1>3, <1>4, <1>5, <1>8, <1>9, <1>10
<1> QED
  BY <1>2, <1>3, <1>6, <1>7, <1>8, <1>10, <1>11, <1>13, <1>14

LEMMA ParseFrameKeeps ==
  ASSUME Inv, Fitting, ParseFrame, Types'
  PROVE  RingInv' /\ PassInv' /\ BudgetInv' /\ EndInv'
<1>1. /\ Types /\ RingInv /\ PassInv /\ BudgetInv /\ EndInv /\ Busy
      /\ taken' = taken /\ drain' = drain /\ UNCHANGED ring
      /\ use_ssl' = use_ssl /\ arrived' = arrived /\ alert' = alert /\ fin' = fin
      /\ opened' = opened
  BY DEF Inv, ParseFrame, InLoop, network
<1>2. /\ Done \in Nat /\ taken \in Nat /\ FrameCount \in Nat /\ Position \in Nat
      /\ Unread \in Nat /\ Done + 1 \in 1 .. FrameCount /\ Done < FrameCount
  BY <1>1, Where, FrameTaken
<1>3. /\ Done' = Done + 1 /\ Position' = Position /\ Unread' = Unread
      /\ pf'.phase = pf.phase /\ pf'.len = pf.len /\ pf'.offset = pf'.consumed
      /\ pf'.attempts = pf.attempts + 1 /\ pf'.consumed >= 2 * pf'.attempts
  BY FrameTaken
<1>4. RingInv'
  <2>1. Position' >= 0 /\ Position' + pf'.consumed <= taken' /\ Done' <= FrameCount
    BY <1>1, <1>2, <1>3, FrameTaken
  <2> QED
    BY <1>1, <1>3, <2>1 DEF RingInv, Holds, ring
<1>5. PassInv'
  BY <1>1, <1>3 DEF PassInv, Busy
<1>6. BudgetInv'
  <2>1. ASSUME NEW b \in Int, NoWhole \/ Spare(b) PROVE Beyond(Done', taken', b - 2)
    <3>1. Beyond(Done, taken, b)
      BY <2>1, FrameTaken DEF Spare
    <3> QED
      BY <1>1, <1>2, <1>3, <3>1, BeyondFalls
  <2>2. /\ MaxEarly \in Nat /\ MaxSslRead \in Nat /\ MaxAttempts \in Nat /\ pf.attempts \in Nat
        /\ drain.rounds \in Nat /\ MaxAttempts * (drain.rounds + 1) \in Nat
    <3>1. pf.attempts \in 0 .. MaxAttempts /\ drain.rounds \in 0 .. MaxRounds
      BY <1>1, PassFields, DrainFacts, Zenon DEF Types, LoopTypes
    <3> QED
      BY <3>1, ReceiverAssumption
  <2>3. pf.phase = "data" => Spare(MaxEarly + MaxSslRead - 1 - 2 * pf.attempts)'
    <3>1. PICK b \in Int : b = MaxEarly + MaxSslRead - 1 - 2 * pf.attempts
      BY <2>2
    <3>2. b - 2 = MaxEarly + MaxSslRead - 1 - 2 * pf'.attempts
      BY <1>3, <2>2, <3>1
    <3>3. pf.phase = "data" => NoWhole \/ Spare(b)
      BY <1>1, <3>1 DEF BudgetInv
    <3>4. pf.phase = "data" => Beyond(Done', taken', b - 2)
      BY <2>1, <3>3
    <3> QED
      BY <3>2, <3>4 DEF Spare
  <2>4. pf.phase = "round" =>
          Spare(MaxEarly + MaxSslRead - 1
                  - 2 * (pf.attempts + MaxAttempts * (drain.rounds + 1)))'
    <3>1. PICK m \in Nat : m = MaxAttempts * (drain.rounds + 1)
      BY <2>2
    <3>2. PICK b \in Int : b = MaxEarly + MaxSslRead - 1 - 2 * (pf.attempts + m)
      BY <2>2
    <3>3. b - 2 = MaxEarly + MaxSslRead - 1 - 2 * (pf'.attempts + m)
      BY <1>3, <2>2, <3>2
    <3>4. pf.phase = "round" => NoWhole \/ Spare(b)
      BY <1>1, <3>1, <3>2 DEF BudgetInv
    <3>5. pf.phase = "round" => Beyond(Done', taken', b - 2)
      BY <2>1, <3>4
    <3> QED
      BY <1>1, <3>1, <3>3, <3>5 DEF Spare
  <2>5. pf.phase \in {"nothing", "closed", "final"} =>
          Spare(MaxEarly - 2 - 2 * pf.attempts)'
    <3>1. PICK b \in Int : b = MaxEarly - 2 - 2 * pf.attempts
      BY <2>2
    <3>2. b - 2 = MaxEarly - 2 - 2 * pf'.attempts
      BY <1>3, <2>2, <3>1
    <3>3. pf.phase \in {"nothing", "closed", "final"} => NoWhole \/ Spare(b)
      BY <1>1, <3>1 DEF BudgetInv
    <3>4. pf.phase \in {"nothing", "closed", "final"} => Beyond(Done', taken', b - 2)
      BY <2>1, <3>3
    <3> QED
      BY <3>2, <3>4 DEF Spare
  <2> QED
    BY <1>1, <1>3, <2>3, <2>4, <2>5 DEF BudgetInv, Busy
<1>7. EndInv'
  <2>1. Dispatch(Done + 1) /\ FrameStart[Done + 2] <= taken
    BY FrameTaken
  <2>2. CASE state' = state /\ fd' = fd
    BY <1>1, <1>2, <1>3, <2>2 DEF EndInv, Decryptable, Busy
  <2>3. CASE state' = "CLOSED" /\ fd' = FALSE
    BY <1>1, <1>3, <2>3 DEF EndInv, Decryptable, Busy
  <2>4. CASE Opcode[Done + 1] = "CLOSE" /\ state' = "CLOSING" /\ fd' = fd
    <3>1. Done + 1 = FrameCount
      BY <1>2, <2>4 DEF Fitting
    <3>2. taken = Total
      <4>1. Done + 2 = FrameCount + 1 /\ Total <= taken
        BY <1>2, <2>1, <3>1 DEF Total
      <4> QED
        BY <1>1, <4>1, Where
    <3> QED
      BY <1>1, <1>3, <2>4, <3>1, <3>2 DEF EndInv, Decryptable, Busy
  <2> QED
    BY <2>1, <2>2, <2>3, <2>4, Zenon DEF Dispatch
<1> QED
  BY <1>4, <1>5, <1>6, <1>7
(* A pass ends with no whole frame left, unless it has used its attempts,  *)
(* each on a frame.                                                        *)
LEMMA AtEnd ==
  ASSUME Inv, Busy, ~InLoop
  PROVE  NoWhole \/ (pf.attempts = MaxAttempts /\ pf.consumed >= 2 * MaxAttempts)
<1>1. /\ Types /\ RingInv /\ pf \in PassState /\ pf.len = Unread
      /\ NoWhole \/ (pf.offset = pf.consumed /\ pf.consumed >= 2 * pf.attempts)
      /\ pf.offset <= pf.len
  BY DEF Inv, Types, LoopTypes, PassInv
<1>2. /\ pf.offset \in Nat /\ pf.len \in Nat /\ pf.attempts \in 0 .. MaxAttempts
      /\ MaxAttempts \in Nat
  BY <1>1, PassFields, ReceiverAssumption
<1>3. CASE pf.offset = pf.consumed /\ pf.offset = pf.len
  <2>1. /\ taken - FrameStart[Done + 1] = 0 /\ Done \in Nat /\ taken \in Nat
        /\ FrameCount \in Nat
    BY <1>1, <1>3, Where
  <2>2. Done < FrameCount => NoWhole
    BY <2>1, NoWholeIf DEF NoWhole, Spare
  <2>3. ~(Done < FrameCount) => NoWhole
    BY DEF NoWhole, Spare, Beyond
  <2> QED
    BY <2>2, <2>3
<1> QED
  BY <1>1, <1>2, <1>3 DEF InLoop

Ahead == Position \in Nat /\ Unread \in Nat

LEMMA StreamFacts == Types /\ RingInv => Ahead
BY Where DEF Ahead

LEMMA NextStreamFacts == Types' /\ RingInv' => Ahead'
BY StreamFacts, PTL

(* A pass that begins covers what is unread.                               *)
LEMMA FreshPass ==
  ASSUME Types', RingInv', pf'.offset = 0, pf'.consumed = 0, pf'.attempts = 0,
         Busy' => pf'.len = Readable(Size, read_ptr', write_ptr')
  PROVE  PassInv'
<1>1. Position' \in Nat /\ Unread' \in Nat
  BY NextStreamFacts DEF Ahead
<1>2. Holds(buf', read_ptr', write_ptr', Position', Unread')
  BY DEF RingInv
<1>3. Readable(Size, read_ptr', write_ptr') = Unread'
  BY <1>1, <1>2, HeldReadable
<1>4. pf'.offset = pf'.consumed /\ pf'.consumed >= 2 * pf'.attempts
  OBVIOUS
<1> QED
  BY <1>3, <1>4 DEF PassInv
(* EndFrames moves read_ptr behind what the pass has consumed.             *)
LEMMA EndFramesRing ==
  ASSUME Inv, EndFrames, pf'.consumed = 0
  PROVE  /\ Done' = Done /\ taken' = taken /\ RingInv'
         /\ read_ptr' = read_ptr => pf.consumed = 0
<1>1. /\ Types /\ RingInv /\ handled' = handled /\ taken' = taken /\ buf' = buf
      /\ write_ptr' = write_ptr /\ read_ptr' = Advance(Size, read_ptr, pf.consumed)
      /\ Holds(buf, read_ptr, write_ptr, Position, Unread)
  BY DEF Inv, RingInv, EndFrames, Consumed
<1>2. /\ Position \in Nat /\ Unread \in Nat /\ pf.consumed \in 0 .. Unread
      /\ FrameStart[Done + 1] \in Nat /\ taken \in Nat
      /\ Position + pf.consumed = FrameStart[Done + 1]
      /\ Unread - pf.consumed = taken - FrameStart[Done + 1]
      /\ FrameStart[Done + 1] <= taken
  BY <1>1, Where
<1>3. Done' = Done /\ Position' = FrameStart[Done + 1] - 0
  BY <1>1 DEF Done, Position
<1>4. Position' = Position + pf.consumed /\ Unread' = Unread - pf.consumed
  BY <1>1, <1>2, <1>3 DEF Unread
<1>5. Holds(buf', read_ptr', write_ptr', Position', Unread')
  <2>1. Holds(buf, Advance(Size, read_ptr, pf.consumed), write_ptr,
              Position + pf.consumed, Unread - pf.consumed)
    BY <1>1, <1>2, HeldConsumed, Zenon
  <2> QED
    BY <1>1, <1>4, <2>1
<1>6. RingInv'
  <2>1. Done' <= FrameCount /\ Position' >= 0 /\ Position' + pf'.consumed <= taken'
    BY <1>1, <1>2, <1>3, <1>4 DEF RingInv
  <2> QED
    BY <1>5, <2>1 DEF RingInv
<1>7. read_ptr' = read_ptr => pf.consumed = 0
  <2>1. /\ read_ptr \in 0 .. Size - 1 /\ Unread < Size /\ read_ptr + Unread <= Size
        /\ Size \in Nat
    BY <1>1, ReceiverAssumption DEF Types, RingTypes, Holds
  <2>2. Advance(Size, read_ptr, pf.consumed) =
          IF read_ptr + pf.consumed = Size THEN 0 ELSE read_ptr + pf.consumed
    <3>1. pf.consumed \in Nat /\ read_ptr + pf.consumed <= Size
      BY <1>2, <2>1
    <3> QED
      BY <2>1, <3>1, ShortMove
  <2> QED
    BY <1>1, <1>2, <2>1, <2>2
<1> QED
  BY <1>1, <1>3, <1>6, <1>7

(* When no whole frame is left: after a pass that moved nothing, after the *)
(* rounds of the drain loop, after its last pass.                          *)
LEMMA NothingWholeLeft ==
  ASSUME Inv, Fitting, Busy, ~InLoop
  PROVE  /\ pf.consumed = 0 => NoWhole
         /\ pf.phase \in {"nothing", "closed", "final"} => NoWhole
         /\ pf.phase = "data" /\ ~(0 < MaxRounds) => NoWhole
         /\ pf.phase = "round" /\ ~(drain.rounds + 1 < MaxRounds) => NoWhole
         /\ pf.phase = "data" =>
              NoWhole \/ Spare(MaxEarly + MaxSslRead - 1 - 2 * MaxAttempts)
         /\ pf.phase = "round" =>
              NoWhole \/ Spare(MaxEarly + MaxSslRead - 1 - 2 * (MaxAttempts * (drain.rounds + 2)))
<1>1. /\ Types /\ RingInv /\ BudgetInv /\ pf.attempts \in 0 .. MaxAttempts
      /\ drain.rounds \in 0 .. MaxRounds
  BY PassFields, DrainFacts, Zenon DEF Inv, Types, LoopTypes
<1>2. NoWhole \/ (pf.attempts = MaxAttempts /\ pf.consumed >= 2 * MaxAttempts)
  BY AtEnd
<1>3. /\ Done \in Nat /\ taken \in Nat /\ FrameCount \in Nat
      /\ Done < FrameCount => FrameStart[Done + 2] \in Nat
  BY <1>1, Where, NextFrame
<1>4. /\ MaxAttempts \in Nat /\ MaxAttempts >= 1 /\ MaxEarly \in Nat /\ MaxSslRead \in Nat
      /\ MaxRounds \in Nat /\ drain.rounds \in Nat
  BY <1>1, ReceiverAssumption
<1>5. ASSUME NEW b \in Int, b < 0, Spare(b) PROVE NoWhole
  BY <1>3, <1>5 DEF NoWhole, Spare, Beyond
<1>6. pf.consumed = 0 => NoWhole
  BY <1>2, <1>4
<1>7. pf.phase \in {"nothing", "closed", "final"} => NoWhole
  <2>1. PICK b \in Int : b = MaxEarly - 2 - 2 * MaxAttempts /\ b < 0
    BY <1>4 DEF Fitting
  <2>2. pf.phase \in {"nothing", "closed", "final"} => NoWhole \/ Spare(b)
    BY <1>1, <1>2, <2>1 DEF BudgetInv
  <2> QED
    BY <1>5, <2>1, <2>2
<1>8. pf.phase = "data" => NoWhole \/ Spare(MaxEarly + MaxSslRead - 1 - 2 * MaxAttempts)
  BY <1>1, <1>2 DEF BudgetInv
<1>9. pf.phase = "round" =>
        NoWhole \/ Spare(MaxEarly + MaxSslRead - 1 - 2 * (MaxAttempts * (drain.rounds + 2)))
  <2>1. MaxAttempts + MaxAttempts * (drain.rounds + 1) = MaxAttempts * (drain.rounds + 2)
    BY <1>4
  <2> QED
    BY <1>1, <1>2, <2>1 DEF BudgetInv
<1>10. MaxEarly + MaxSslRead <= 2 * (MaxAttempts * (MaxRounds + 1))
  BY DEF Fitting
<1>11. pf.phase = "data" /\ ~(0 < MaxRounds) => NoWhole
  <2>1. PICK b \in Int : b = MaxEarly + MaxSslRead - 1 - 2 * MaxAttempts
    BY <1>4
  <2>2. ~(0 < MaxRounds) => b < 0
    <3>1. ~(0 < MaxRounds) => MaxRounds = 0
      BY <1>4
    <3>2. MaxAttempts * (0 + 1) = MaxAttempts
      BY <1>4
    <3> QED
      BY <1>4, <1>10, <2>1, <3>1, <3>2
  <2> QED
    BY <1>5, <1>8, <2>1, <2>2
<1>12. pf.phase = "round" /\ ~(drain.rounds + 1 < MaxRounds) => NoWhole
  <2>1. PICK m \in Nat : m = MaxAttempts * (drain.rounds + 2)
    BY <1>4
  <2>2. PICK b \in Int : b = MaxEarly + MaxSslRead - 1 - 2 * m
    BY <1>4
  <2>3. pf.phase = "round" /\ ~(drain.rounds + 1 < MaxRounds) => drain.rounds + 2 = MaxRounds + 1
    BY <1>1, <1>4 DEF BudgetInv
  <2>4. pf.phase = "round" /\ ~(drain.rounds + 1 < MaxRounds) => b < 0
    BY <1>4, <1>10, <2>1, <2>2, <2>3
  <2> QED
    BY <1>5, <1>9, <2>1, <2>2, <2>4
<1> QED
  BY <1>6, <1>7, <1>8, <1>9, <1>11, <1>12
(* The state in which a pass, or the time between two, begins.             *)
Begun(phase) ==
  /\ pf'.phase = phase /\ pf'.offset = 0 /\ pf'.attempts = 0 /\ pf'.consumed = 0
  /\ phase \notin {"idle", "read"} => pf'.len = Readable(Size, read_ptr', write_ptr')

LEMMA Beginnings ==
  ASSUME RingTypes'
  PROVE  /\ \A phase \in Phases : pf' = BeginFrames(phase) => Begun(phase)
         /\ pf' = [Idle EXCEPT !.phase = "read"] => Begun("read")
         /\ pf' = Idle => Begun("idle")
         /\ \A ssl : pf' = AfterEvents(ssl, read_ptr', write_ptr') =>
              Begun("read") \/ Begun("final")
<1>1. ASSUME NEW phase \in Phases, pf' = BeginFrames(phase) PROVE Begun(phase)
  BY <1>1, PassBegins DEF Begun
<1>2. ASSUME pf' = [Idle EXCEPT !.phase = "read"] PROVE Begun("read")
  <2>1. "read" \in Phases
    BY DEF Phases
  <2> QED
    BY <1>2, <2>1, BetweenPasses DEF Begun
<1>3. pf' = Idle => Begun("idle")
  BY IdleFacts DEF Begun
<1>4. ASSUME NEW ssl, pf' = AfterEvents(ssl, read_ptr', write_ptr')
      PROVE  Begun("read") \/ Begun("final")
  <2>1. pf' = [Idle EXCEPT !.phase = "read"] \/ pf' = BeginFrames("final")
    BY <1>4 DEF AfterEvents, BeginFrames
  <2>2. "final" \in Phases
    BY DEF Phases
  <2> QED
    BY <1>1, <1>2, <2>1, <2>2
<1> QED
  BY <1>1, <1>2, <1>3, <1>4

(* What the end of a pass leads to.                                        *)
LEMMA EndFramesNext ==
  ASSUME Inv, Fitting, EndFrames, Types'
  PROVE  \/ Begun("again") /\ pf.phase # "closed"
         \/ /\ Begun("round") /\ pf.phase # "closed" /\ drain'.rounds < MaxRounds
            /\ \/ pf.phase = "data" /\ drain'.rounds = 0
               \/ pf.phase = "round" /\ drain'.rounds = drain.rounds + 1
         \/ /\ Begun("read") \/ Begun("final")
            /\ pf.phase # "closed" /\ state = "CONNECTED" /\ NoWhole /\ drain'.rounds = 0
         \/ Begun("idle") /\ (fd => NoWhole)
<1>1. /\ Types /\ LoopTypes /\ RingTypes' /\ Busy /\ ~InLoop /\ BudgetInv /\ EndInv
      /\ drain \in DrainState /\ MaxRounds \in Nat
  BY ReceiverAssumption DEF Inv, Types, LoopTypes, EndFrames
<1>2. /\ pf.phase \in {"nothing", "closed", "final"} => NoWhole
      /\ pf.phase = "data" /\ ~(0 < MaxRounds) => NoWhole
      /\ pf.phase = "round" /\ ~(drain.rounds + 1 < MaxRounds) => NoWhole
  BY <1>1, NothingWholeLeft
<1>0. pf'.consumed = 0 /\ read_ptr' = read_ptr => NoWhole
  BY <1>1, EndFramesRing, NothingWholeLeft
<1>3. {"again", "round", "final"} \subseteq Phases
  BY DEF Phases
<1>4. state # "CONNECTED" /\ fd /\ pf.phase # "closed" => NoWhole
  <2>1. state = "CLOSING" \/ state = "CLOSED" \/ state = "CONNECTED"
    BY <1>1 DEF Types, FrameTypes
  <2>2. state = "CLOSING" => NoWhole
    <3>1. state = "CLOSING" => Done = FrameCount
      BY <1>1 DEF EndInv
    <3>2. FrameCount \in Nat
      BY StreamAssumption
    <3> QED
      BY <3>1, <3>2 DEF NoWhole, Spare, Beyond
  <2> QED
    BY <1>1, <2>1, <2>2 DEF EndInv, Busy
<1>5. PICK rounds \in Nat :
        /\ rounds = drain.rounds + (IF pf.phase = "round" THEN 1 ELSE 0)
        /\ pf.phase = "data" => rounds = 0
        /\ pf.phase = "round" => rounds = drain.rounds + 1
  <2>1. drain.rounds \in 0 .. MaxRounds
    BY <1>1, DrainFacts, Zenon
  <2>2. pf.phase = "data" => drain.rounds = 0
    BY <1>1 DEF BudgetInv
  <2> QED
    BY <1>1, <2>1, <2>2
<1>6. ASSUME NEW again, NextRead(again), pf.phase # "closed",
             state = "CONNECTED" => NoWhole
      PROVE  \/ /\ Begun("read") \/ Begun("final")
                /\ state = "CONNECTED" /\ NoWhole /\ drain'.rounds = 0
             \/ Begun("idle") /\ (fd => NoWhole)
  <2>1. \/ /\ state = "CONNECTED" /\ pf' = [Idle EXCEPT !.phase = "read"]
           /\ drain' = [drain EXCEPT !.rounds = 0]
        \/ state = "CONNECTED" /\ pf' = BeginFrames("final") /\ drain' = NoDrain
        \/ state # "CONNECTED" /\ pf' = Idle
    BY <1>6 DEF NextRead
  <2>2. [drain EXCEPT !.rounds = 0].rounds = 0 /\ NoDrain.rounds = 0
    <3>1. 0 \in 0 .. MaxRounds
      BY <1>1
    <3> QED
      BY <1>1, <3>1, DrainFacts, NoDrainFacts, Zenon
  <2>3. CASE state = "CONNECTED" /\ pf' = [Idle EXCEPT !.phase = "read"]
             /\ drain' = [drain EXCEPT !.rounds = 0]
    BY <1>1, <1>6, <2>2, <2>3, Beginnings
  <2>4. CASE state = "CONNECTED" /\ pf' = BeginFrames("final") /\ drain' = NoDrain
    BY <1>1, <1>3, <1>6, <2>2, <2>4, Beginnings
  <2>5. CASE state # "CONNECTED" /\ pf' = Idle
    BY <1>1, <1>4, <1>6, <2>5, Beginnings
  <2> QED
    BY <2>1, <2>3, <2>4, <2>5
<1>7. CASE pf.phase \in {"first", "again"} /\ pf' = BeginFrames("again")
  BY <1>1, <1>3, <1>7, Beginnings
<1>8. CASE /\ pf.phase = "again" /\ read_ptr' = read_ptr /\ drain' = drain
           /\ pf' = IF state = "CONNECTED"
                      THEN AfterEvents(use_ssl, read_ptr', write_ptr') ELSE Idle
  <2>1. state = "CONNECTED" => Begun("read") \/ Begun("final")
    BY <1>1, <1>8, Beginnings
  <2>2. state # "CONNECTED" => Begun("idle")
    BY <1>1, <1>8, Beginnings
  <2>3. pf'.consumed = 0
    BY <2>1, <2>2 DEF Begun
  <2>4. drain'.rounds = 0
    BY <1>1, <1>8, NoDrainFacts DEF LoopTypes
  <2> QED
    BY <1>0, <1>8, <2>1, <2>2, <2>3, <2>4
<1>9. CASE /\ pf.phase \in {"data", "round"} /\ rounds < MaxRounds
           /\ pf' = BeginFrames("round") /\ drain' = [drain EXCEPT !.rounds = rounds]
  <2>1. Begun("round")
    BY <1>1, <1>3, <1>9, Beginnings
  <2>2. drain'.rounds = rounds
    <3>1. rounds \in 0 .. MaxRounds
      BY <1>1, <1>9
    <3> QED
      BY <1>1, <1>9, <3>1, DrainFacts, Zenon
  <2> QED
    BY <1>5, <1>9, <2>1, <2>2
<1>10. CASE /\ pf.phase \in {"data", "round"} /\ ~(state = "CONNECTED" /\ rounds < MaxRounds)
            /\ NextRead(TRUE)
  <2>1. state = "CONNECTED" => NoWhole
    BY <1>2, <1>5, <1>10
  <2> QED
    BY <1>6, <1>10, <2>1, Zenon
<1>11. CASE pf.phase = "round" /\ read_ptr' = read_ptr /\ NextRead(TRUE)
  <2>1. pf'.consumed = 0
    <3>1. pf' = [Idle EXCEPT !.phase = "read"] \/ pf' = BeginFrames("final") \/ pf' = Idle
      BY <1>11 DEF NextRead
    <3>2. Begun("read") \/ Begun("final") \/ Begun("idle")
      BY <1>1, <1>3, <3>1, Beginnings
    <3> QED
      BY <3>2 DEF Begun
  <2> QED
    BY <1>0, <1>6, <1>11, <2>1, Zenon
<1>12. CASE /\ pf.phase = "nothing"
            /\ NextRead(drain.progress /\ drain.reads < RetryReads)
  BY <1>2, <1>6, <1>12
<1>13. CASE pf.phase \in {"closed", "final"} /\ pf' = Idle
  BY <1>1, <1>2, <1>13, Beginnings
<1> QED
  BY <1>1, <1>5, <1>7, <1>8, <1>9, <1>10, <1>11, <1>12, <1>13, EndFramesCases, Zenon
LEMMA EndFramesKeeps ==
  ASSUME Inv, Fitting, EndFrames, Types'
  PROVE  RingInv' /\ PassInv' /\ BudgetInv' /\ EndInv'
<1>1. /\ Types /\ EndInv /\ Busy /\ ~InLoop
      /\ UNCHANGED <<network, opened, taken, state, fd, handled>>
  BY DEF Inv, EndFrames
<1>2. \/ Begun("again") /\ pf.phase # "closed"
      \/ /\ Begun("round") /\ pf.phase # "closed" /\ drain'.rounds < MaxRounds
         /\ \/ pf.phase = "data" /\ drain'.rounds = 0
            \/ pf.phase = "round" /\ drain'.rounds = drain.rounds + 1
      \/ /\ Begun("read") \/ Begun("final")
         /\ pf.phase # "closed" /\ state = "CONNECTED" /\ NoWhole /\ drain'.rounds = 0
      \/ Begun("idle") /\ (fd => NoWhole)
  BY EndFramesNext
<1>3. PICK phase \in {"again", "round", "read", "final", "idle"} : Begun(phase)
  BY <1>2
<1>4. /\ pf'.phase = phase /\ pf'.offset = 0 /\ pf'.consumed = 0 /\ pf'.attempts = 0
      /\ Busy' => pf'.len = Readable(Size, read_ptr', write_ptr')
  BY <1>3 DEF Begun, Busy
<1>5. RingInv' /\ Done' = Done /\ taken' = taken
  BY <1>4, EndFramesRing
<1>6. PassInv'
  BY <1>4, <1>5, FreshPass
<1>7. NoWhole => NoWhole'
  BY <1>5 DEF NoWhole, Spare, Beyond
<1>8. EndInv'
  BY <1>1, <1>2, <1>5 DEF EndInv, Begun, Busy, network, Decryptable
<1>9. BudgetInv'
  <2>1. CASE Begun("again")
    BY <2>1 DEF BudgetInv, Begun
  <2>2. CASE /\ Begun("round") /\ drain'.rounds < MaxRounds
             /\ \/ pf.phase = "data" /\ drain'.rounds = 0
                \/ pf.phase = "round" /\ drain'.rounds = drain.rounds + 1
    <3>1. /\ MaxAttempts \in Nat /\ drain.rounds \in Nat
      <4>1. drain.rounds \in 0 .. MaxRounds
        BY <1>1, DrainFacts, Zenon DEF Types, LoopTypes
      <4> QED
        BY <4>1, ReceiverAssumption
    <3>2. PICK m \in Nat : m = MaxAttempts * (drain'.rounds + 1)
      BY <2>2, <3>1
    <3>3. /\ pf.phase = "data" => m = MaxAttempts
          /\ pf.phase = "round" => m = MaxAttempts * (drain.rounds + 2)
      BY <2>2, <3>1, <3>2
    <3>4. NoWhole \/ Spare(MaxEarly + MaxSslRead - 1 - 2 * m)
      BY <1>1, <2>2, <3>3, NothingWholeLeft
    <3>5. MaxEarly + MaxSslRead - 1 - 2 * m = MaxEarly + MaxSslRead - 1 - 2 * (pf'.attempts + m)
      BY <1>4, <3>2
    <3>6. NoWhole' \/ Beyond(Done', taken', MaxEarly + MaxSslRead - 1 - 2 * (pf'.attempts + m))
      BY <1>5, <1>7, <3>4, <3>5 DEF Spare
    <3> QED
      BY <2>2, <3>2, <3>6 DEF BudgetInv, Begun, Spare
  <2>3. CASE (Begun("read") \/ Begun("final")) /\ NoWhole /\ drain'.rounds = 0
    BY <1>7, <2>3 DEF BudgetInv, Begun
  <2>4. CASE Begun("idle") /\ (fd => NoWhole)
    BY <1>1, <1>7, <2>4 DEF BudgetInv, Begun
  <2> QED
    BY <1>2, <2>1, <2>2, <2>3, <2>4
<1> QED
  BY <1>5, <1>6, <1>8, <1>9
-----------------------------------------------------------------------------
(* The steps of websocket_process that read keep the invariant.            *)

(* Early, next to nothing can follow the first frame.                      *)
LEMMA EarlySpare ==
  ASSUME Early, taken \in Nat
  PROVE  Beyond(Done, taken, MaxEarly - 2)
<1>1. Done = 0 /\ taken <= MaxEarly /\ MaxEarly \in Nat
  BY ReceiverAssumption DEF Early
<1>2. 0 < FrameCount => FrameStart[0 + 2] \in Nat /\ FrameStart[0 + 2] >= 2
  <2>1. ASSUME 0 < FrameCount
        PROVE  /\ FrameStart[0 + 1] \in Nat /\ FrameStart[0 + 2] \in Nat
               /\ FrameSize(0 + 1) \in Nat /\ FrameSize(0 + 1) >= 2
               /\ FrameStart[0 + 2] = FrameStart[0 + 1] + FrameSize(0 + 1)
    BY <2>1, NextFrame
  <2> QED
    BY <2>1
<1> QED
  BY <1>1, <1>2 DEF Beyond

(* Bytes are received when no whole frame is there, or early: they fit     *)
(* behind those that are unread.                                           *)
LEMMA RingReceives ==
  ASSUME Inv, Fitting, ~Busy, NoWhole \/ Early,
         NEW max \in {MaxRecv, MaxSslRead}, NEW n \in 1 .. max, FillRing(n),
         taken + n <= Total, handled' = handled, pf'.consumed = 0
  PROVE  RingInv' /\ Beyond(Done', taken', MaxEarly + max - 1)
<1>1. /\ Types /\ RingInv /\ RingTypes /\ pf.consumed = 0 /\ taken' = taken + n
      /\ Holds(buf, read_ptr, write_ptr, Position, Unread)
  BY DEF Inv, Types, RingInv, PassInv, FillRing
<1>2. /\ Done \in 0 .. FrameCount /\ FrameCount \in Nat /\ taken \in Nat /\ Total \in Nat
      /\ Position \in Nat /\ Unread \in Nat /\ taken = Position + Unread
      /\ Position = FrameStart[Done + 1] /\ FrameStart[Done + 1] \in Nat
      /\ Unread = taken - FrameStart[Done + 1]
      /\ Done = FrameCount => FrameStart[Done + 1] = Total
  BY <1>1, Where
<1>3. /\ max \in Nat /\ MaxEarly \in Nat /\ Size \in Nat \ {0} /\ n \in Nat
      /\ ResponseLen \in 1 .. Size - 1 /\ read_ptr = Place(Position)
  BY <1>1, ReceiverAssumption DEF Holds
<1>4. Done < FrameCount /\ Done \in Nat
  BY <1>2, <1>3
<1>5. /\ FrameStart[Done + 2] \in Nat /\ Done + 1 \in 1 .. FrameCount
      /\ FrameSize(Done + 1) \in Nat /\ FrameSize(Done + 1) >= 2
      /\ FrameStart[Done + 2] = FrameStart[Done + 1] + FrameSize(Done + 1)
  BY <1>4, NextFrame
<1>6. /\ read_ptr + Unread < Size /\ Unread + n < Size
      /\ taken + n - FrameStart[Done + 2] <= MaxEarly + max - 1
  <2>1. CASE NoWhole
    <3>1. taken - FrameStart[Done + 2] <= -1
      BY <1>4, <2>1 DEF NoWhole, Spare, Beyond
    <3>2. /\ Place(FrameStart[Done + 1]) + FrameSize(Done + 1) <= Size
          /\ FrameSize(Done + 1) + max <= Size
      BY <1>5 DEF Fitting
    <3>3. Unread < FrameSize(Done + 1)
      BY <1>2, <1>5, <3>1
    <3>4. read_ptr \in Nat
      BY <1>1, <1>3 DEF RingTypes
    <3>5. PICK q \in Nat : q = read_ptr /\ q + FrameSize(Done + 1) <= Size
      BY <1>2, <1>3, <3>2, <3>4
    <3> QED
      BY <1>2, <1>3, <1>5, <3>1, <3>2, <3>3, <3>5
  <2>2. CASE Early
    <3>1. Done = 0 /\ taken <= MaxEarly /\ ResponseLen + taken < Size
      BY <2>2 DEF Early
    <3>2. Position = 0 /\ Unread = taken
      <4>1. FrameStart[0 + 1] = 0
        BY StreamAssumption
      <4> QED
        BY <1>2, <3>1, <4>1
    <3>3. read_ptr = ResponseLen
      BY <1>3, <3>2 DEF Place
    <3>4. write_ptr = ResponseLen + taken
      BY <1>1, <1>2, <1>3, <3>1, <3>2, <3>3 DEF Holds
    <3>5. n <= Size - (ResponseLen + taken)
      <4>1. n <= InlineSpace(Size, read_ptr, write_ptr)
        BY DEF FillRing
      <4>2. InlineSpace(Size, read_ptr, write_ptr) = Size - write_ptr
        <5>1. PICK rp \in Nat, wp \in Nat : rp = read_ptr /\ wp = write_ptr /\ rp <= wp
          BY <1>2, <1>3, <3>3, <3>4
        <5>2. InlineSpace(Size, rp, wp) = Size - wp
          BY <1>3, <5>1 DEF InlineSpace
        <5> QED
          BY <5>1, <5>2
      <4> QED
        BY <3>4, <4>1, <4>2
    <3>6. taken - FrameStart[Done + 2] <= MaxEarly - 2
      BY <1>2, <1>4, <2>2, EarlySpare DEF Beyond
    <3> QED
      BY <1>2, <1>3, <1>5, <3>1, <3>2, <3>3, <3>5, <3>6
  <2> QED
    BY <2>1, <2>2
<1>7. Holds(buf', read_ptr', write_ptr', Position, Unread + n)
  BY <1>1, <1>2, <1>3, <1>6, HeldReceived
<1>8. Done' = Done /\ Position' = Position
  <2>1. Done' = Done /\ Position' = FrameStart[Done + 1] - 0
    BY DEF Done, Position
  <2> QED
    BY <1>2, <2>1
<1>9. Unread' = Unread + n
  BY <1>1, <1>2, <1>3, <1>8 DEF Unread
<1>10. RingInv'
  <2>1. Done' <= FrameCount /\ Position' >= 0 /\ Position' + pf'.consumed <= taken'
    BY <1>1, <1>2, <1>3, <1>8
  <2> QED
    BY <1>7, <1>8, <1>9, <2>1 DEF RingInv
<1>11. Beyond(Done, taken + n, MaxEarly + max - 1)
  BY <1>2, <1>3, <1>4, <1>5, <1>6 DEF Beyond
<1> QED
  BY <1>1, <1>8, <1>10, <1>11

(* Nothing is received.                                                    *)
LEMMA RingRests ==
  ASSUME Inv, ~Busy, UNCHANGED <<taken, ring, handled>>, pf'.consumed = 0
  PROVE  RingInv' /\ Done' = Done
<1>1. RingInv /\ pf.consumed = 0 /\ Done' = Done
  BY DEF Inv, PassInv, Done
<1>2. Position' = Position /\ Unread' = Unread
  BY <1>1 DEF Position, Unread
<1> QED
  BY <1>1, <1>2 DEF RingInv, ring
(* One io_read or ssl_read.                                                *)
LEMMA ReadKeeps ==
  ASSUME Inv, Fitting, ~Busy, NoWhole \/ Early,
         \/ ~use_ssl /\ io_read
         \/ use_ssl /\ (SslReadData \/ SslReadNothing \/ SslReadEnd),
         handled' = handled, pf'.consumed = 0
  PROVE  /\ RingInv' /\ Done' = Done
         /\ taken' \in Nat /\ taken' >= taken
         /\ \/ taken' = taken
            \/ use_ssl => Beyond(Done', taken', MaxEarly + MaxSslRead - 1)
         /\ use_ssl => Decryptable(taken', opened')
<1>1. /\ NetTypes /\ arrived \in Nat /\ opened \in Nat /\ taken \in Nat /\ Total \in Nat
      /\ arrived <= Total /\ opened <= arrived /\ taken <= opened
      /\ MaxRecv \in Nat /\ MaxSslRead \in Nat
  BY FrameFacts, ReceiverAssumption DEF Inv, Types, NetTypes
<1>2. Done' = Done
  BY DEF Done
<1>3. use_ssl => Decryptable(taken, opened)
  BY DEF Inv, EndInv
<1>4. ASSUME NEW max \in {MaxRecv, MaxSslRead}, NEW n \in 1 .. max, FillRing(n),
             taken + n <= Total
      PROVE  /\ RingInv' /\ Done' = Done /\ taken' = taken + n
             /\ taken' \in Nat /\ taken' >= taken
             /\ Beyond(Done', taken', MaxEarly + max - 1)
  <2>1. RingInv' /\ Beyond(Done', taken', MaxEarly + max - 1)
    BY <1>4, RingReceives
  <2>2. taken' = taken + n
    BY <1>4 DEF FillRing
  <2> QED
    BY <1>1, <1>2, <2>1, <2>2
<1>5. ASSUME UNCHANGED <<taken, ring>>
      PROVE  RingInv' /\ taken' \in Nat /\ taken' >= taken
  BY <1>1, <1>5, RingRests
<1>6. CASE ~use_ssl /\ io_read
  <2>1. CASE RingFull
    <3>1. UNCHANGED <<taken, ring>>
      BY <1>6, <2>1 DEF io_read
    <3> QED
      BY <1>2, <1>5, <1>6, <3>1
  <2>2. CASE ~RingFull
    <3>1. PICK n \in 1 .. MaxRecv : taken + n <= arrived /\ FillRing(n)
      BY <1>6, <2>2 DEF io_read
    <3>2. taken + n <= Total
      BY <1>1, <3>1
    <3> QED
      BY <1>4, <1>6, <3>1, <3>2
  <2> QED
    BY <2>1, <2>2
<1>7. CASE use_ssl /\ SslReadData
  <2>1. PICK o \in opened .. arrived, n \in 1 .. MaxSslRead :
          ssl_read_func(o) /\ Decryptable(taken + n, o) /\ FillRing(n)
    BY <1>7 DEF SslReadData
  <2>2. n \in Nat /\ n > 0 /\ o \in Nat /\ o <= arrived
    BY <1>1
  <2>3. PICK r \in RecordEnds : taken + n <= r /\ r <= o
    BY <1>1, <2>1, <2>2 DEF Decryptable
  <2>4. taken + n <= Total
    BY <1>1, <2>2, <2>3, ReceiverAssumption
  <2>5. Decryptable(taken + n, opened')
    BY <2>1 DEF ssl_read_func
  <2> QED
    BY <1>4, <2>1, <2>4, <2>5
<1>8. CASE use_ssl /\ SslReadNothing
  <2>1. UNCHANGED <<taken, ring>> /\ (opened' = opened \/ opened' = arrived)
    BY <1>8 DEF SslReadNothing, ssl_read_func
  <2>2. Decryptable(taken, opened')
    <3>1. opened <= opened' /\ opened' \in Nat /\ RecordEnds \subseteq Nat
      BY <1>1, <2>1, ReceiverAssumption
    <3> QED
      BY <1>1, <1>3, <1>8, <3>1 DEF Decryptable
  <2> QED
    BY <1>2, <1>5, <2>1, <2>2
<1>9. CASE use_ssl /\ SslReadEnd
  <2>1. UNCHANGED <<taken, ring>> /\ opened' = opened
    BY <1>9 DEF SslReadEnd
  <2> QED
    BY <1>2, <1>3, <1>5, <1>9, <2>1
<1> QED
  BY <1>6, <1>7, <1>8, <1>9

LEMMA ReadEventKeeps ==
  ASSUME Inv, Fitting, ReadEvent, Types'
  PROVE  RingInv' /\ PassInv' /\ BudgetInv' /\ EndInv'
<1>1. /\ ~Busy /\ NoWhole /\ fd /\ ~fin /\ EndInv
      /\ UNCHANGED <<use_ssl, arrived, fin, state, fd, drain, handled>>
  BY DEF Inv, BudgetInv, ReadEvent, Busy
<1>2. \/ ~use_ssl /\ io_read
      \/ use_ssl /\ (SslReadData \/ SslReadNothing \/ SslReadEnd)
  BY DEF ReadEvent
<1>3. Begun(IF state = "CONNECTED" THEN "first" ELSE "idle")
  <2>1. "first" \in Phases /\ RingTypes'
    BY DEF Phases, Types
  <2> QED
    BY <2>1, Beginnings DEF ReadEvent
<1>4. /\ pf'.offset = 0 /\ pf'.consumed = 0 /\ pf'.attempts = 0
      /\ pf'.phase = IF state = "CONNECTED" THEN "first" ELSE "idle"
      /\ Busy' => pf'.len = Readable(Size, read_ptr', write_ptr')
  BY <1>3 DEF Begun, Busy
<1>5. /\ RingInv' /\ Done' = Done /\ taken' \in Nat /\ taken' >= taken
      /\ use_ssl => Decryptable(taken', opened')
  BY <1>1, <1>2, <1>4, ReadKeeps
<1>6. PassInv'
  BY <1>4, <1>5, FreshPass
<1>7. taken = Total => taken' = taken
  <2>1. taken' <= Total /\ Total \in Nat
    BY <1>5, FrameFacts DEF Types, NetTypes
  <2> QED
    BY <1>5, <2>1
<1>8. BudgetInv'
  <2>1. CASE state = "CONNECTED"
    BY <1>4, <2>1 DEF BudgetInv
  <2>2. CASE state # "CONNECTED"
    <3>1. taken' = taken
      BY <1>1, <1>7, <2>2 DEF EndInv
    <3>2. NoWhole'
      BY <1>1, <1>5, <3>1 DEF NoWhole, Spare, Beyond
    <3> QED
      BY <1>4, <2>2, <3>2 DEF BudgetInv
  <2> QED
    BY <2>1, <2>2
<1>9. alert' # "no" => alert # "no"
  BY DEF ReadEvent, SslReadEnd
<1>10. EndInv'
  <2>1. use_ssl' => Decryptable(taken, opened)'
    BY <1>1, <1>5 DEF Decryptable
  <2>2. fd' /\ state' # "CONNECTED" => fin' \/ taken' = Total
    BY <1>1, <1>7 DEF EndInv
  <2>3. /\ pf'.phase = "read" => state' = "CONNECTED"
        /\ ~fd' => state' # "CONNECTED"
        /\ state' = "CLOSING" => Done' = FrameCount
        /\ fd' /\ state' = "CLOSED" => pf'.phase \in {"idle", "closed"}
        /\ alert' # "no" \/ fin' => arrived' = Total
    BY <1>1, <1>4, <1>5, <1>9 DEF EndInv
  <2> QED
    BY <2>1, <2>2, <2>3 DEF EndInv
<1> QED
  BY <1>5, <1>6, <1>8, <1>10
LEMMA EofEventKeeps ==
  ASSUME Inv, EofEvent
  PROVE  RingInv' /\ PassInv' /\ BudgetInv' /\ EndInv'
<1>1. /\ UNCHANGED <<network, opened, taken, ring, fd, pf, drain, handled>>
      /\ pf.phase = "idle" /\ fd /\ fin
      /\ state' = IF state = "CONNECTED" THEN "CLOSED" ELSE state
  BY DEF EofEvent
<1>2. Done' = Done /\ Position' = Position /\ Unread' = Unread
  BY <1>1 DEF Done, Position, Unread
<1>3. RingInv' /\ PassInv' /\ BudgetInv'
  BY <1>1, <1>2
     DEF Inv, RingInv, PassInv, BudgetInv, Busy, NoWhole, Spare, Beyond, Early, ring
<1>4. EndInv'
  BY <1>1, <1>2 DEF Inv, EndInv, network, Decryptable
<1> QED
  BY <1>3, <1>4

LEMMA NoEventKeeps ==
  ASSUME Inv, NoEvent, Types'
  PROVE  RingInv' /\ PassInv' /\ BudgetInv' /\ EndInv'
<1>1. /\ UNCHANGED <<network, opened, taken, ring, state, fd, drain, handled>>
      /\ pf.phase = "idle" /\ ~Busy /\ drain = NoDrain
      /\ state = "CONNECTED" => fd
      /\ fd => NoWhole
  BY DEF Inv, Types, LoopTypes, BudgetInv, EndInv, NoEvent, Busy
<1>2. \/ state = "CONNECTED" /\ (Begun("read") \/ Begun("final"))
      \/ state # "CONNECTED" /\ Begun("idle")
  <2>1. RingTypes' /\ read_ptr' = read_ptr /\ write_ptr' = write_ptr
    BY <1>1 DEF Types, ring
  <2>2. \/ state = "CONNECTED" /\ pf' = AfterEvents(use_ssl, read_ptr', write_ptr')
        \/ state # "CONNECTED" /\ pf' = Idle
    BY <2>1 DEF NoEvent
  <2> QED
    BY <2>1, <2>2, Beginnings
<1>3. /\ pf'.offset = 0 /\ pf'.consumed = 0 /\ pf'.attempts = 0
      /\ Busy' => pf'.len = Readable(Size, read_ptr', write_ptr')
  BY <1>2 DEF Begun, Busy
<1>4. RingInv' /\ Done' = Done
  BY <1>1, <1>3, RingRests
<1>5. PassInv'
  BY <1>3, <1>4, FreshPass
<1>6. fd' => NoWhole'
  BY <1>1, <1>4 DEF NoWhole, Spare, Beyond
<1>7. BudgetInv'
  BY <1>1, <1>2, <1>6, NoDrainFacts DEF BudgetInv, Begun
<1>8. EndInv'
  BY <1>1, <1>2, <1>4 DEF Inv, EndInv, Begun, network, Decryptable
<1> QED
  BY <1>4, <1>5, <1>7, <1>8

LEMMA DrainReadKeeps ==
  ASSUME Inv, Fitting, DrainRead, Types'
  PROVE  RingInv' /\ PassInv' /\ BudgetInv' /\ EndInv'
<1>1. /\ pf.phase = "read" /\ ~Busy /\ (NoWhole \/ Early) /\ use_ssl
      /\ state = "CONNECTED" /\ drain.rounds = 0 /\ drain \in DrainState
      /\ drain.reads < MaxReads /\ EndInv /\ taken \in Nat
      /\ UNCHANGED <<use_ssl, arrived, fin, fd, handled>>
  <2>1. taken \in Nat
    BY Where DEF Inv
  <2> QED
    BY <2>1 DEF Inv, Types, LoopTypes, BudgetInv, EndInv, DrainRead, Busy
<1>2. SslReadData \/ SslReadNothing \/ SslReadEnd
  BY DEF DrainRead
<1>3. {"data", "nothing", "closed"} \subseteq Phases /\ RingTypes'
  BY DEF Phases, Types
<1>4. PICK phase \in {"data", "nothing", "closed"} :
        /\ Begun(phase) /\ drain'.rounds = 0
        /\ phase \in {"nothing", "closed"} => taken' = taken
        /\ phase = "closed" => /\ state' = "CLOSED" /\ taken = arrived
                               /\ alert # "no" \/ fin
        /\ phase # "closed" => state' = state
        /\ alert' # "no" => alert # "no"
  <2>1. /\ [drain EXCEPT !.reads = @ + 1, !.progress = TRUE].rounds = 0
        /\ [drain EXCEPT !.reads = @ + 1].rounds = 0 /\ NoDrain.rounds = 0
    BY <1>1, DrainFacts, NoDrainFacts, Zenon
  <2>2. CASE /\ SslReadData
             /\ drain' = [drain EXCEPT !.reads = @ + 1, !.progress = TRUE]
             /\ pf' = BeginFrames("data") /\ UNCHANGED <<alert, state>>
    BY <1>3, <2>1, <2>2, Beginnings
  <2>3. CASE /\ SslReadNothing
             /\ drain' = [drain EXCEPT !.reads = @ + 1]
             /\ pf' = BeginFrames("nothing") /\ UNCHANGED <<alert, state>>
    BY <1>3, <2>1, <2>3, Beginnings DEF SslReadNothing
  <2>4. CASE /\ SslReadEnd /\ drain' = NoDrain
             /\ pf' = BeginFrames("closed") /\ state' = "CLOSED"
    BY <1>3, <2>1, <2>4, Beginnings DEF SslReadEnd
  <2> QED
    BY <2>2, <2>3, <2>4 DEF DrainRead
<1>5. /\ pf'.phase = phase /\ pf'.offset = 0 /\ pf'.consumed = 0 /\ pf'.attempts = 0
      /\ Busy' => pf'.len = Readable(Size, read_ptr', write_ptr')
  BY <1>4 DEF Begun, Busy
<1>6. /\ RingInv' /\ Done' = Done /\ taken' \in Nat /\ taken' >= taken
      /\ taken' = taken \/ Beyond(Done', taken', MaxEarly + MaxSslRead - 1)
      /\ Decryptable(taken', opened')
  BY <1>1, <1>2, <1>5, ReadKeeps
<1>7. PassInv'
  BY <1>5, <1>6, FreshPass
<1>8. /\ MaxEarly \in Nat /\ MaxSslRead \in Nat /\ Done \in Nat
      /\ Done < FrameCount => FrameStart[Done + 2] \in Nat
  BY Where, NextFrame, ReceiverAssumption DEF Inv
<1>9. taken' = taken => Beyond(Done', taken', -1) \/ Beyond(Done', taken', MaxEarly - 2)
  BY <1>1, <1>6, EarlySpare DEF NoWhole, Spare
<1>10. BudgetInv'
  <2>1. CASE phase = "data"
    <3>1. Beyond(Done', taken', -1) \/ Beyond(Done', taken', MaxEarly + MaxSslRead - 1)
      BY <1>1, <1>6, <1>8, <1>9, ReceiverAssumption DEF Beyond
    <3>2. MaxEarly + MaxSslRead - 1 = MaxEarly + MaxSslRead - 1 - 2 * pf'.attempts
      BY <1>5, <1>8
    <3> QED
      BY <1>4, <1>5, <2>1, <3>1, <3>2 DEF BudgetInv, NoWhole, Spare
  <2>2. CASE phase \in {"nothing", "closed"}
    <3>1. Beyond(Done', taken', -1) \/ Beyond(Done', taken', MaxEarly - 2)
      BY <1>4, <1>9, <2>2
    <3>2. MaxEarly - 2 = MaxEarly - 2 - 2 * pf'.attempts
      BY <1>5, <1>8
    <3> QED
      BY <1>4, <1>5, <2>2, <3>1, <3>2 DEF BudgetInv, NoWhole, Spare
  <2> QED
    BY <2>1, <2>2
<1>11. EndInv'
  <2>1. use_ssl' => Decryptable(taken, opened)'
    BY <1>6 DEF Decryptable
  <2>2. phase = "closed" => taken' = Total
    BY <1>1, <1>4 DEF EndInv
  <2> QED
    BY <1>1, <1>4, <1>5, <1>6, <2>1, <2>2 DEF EndInv
<1> QED
  BY <1>6, <1>7, <1>10, <1>11

LEMMA NetworkKeeps ==
  ASSUME Inv, Deliver \/ CloseNotify \/ PeerClose \/ UNCHANGED vars
  PROVE  RingInv' /\ PassInv' /\ BudgetInv' /\ EndInv'
<1>1. UNCHANGED <<use_ssl, opened, taken, ring, state, fd, pf, drain, handled>>
  BY DEF Deliver, CloseNotify, PeerClose, vars, network
<1>2. Done' = Done /\ Position' = Position /\ Unread' = Unread
  BY <1>1 DEF Done, Position, Unread
<1>3. RingInv' /\ PassInv' /\ BudgetInv'
  BY <1>1, <1>2
     DEF Inv, RingInv, PassInv, BudgetInv, Busy, NoWhole, Spare, Beyond, Early, ring
<1>4. alert' # "no" \/ fin' => arrived' = Total
  <2>1. arrived = Total => ~Deliver
    BY FrameFacts DEF Deliver
  <2>2. CASE Deliver
    BY <2>1, <2>2 DEF Inv, EndInv, Deliver
  <2>3. CASE CloseNotify \/ PeerClose
    BY <2>3 DEF CloseNotify, PeerClose
  <2>4. CASE UNCHANGED vars
    BY <2>4 DEF Inv, EndInv, vars, network
  <2> QED
    BY <2>2, <2>3, <2>4
<1>5. fin => fin'
  BY DEF Deliver, CloseNotify, PeerClose, vars, network
<1>6. EndInv'
  BY <1>1, <1>2, <1>4, <1>5 DEF Inv, EndInv, Decryptable
<1> QED
  BY <1>3, <1>6
-----------------------------------------------------------------------------
LEMMA InitInv == Init => Inv
<1> SUFFICES ASSUME Init PROVE Inv
  OBVIOUS
<1>1. Types
  BY InitTypes
<1>2. PICK n \in 0 .. MaxEarly :
        /\ ResponseLen + n < Size
        /\ taken = n /\ opened \in n .. Total /\ arrived = opened
        /\ IF use_ssl THEN Decryptable(n, opened) ELSE n = opened
        /\ buf = [i \in 0 .. Size - 1 |->
                    IF i >= ResponseLen /\ i < ResponseLen + n THEN i - ResponseLen ELSE -1]
        /\ read_ptr = ResponseLen /\ write_ptr = ResponseLen + n
  BY DEF Init
<1>3. /\ n \in Nat /\ MaxEarly \in Nat /\ Size \in Nat \ {0} /\ ResponseLen \in 1 .. Size - 1
      /\ MaxSslRead \in Nat /\ FrameCount \in Nat
  BY ReceiverAssumption, StreamAssumption
<1>4. Done = 0
  BY DEF Init, Done
<1>5. /\ pf.offset = 0 /\ pf.consumed = 0 /\ pf.attempts = 0
      /\ pf.phase = IF use_ssl THEN "read" ELSE "final"
      /\ Busy => pf.len = Readable(Size, read_ptr, write_ptr)
  <2>1. pf = AfterEvents(use_ssl, read_ptr, write_ptr)
    BY DEF Init
  <2>2. "read" \in Phases /\ "final" \in Phases
    BY DEF Phases
  <2>3. CASE use_ssl
    <3>1. pf = [Idle EXCEPT !.phase = "read"]
      BY <2>1, <2>3 DEF AfterEvents
    <3> QED
      BY <2>2, <2>3, <3>1, BetweenPasses DEF Busy
  <2>4. CASE ~use_ssl
    <3>1. pf = FramesPass("final", read_ptr, write_ptr)
      BY <2>1, <2>4 DEF AfterEvents
    <3>2. read_ptr \in 0 .. Size - 1 /\ write_ptr \in 0 .. Size - 1
      BY <1>1 DEF Types, RingTypes
    <3> QED
      BY <2>2, <2>4, <3>1, <3>2, PassStarts
  <2> QED
    BY <2>3, <2>4
<1>6. Position = 0 /\ Unread = n
  <2>1. Position = FrameStart[0 + 1] - 0 /\ FrameStart[0 + 1] = 0
    BY <1>4, <1>5, StreamAssumption DEF Position, Done
  <2> QED
    BY <1>2, <1>3, <2>1 DEF Unread
<1>7. Holds(buf, read_ptr, write_ptr, 0, n)
  <2>1. read_ptr = Place(0)
    BY <1>2, <1>3 DEF Place
  <2>2. ASSUME NEW i \in 0 .. n - 1 PROVE buf[read_ptr + i] = 0 + i
    <3>1. /\ read_ptr + i \in 0 .. Size - 1 /\ read_ptr + i >= ResponseLen
          /\ read_ptr + i < ResponseLen + n /\ (read_ptr + i) - ResponseLen = 0 + i
      BY <1>2, <1>3
    <3> QED
      BY <1>2, <3>1
  <2>3. n < Size /\ read_ptr + n < Size
    BY <1>2, <1>3
  <2> QED
    BY <1>2, <1>3, <2>1, <2>2, <2>3 DEF Holds
<1>8. RingInv
  BY <1>2, <1>3, <1>4, <1>5, <1>6, <1>7 DEF RingInv
<1>9. PassInv
  <2>1. Busy => pf.len = Unread
    BY <1>3, <1>5, <1>6, <1>7, HeldReadable
  <2>2. pf.consumed >= 2 * pf.attempts
    BY <1>5
  <2> QED
    BY <1>5, <2>1, <2>2 DEF PassInv
<1>10. Early
  BY <1>2, <1>3, <1>4 DEF Early
<1>11. BudgetInv
  <2>1. Spare(MaxEarly - 2 - 2 * pf.attempts)
    <3>1. MaxEarly - 2 - 2 * pf.attempts = MaxEarly - 2
      BY <1>3, <1>5
    <3> QED
      BY <1>2, <1>3, <1>10, <3>1, EarlySpare DEF Spare
  <2>2. drain.rounds = 0
    BY NoDrainFacts DEF Init
  <2> QED
    BY <1>5, <1>10, <2>1, <2>2 DEF BudgetInv
<1>12. EndInv
  BY <1>2, <1>5 DEF EndInv, Init
<1> QED
  BY <1>1, <1>8, <1>9, <1>11, <1>12 DEF Inv

LEMMA StepInv == ASSUME Fitting PROVE Inv /\ [Next]_vars => Inv'
<1> SUFFICES ASSUME Inv, [Next]_vars PROVE Inv'
  OBVIOUS
<1>1. Types'
  BY StepTypes DEF Inv
<1>2. RingInv' /\ PassInv' /\ BudgetInv' /\ EndInv'
  BY <1>1, NetworkKeeps, ReadEventKeeps, EofEventKeeps, NoEventKeeps, DrainReadKeeps,
     ParseErrorKeeps, NeedMoreKeeps, ParseFrameKeeps, EndFramesKeeps
     DEF Next, websocket_process, process_frames
<1> QED
  BY <1>1, <1>2 DEF Inv
(* The invariant behind the theorems below: the ring holds the unread      *)
(* bytes in one piece, a pass covers them, and the passes that are counted *)
(* do not run out before the whole frames do.                              *)
THEOREM ReceiverInvariant == ASSUME Fitting PROVE Spec => []Inv
BY InitInv, StepInv, PTL DEF Spec

(* process_frames always stands at the start of a frame that lies in one   *)
(* piece before it: the payload pointer never leaves the ring buffer.      *)
THEOREM ParserStaysInRing == ASSUME Fitting PROVE Spec => []StaysInRing
<1>1. Inv => StaysInRing
  <2> SUFFICES ASSUME Inv, InLoop, Left >= 2 PROVE \E k \in 1 .. FrameCount : StandsAt(k)
    BY DEF StaysInRing
  <2>1. Done < FrameCount /\ StandsAt(Done + 1)
    BY AtFrame DEF Inv
  <2>2. Done \in Nat
    BY Where DEF Inv
  <2> QED
    BY <2>1, <2>2, NextFrame
<1> QED
  BY <1>1, ReceiverInvariant, PTL

(* ringbuffer_read_inline always sees exactly the bytes received and not   *)
(* yet consumed: a full ring, which would look empty, does not occur.      *)
THEOREM NoByteLost == ASSUME Fitting PROVE Spec => []NothingLost
<1>1. Inv => NothingLost
  <2> SUFFICES ASSUME Inv PROVE Readable(Size, read_ptr, write_ptr) = Unread
    BY DEF NothingLost, Unread
  <2>1. Position \in Nat /\ Unread \in Nat
    BY Where DEF Inv
  <2>2. Holds(buf, read_ptr, write_ptr, Position, Unread)
    BY DEF Inv, RingInv
  <2> QED
    BY <2>1, <2>2, HeldReadable
<1> QED
  BY <1>1, ReceiverInvariant, PTL

(* No whole frame stays in the ring when websocket_process returns: the    *)
(* attempts of a pass and the rounds of the drain loop are enough.         *)
THEOREM RingDrained == ASSUME Fitting PROVE Spec => []Drained
<1>1. Inv => Drained
  <2> SUFFICES ASSUME Inv, pf.phase = "idle", fd, NEW k \in 1 .. FrameCount,
                      FrameStart[k + 1] <= taken
               PROVE  k <= Done
    BY DEF Drained, Done
  <2>1. NoWhole
    BY DEF Inv, BudgetInv
  <2>2. Done \in Nat /\ taken \in Nat /\ FrameCount \in Nat
    BY Where DEF Inv
  <2>3. CASE k > Done
    <3>1. /\ Done < FrameCount /\ k + 1 \in 1 .. FrameCount + 1
          /\ Done + 2 \in 1 .. FrameCount + 1
          /\ k + 1 = Done + 2 \/ Done + 2 < k + 1
      BY <2>2, <2>3
    <3>2. FrameStart[k + 1] \in Nat /\ FrameStart[Done + 2] \in Nat
      BY <3>1, FrameFacts
    <3>3. Done + 2 < k + 1 => FrameStart[Done + 2] + 2 <= FrameStart[k + 1]
      BY <3>1, StreamAssumption
    <3>4. FrameStart[Done + 2] <= FrameStart[k + 1]
      BY <3>1, <3>2, <3>3
    <3>5. taken - FrameStart[Done + 2] <= -1
      BY <2>1, <3>1 DEF NoWhole, Spare, Beyond
    <3> QED
      BY <2>2, <3>2, <3>4, <3>5
  <2> QED
    BY <2>2, <2>3
<1> QED
  BY <1>1, ReceiverInvariant, PTL
-----------------------------------------------------------------------------
(* The message channel.                                                    *)

(* A frame that is dispatched has arrived.                                 *)
LEMMA DispatchedArrived ==
  ASSUME Inv, ParseFrame
  PROVE  Done + 1 \in WholeArrived
<1>1. Done + 1 \in 1 .. FrameCount /\ FrameStart[Done + 2] <= taken
  BY FrameTaken
<1>2. /\ Done \in Nat /\ taken \in Nat /\ opened \in Nat
      /\ arrived \in Nat /\ taken <= opened /\ opened <= arrived
      /\ use_ssl => Decryptable(taken, opened)
  BY Where, FrameFacts DEF Inv, Types, NetTypes, EndInv
<1>3. /\ FrameStart[Done + 2] \in Nat /\ FrameStart[Done + 2] > 0
      /\ (Done + 1) + 1 = Done + 2
  <2>1. Done < FrameCount
    BY <1>1, <1>2, StreamAssumption
  <2>2. /\ FrameStart[Done + 1] \in Nat /\ FrameStart[Done + 2] \in Nat
        /\ FrameSize(Done + 1) \in Nat /\ FrameSize(Done + 1) >= 2
        /\ FrameStart[Done + 2] = FrameStart[Done + 1] + FrameSize(Done + 1)
    BY <1>2, <2>1, NextFrame
  <2> QED
    BY <1>2, <2>2
<1>4. FrameStart[Done + 2] <= arrived
  BY <1>1, <1>2, <1>3
<1>5. use_ssl => Decryptable(FrameStart[Done + 2], arrived)
  BY <1>1, <1>2, <1>3, ReceiverAssumption DEF Decryptable
<1> QED
  BY <1>1, <1>3, <1>4, <1>5 DEF WholeArrived

LEMMA ChannelStep == Inv /\ [Next]_vars => [Channel!Next]_(Channel!vars)
<1> SUFFICES ASSUME Inv, [Next]_vars PROVE [Channel!Next]_(Channel!vars)
  OBVIOUS
<1>1. ASSUME UNCHANGED <<use_ssl, arrived>> PROVE WholeArrived' = WholeArrived
  BY <1>1 DEF WholeArrived, Decryptable
<1>2. ASSUME UNCHANGED <<use_ssl, arrived, handled>>, state' = state \/ state' = "CLOSED"
      PROVE  [Channel!Next]_(Channel!vars)
  <2>1. WholeArrived' = WholeArrived
    BY <1>1, <1>2
  <2> QED
    BY <1>2, <2>1, Zenon DEF Channel!Next, Channel!Close, Channel!vars
<1>3. CASE Deliver
  <2>1. PICK n \in arrived + 1 .. Total : arrived' = n
    BY <1>3 DEF Deliver
  <2>2. arrived \in Nat /\ arrived' \in Nat /\ arrived' >= arrived
    BY <2>1, FrameFacts DEF Inv, Types, NetTypes
  <2>3. use_ssl' = use_ssl /\ handled' = handled /\ state' = state
    BY <1>3 DEF Deliver
  <2>4. ASSUME NEW k \in WholeArrived PROVE k \in WholeArrived'
    <3>1. k \in 1 .. FrameCount /\ FrameStart[k + 1] \in Nat /\ RecordEnds \subseteq Nat
      BY FrameFacts, ReceiverAssumption DEF WholeArrived
    <3> QED
      BY <2>2, <2>3, <3>1 DEF WholeArrived, Decryptable
  <2>5. WholeArrived' \subseteq 1 .. FrameCount
    BY DEF WholeArrived
  <2> QED
    BY <2>3, <2>4, <2>5, Zenon DEF Channel!Next, Channel!Arrive, Channel!vars
<1>4. CASE ParseFrame
  <2>1. Done + 1 \in 1 .. FrameCount /\ Dispatch(Done + 1)
    BY <1>4, FrameTaken
  <2>2. Done + 1 \in WholeArrived
    BY <1>4, DispatchedArrived
  <2>3. WholeArrived' = WholeArrived
    BY <1>1, <1>4 DEF ParseFrame, network
  <2>4. handled' = Append(handled, Done + 1)
    BY <2>1 DEF Dispatch
  <2>5. (state = "CONNECTED")' \in {state = "CONNECTED", FALSE}
    BY <2>1, Zenon DEF Dispatch
  <2>6. Channel!HandOut
    BY <2>2, <2>3, <2>4, <2>5, Zenon DEF Channel!HandOut, Done
  <2> QED
    BY <2>6, Zenon DEF Channel!Next
<1>5. CASE CloseNotify \/ PeerClose \/ UNCHANGED vars
  BY <1>2, <1>5 DEF CloseNotify, PeerClose, vars, network
<1>6. CASE ReadEvent \/ EofEvent \/ NoEvent \/ DrainRead
  BY <1>2, <1>6 DEF ReadEvent, EofEvent, NoEvent, DrainRead, network
<1>7. CASE ParseError \/ NeedMore \/ EndFrames
  BY <1>2, <1>7, Zenon DEF ParseError, NeedMore, EndFrames, network
<1> QED
  BY <1>3, <1>4, <1>5, <1>6, <1>7 DEF Next, websocket_process, process_frames

LEMMA ChannelInit == Init => Channel!Init
<1> SUFFICES ASSUME Init PROVE Channel!Init
  OBVIOUS
<1>1. WholeArrived \subseteq 1 .. FrameCount
  BY DEF WholeArrived
<1>2. handled = << >> /\ (state = "CONNECTED") = TRUE
  BY DEF Init
<1> QED
  BY <1>1, <1>2 DEF Channel!Init

(* The receive path implements the message channel: frames are dispatched  *)
(* in the order in which they were sent, each once, none before it has     *)
(* come whole, however TCP and TLS cut the stream and wherever the ring    *)
(* wraps around.                                                           *)
THEOREM ReceiverRefinesChannel == ASSUME Fitting PROVE Spec => ImplementsChannel
BY ChannelInit, ChannelStep, ReceiverInvariant, PTL
   DEF Spec, ImplementsChannel, Channel!Spec

(* While connected, between two calls: a frame that has come whole and is  *)
(* not dispatched is where the next call reads on, in the socket that poll *)
(* reports or in a whole record of the TLS layer, and the ring has room.   *)
NothingStranded ==
  pf.phase = "idle" /\ state = "CONNECTED" /\ Done + 1 \in WholeArrived =>
    /\ ~RingFull
    /\ IF use_ssl THEN Decryptable(taken + 1, arrived) ELSE SocketHasBytes

(* No frame is forgotten between two calls of websocket_process, in the    *)
(* ring, in the TLS layer or behind a poll that stays silent: the part of  *)
(* ChannelDelivers that is not about fairness.                             *)
THEOREM NoFrameStranded == ASSUME Fitting PROVE Spec => []NothingStranded
<1>1. Inv => NothingStranded
  <2> SUFFICES ASSUME Inv, pf.phase = "idle", state = "CONNECTED", Done + 1 \in WholeArrived
               PROVE  /\ ~RingFull
                      /\ IF use_ssl THEN Decryptable(taken + 1, arrived) ELSE SocketHasBytes
    BY DEF NothingStranded
  <2>1. /\ Done \in Nat /\ taken \in Nat /\ opened \in Nat /\ arrived \in Nat
        /\ use_ssl \in BOOLEAN /\ (~use_ssl => opened = taken) /\ FrameCount \in Nat
    BY Where, FrameFacts DEF Inv, Types, NetTypes
  <2>2. Done < FrameCount /\ (Done + 1) + 1 = Done + 2
    BY <2>1 DEF WholeArrived
  <2>3. FrameStart[Done + 2] \in Nat /\ FrameStart[Done + 2] > 0
    BY <2>1, <2>2, NextFrame
  <2>4. NoWhole
    BY DEF Inv, BudgetInv, EndInv
  <2>5. taken < FrameStart[Done + 2]
    BY <2>1, <2>2, <2>3, <2>4 DEF NoWhole, Spare, Beyond
  <2>6. ~RingFull
    <3>1. Size \in Nat /\ read_ptr \in 0 .. Size - 1 /\ write_ptr \in 0 .. Size - 1
      BY ReceiverAssumption DEF Inv, Types, RingTypes
    <3>2. InlineSpace(Size, read_ptr, write_ptr) \in {read_ptr - write_ptr, Size - write_ptr}
          /\ (write_ptr >= read_ptr => InlineSpace(Size, read_ptr, write_ptr) = Size - write_ptr)
      BY <3>1 DEF InlineSpace
    <3> QED
      BY <3>1, <3>2 DEF RingFull
  <2>7. CASE use_ssl
    <3>1. Decryptable(FrameStart[Done + 2], arrived)
      BY <2>2, <2>7 DEF WholeArrived
    <3>2. PICK r \in RecordEnds : FrameStart[Done + 2] <= r /\ r <= arrived
      BY <2>3, <3>1 DEF Decryptable
    <3>3. r \in Nat
      BY ReceiverAssumption
    <3>4. taken + 1 <= r
      BY <2>1, <2>3, <2>5, <3>2, <3>3
    <3> QED
      BY <2>6, <2>7, <3>2, <3>4 DEF Decryptable
  <2>8. CASE ~use_ssl
    <3>1. FrameStart[Done + 2] <= arrived
      BY <2>2, <2>8 DEF WholeArrived
    <3>2. opened < arrived
      BY <2>1, <2>3, <2>5, <2>8, <3>1
    <3> QED
      BY <2>6, <2>8, <3>2 DEF SocketHasBytes
  <2> QED
    BY <2>7, <2>8
<1> QED
  BY <1>1, ReceiverInvariant, PTL
=============================================================================
