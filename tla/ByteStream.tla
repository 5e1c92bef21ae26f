----------------------------- MODULE ByteStream -----------------------------
(***************************************************************************)
(* What the ring of ringbuffer.c promises: a bounded first-in first-out    *)
(* stream of bytes.  The n-th byte the producer hands over is written n-1, *)
(* its position in the stream: the ring never looks at a byte, so naming   *)
(* bytes by their position loses nothing and tells every loss, duplication *)
(* and reordering apart.                                                   *)
(***************************************************************************)
EXTENDS Integers, Sequences

CONSTANT Capacity     \* most bytes that may wait to be read

VARIABLES
  sent,               \* number of bytes accepted so far
  rcvd,               \* number of bytes handed out (or discarded) so far
  got                 \* the bytes the last successful read returned

vars == <<sent, rcvd, got>>

Init == sent = 0 /\ rcvd = 0 /\ got = << >>

(* A write accepts n bytes, as many as there is room for.                  *)
Push(n) ==
  /\ sent + n - rcvd <= Capacity
  /\ sent' = sent + n
  /\ UNCHANGED <<rcvd, got>>

(* A read returns the n oldest bytes that wait.                            *)
Pop(n) ==
  /\ n <= sent - rcvd
  /\ got' = [i \in 1 .. n |-> rcvd + i - 1]
  /\ rcvd' = rcvd + n
  /\ UNCHANGED sent

(* The owner discards what waits.                                          *)
Clear == rcvd' = sent /\ UNCHANGED <<sent, got>>

Next ==
  \/ \E n \in 1 .. Capacity : Push(n) \/ Pop(n)
  \/ Clear

Spec == Init /\ [][Next]_vars
=============================================================================
