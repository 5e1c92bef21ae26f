--------------------------- MODULE SpscRingProofs ---------------------------
(***************************************************************************)
(* Proofs about SpscRing for every ring size and every bound: the type     *)
(* invariant, the absence of a data race, the integrity of what waits in   *)
(* the ring, the promises of the two queries, and the refinement of        *)
(* ByteStream.                                                             *)
(***************************************************************************)
EXTENDS SpscRing, TLAPS

(* The linear form of Advance.                                             *)
Wrap(p, i) == IF p + i < Size THEN p + i ELSE p + i - Size

(* One turn at most: the modulo of the code is a single subtraction.       *)
LEMMA AdvanceIsWrap ==
  ASSUME NEW p \in 0 .. Size - 1, NEW n \in 0 .. Size
  PROVE  Advance(Size, p, n) = Wrap(p, n)
<1> USE SizeAssumption
<1>1. CASE p + n < Size
  BY <1>1 DEF Advance, Wrap
<1>2. CASE p + n >= Size
  <2>1. p + n - Size \in 0 .. Size - 1
    BY <1>2
  <2>2. p + n = Size * 1 + (p + n - Size)
    OBVIOUS
  <2>3. (p + n) % Size = p + n - Size
    BY <2>1, <2>2
  <2> QED
    BY <2>3, <1>2 DEF Advance, Wrap
<1> QED
  BY <1>1, <1>2

(* The two memcpy calls of a copy fill consecutive places of the ring.     *)
LEMMA SlotIsWrap ==
  ASSUME NEW p \in 0 .. Size - 1, NEW n \in 0 .. Size, NEW i \in 0 .. n - 1
  PROVE  Slot(Size, p, n, i) = Wrap(p, i)
BY SizeAssumption DEF Slot, Wrap

(* Room and data add up to the size less the byte kept free.               *)
LEMMA SpaceAndReadable ==
  ASSUME NEW rp \in 0 .. Size - 1, NEW wp \in 0 .. Size - 1
  PROVE  /\ Space(Size, rp, wp) = Size - 1 - Readable(Size, rp, wp)
         /\ Readable(Size, rp, wp) \in 0 .. Size - 1
BY SizeAssumption DEF Space, Readable

(* Room is a natural number for pointers inside the ring.                  *)
LEMMA SpaceIsNat ==
  ASSUME NEW rp \in 0 .. Size - 1, NEW wp \in 0 .. Size - 1
  PROVE  Space(Size, rp, wp) \in Nat
BY SizeAssumption DEF Space

(* Moving the write pointer by n adds n bytes of data, if there is room.   *)
LEMMA WriteMoves ==
  ASSUME NEW rp \in 0 .. Size - 1, NEW wp \in 0 .. Size - 1,
         NEW n \in 0 .. Space(Size, rp, wp)
  PROVE  /\ Wrap(wp, n) \in 0 .. Size - 1
         /\ Readable(Size, rp, Wrap(wp, n)) = Readable(Size, rp, wp) + n
BY SizeAssumption DEF Space, Readable, Wrap

(* Moving the read pointer by n removes n bytes of data, if they wait.     *)
LEMMA ReadMoves ==
  ASSUME NEW rp \in 0 .. Size - 1, NEW wp \in 0 .. Size - 1,
         NEW n \in 0 .. Readable(Size, rp, wp)
  PROVE  /\ Wrap(rp, n) \in 0 .. Size - 1
         /\ Readable(Size, Wrap(rp, n), wp) = Readable(Size, rp, wp) - n
BY SizeAssumption DEF Readable, Wrap

(* Walking in two stages is walking once; the write pointer lies Readable  *)
(* bytes after the read pointer; different distances are different places. *)
LEMMA WrapFacts ==
  ASSUME NEW p \in 0 .. Size - 1
  PROVE  /\ \A i \in 0 .. Size - 1 : Wrap(p, i) \in 0 .. Size - 1
         /\ \A i, j \in 0 .. Size - 1 : i + j < Size =>
              Wrap(Wrap(p, i), j) = Wrap(p, i + j)
         /\ \A i, j \in 0 .. Size - 1 : Wrap(p, i) = Wrap(p, j) => i = j
         /\ \A q \in 0 .. Size - 1 : q = Wrap(p, Readable(Size, p, q))
BY SizeAssumption DEF Wrap, Readable
-----------------------------------------------------------------------------
(* The inductive invariant.                                                *)

(* After ringbuffer_cleanup everything is zero and no copy is under way.   *)
Dead ==
  size = 0 =>
    /\ read_ptr = 0 /\ write_ptr = 0 /\ sent = rcvd
    /\ prod.rp = 0 /\ prod.wp = 0 /\ prod.total = 0 /\ prod.told = 0
    /\ cons.rp = 0 /\ cons.wp = 0 /\ cons.total = 0 /\ cons.told = 0

(* The producer's chunks fit the room computed from its stale read_ptr,    *)
(* and that room is no larger than the real one.                           *)
ProdInv ==
  /\ prod.pc = "idle" => prod.total = 0
  /\ prod.pc # "idle" =>
       /\ prod.told = 0
       /\ prod.wp = Wrap(write_ptr, prod.total)
       /\ prod.total + prod.todo <= Space(size, prod.rp, write_ptr)
       /\ Space(size, prod.rp, write_ptr) <= Space(size, read_ptr, write_ptr)
  /\ prod.pc = "copy" => prod.done < prod.todo
  /\ prod.pc # "copy" => prod.todo = 0 /\ prod.done = 0

(* Likewise for the consumer and its stale write_ptr; what it has copied   *)
(* out are the next bytes of the stream.                                   *)
ConsInv ==
  /\ cons.pc = "idle" => cons.total = 0
  /\ cons.pc # "idle" =>
       /\ cons.told = 0
       /\ cons.rp = Wrap(read_ptr, cons.total)
       /\ cons.total + cons.todo <= Readable(size, read_ptr, cons.wp)
       /\ Readable(size, read_ptr, cons.wp) <= Readable(size, read_ptr, write_ptr)
  /\ cons.pc = "copy" => cons.done < cons.todo
  /\ cons.pc # "copy" => cons.todo = 0 /\ cons.done = 0
  /\ Len(cons.out) = cons.total + cons.done
  /\ \A i \in 1 .. Len(cons.out) : cons.out[i] = rcvd + i - 1

(* WaitingIntact in linear form.                                           *)
Contents ==
  /\ Unread = sent - rcvd
  /\ \A j \in 0 .. Unread + Pending - 1 : buf[Wrap(read_ptr, j)] = rcvd + j

IInv == TypeOK /\ Dead /\ ProdInv /\ ConsInv /\ Contents /\ PromisesKept

(* Facts about the types of single fields, cited where the whole type      *)
(* invariant would be in the way.                                          *)
LEMMA ProdFields ==
  ASSUME TypeOK
  PROVE  /\ prod.rp \in 0 .. Size - 1 /\ prod.wp \in 0 .. Size - 1
         /\ prod.todo \in Nat /\ prod.done \in Nat
         /\ prod.total \in Nat /\ prod.told \in Nat
BY DEF TypeOK, ProdType

(* The same for the consumer's local variables.                            *)
LEMMA ConsFields ==
  ASSUME TypeOK
  PROVE  /\ cons.rp \in 0 .. Size - 1 /\ cons.wp \in 0 .. Size - 1
         /\ cons.todo \in Nat /\ cons.done \in Nat
         /\ cons.total \in Nat /\ cons.told \in Nat /\ cons.out \in Seq(Int)
BY DEF TypeOK, ConsType

(* The shared pointers lie inside the buffer.                              *)
LEMMA Pointers ==
  ASSUME TypeOK
  PROVE  /\ read_ptr \in 0 .. Size - 1 /\ write_ptr \in 0 .. Size - 1
         /\ size \in {0, Size} /\ sent \in Nat /\ rcvd \in Nat
BY DEF TypeOK

(* Room and data are never negative, and 0 after ringbuffer_cleanup.       *)
LEMMA RoomIsNat ==
  ASSUME IInv
  PROVE  /\ Space(size, read_ptr, write_ptr) \in Nat
         /\ Readable(size, read_ptr, write_ptr) \in Nat
         /\ size = 0 => /\ Space(size, read_ptr, write_ptr) = 0
                        /\ Readable(size, read_ptr, write_ptr) = 0
BY Pointers, SizeAssumption DEF IInv, Dead, Space, Readable
-----------------------------------------------------------------------------
(* The initial state.                                                      *)
LEMMA InitIInv == Init => IInv
BY SizeAssumption DEF Init, IInv, TypeOK, Dead, ProdInv, ConsInv, Contents,
   PromisesKept, IdleProd, IdleCons, Unread, Pending, Space, Readable, Wrap,
   ProdType, ConsType

(* A step that changes only the producer's local variables preserves what  *)
(* is said about the ring and the consumer.                                *)
LEMMA ProducerLocal ==
  ASSUME IInv, UNCHANGED <<ring, cons, sent, rcvd, got>>,
         prod' \in ProdType, ProdInv', Pending' = Pending,
         prod'.told <= Space(size, read_ptr, write_ptr),
         size = 0 => /\ prod'.rp = 0 /\ prod'.wp = 0
                     /\ prod'.total = 0 /\ prod'.told = 0
  PROVE  IInv'
<1>1. TypeOK'
  BY DEF IInv, TypeOK, ring
<1>2. Dead'
  BY DEF IInv, Dead, ring
<1>3. ConsInv'
  BY DEF IInv, ConsInv, ring
<1>4. Contents'
  BY DEF IInv, Contents, ring, Unread
<1>5. PromisesKept'
  BY DEF IInv, PromisesKept, ring, Unread
<1> QED
  BY <1>1, <1>2, <1>3, <1>4, <1>5 DEF IInv

(* A step that changes only the consumer's local variables, likewise.      *)
LEMMA ConsumerLocal ==
  ASSUME IInv, UNCHANGED <<ring, prod, sent, rcvd, got>>,
         cons' \in ConsType, ConsInv', cons'.told <= Unread,
         size = 0 => /\ cons'.rp = 0 /\ cons'.wp = 0
                     /\ cons'.total = 0 /\ cons'.told = 0
  PROVE  IInv'
<1>1. TypeOK'
  BY DEF IInv, TypeOK, ring
<1>2. Dead'
  BY DEF IInv, Dead, ring
<1>3. ProdInv'
  BY DEF IInv, ProdInv, ring
<1>4. Contents'
  BY DEF IInv, Contents, ring, Unread, Pending
<1>5. PromisesKept'
  BY DEF IInv, PromisesKept, ring, Unread
<1> QED
  BY <1>1, <1>2, <1>3, <1>4, <1>5 DEF IInv
-----------------------------------------------------------------------------
(* The steps of the producer.                                              *)
LEMMA WriteStep ==
  ASSUME IInv, NEW len \in Lengths, ringbuffer_write(len)
  PROVE  IInv'
<1> DEFINE room == Space(size, read_ptr, write_ptr)
           n == Smaller(len, room)
<1>1. UNCHANGED <<ring, cons, sent, rcvd, got>> /\ prod.pc = "idle" /\ room > 0
  BY DEF ringbuffer_write
<1>2. prod' = [pc |-> "copy", batch |-> FALSE, rp |-> read_ptr, wp |-> write_ptr,
               todo |-> n, done |-> 0, total |-> 0, told |-> 0]
  BY DEF ringbuffer_write, IdleProd
<1>3. read_ptr \in 0 .. Size - 1 /\ write_ptr \in 0 .. Size - 1
  BY Pointers DEF IInv
<1>4. room \in Nat /\ size # 0
  BY <1>1, RoomIsNat
<1>5. n \in 1 .. room /\ n \in Nat
  BY <1>1, <1>4, BoundAssumption DEF Smaller, Lengths
<1>6. Wrap(write_ptr, 0) = write_ptr
  BY <1>3, SizeAssumption DEF Wrap
<1> HIDE DEF n
<1>7. prod' \in ProdType
  BY <1>2, <1>3, <1>5 DEF ProdType
<1>8. ProdInv'
  BY <1>1, <1>2, <1>4, <1>5, <1>6 DEF ProdInv, ring
<1>9. Pending' = Pending
  BY <1>1, <1>2 DEF Pending, IInv, ProdInv
<1> QED
  BY <1>1, <1>2, <1>4, <1>7, <1>8, <1>9, ProducerLocal

(* A batch starts with nothing copied.                                     *)
LEMMA BatchWriteStep ==
  ASSUME IInv, ringbuffer_batch_write
  PROVE  IInv'
<1>1. UNCHANGED <<ring, cons, sent, rcvd, got>> /\ prod.pc = "idle"
  BY DEF ringbuffer_batch_write
<1>2. prod' = [pc |-> "chunk", batch |-> TRUE, rp |-> read_ptr, wp |-> write_ptr,
               todo |-> 0, done |-> 0, total |-> 0, told |-> 0]
  BY DEF ringbuffer_batch_write, IdleProd
<1>3. read_ptr \in 0 .. Size - 1 /\ write_ptr \in 0 .. Size - 1
  BY Pointers DEF IInv
<1>4. Space(size, read_ptr, write_ptr) \in Nat
  BY RoomIsNat
<1>5. Wrap(write_ptr, 0) = write_ptr
  BY <1>3, SizeAssumption DEF Wrap
<1>6. prod' \in ProdType
  BY <1>2, <1>3 DEF ProdType
<1>7. ProdInv'
  BY <1>1, <1>2, <1>4, <1>5 DEF ProdInv, ring
<1>8. Pending' = Pending
  BY <1>1, <1>2 DEF Pending, IInv, ProdInv
<1>9. size = 0 => prod'.rp = 0 /\ prod'.wp = 0
  BY <1>2 DEF IInv, Dead
<1> QED
  BY <1>1, <1>2, <1>4, <1>6, <1>7, <1>8, <1>9, ProducerLocal

(* The room for a chunk is what the earlier chunks left of the room the    *)
(* stale read_ptr showed.                                                  *)
LEMMA ChunkRoom ==
  ASSUME NEW rp \in 0 .. Size - 1, NEW wp \in 0 .. Size - 1, NEW t \in Nat,
         t <= Space(Size, rp, wp)
  PROVE  /\ Space(Size, rp, Wrap(wp, t)) = Space(Size, rp, wp) - t
         /\ Space(Size, rp, wp) \in Nat
BY SizeAssumption DEF Space, Wrap

(* A chunk of a batch fits what its stale read_ptr leaves.                 *)
LEMMA BatchWriteChunkStep ==
  ASSUME IInv, NEW len \in Lengths, BatchWriteChunk(len)
  PROVE  IInv'
<1> DEFINE room == Space(size, prod.rp, prod.wp)
           n == Smaller(len, room)
<1>1. /\ UNCHANGED <<ring, cons, sent, rcvd, got>> /\ prod.pc = "chunk" /\ room > 0
      /\ prod' = [prod EXCEPT !.pc = "copy", !.todo = n, !.done = 0]
  BY DEF BatchWriteChunk
<1>2. /\ prod.told = 0 /\ prod.wp = Wrap(write_ptr, prod.total)
      /\ prod.todo = 0 /\ prod.done = 0
      /\ prod.total + prod.todo <= Space(size, prod.rp, write_ptr)
      /\ Space(size, prod.rp, write_ptr) <= Space(size, read_ptr, write_ptr)
  BY <1>1 DEF IInv, ProdInv
<1>3. /\ write_ptr \in 0 .. Size - 1 /\ size \in {0, Size}
      /\ prod.rp \in 0 .. Size - 1 /\ prod.total \in Nat /\ prod \in ProdType
  BY Pointers, ProdFields DEF IInv, TypeOK
<1>4. size = Size
  BY <1>1, <1>3 DEF IInv, Dead, Space
<1>5. room = Space(size, prod.rp, write_ptr) - prod.total
      /\ Space(size, prod.rp, write_ptr) \in Nat
  BY <1>2, <1>3, <1>4, ChunkRoom
<1>6. n \in Nat /\ n > 0 /\ prod.total + n <= Space(size, prod.rp, write_ptr)
  BY <1>1, <1>3, <1>5, BoundAssumption DEF Smaller, Lengths
<1> HIDE DEF room, n
<1>7. /\ prod' \in ProdType /\ prod'.pc = "copy" /\ prod'.todo = n /\ prod'.done = 0
      /\ prod'.told = prod.told /\ prod'.total = prod.total
      /\ prod'.rp = prod.rp /\ prod'.wp = prod.wp
  BY <1>1, <1>3, <1>6 DEF ProdType
<1>8. ProdInv'
  BY <1>1, <1>2, <1>6, <1>7 DEF ProdInv, ring
<1>9. Pending' = Pending
  BY <1>2, <1>7 DEF Pending
<1>10. prod'.told <= Space(size, read_ptr, write_ptr)
  BY <1>7 DEF IInv, PromisesKept
<1>11. size # 0
  BY <1>4, SizeAssumption
<1> QED
  BY <1>1, <1>7, <1>8, <1>9, <1>10, <1>11, ProducerLocal

(* The end of a batch's loop changes no byte.                              *)
LEMMA BatchWriteEndStep ==
  ASSUME IInv, BatchWriteEnd
  PROVE  IInv'
<1>1. /\ UNCHANGED <<ring, cons, sent, rcvd, got>> /\ prod.pc = "chunk"
      /\ prod' = [prod EXCEPT !.pc = "publish"]
  BY DEF BatchWriteEnd
<1>2. prod \in ProdType
  BY DEF IInv, TypeOK
<1>3. /\ prod' \in ProdType /\ prod'.pc = "publish"
      /\ prod'.todo = prod.todo /\ prod'.done = prod.done
      /\ prod'.told = prod.told /\ prod'.total = prod.total
      /\ prod'.rp = prod.rp /\ prod'.wp = prod.wp
  BY <1>1, <1>2 DEF ProdType
<1>4. ProdInv'
  BY <1>1, <1>3 DEF IInv, ProdInv, ring
<1>5. prod'.told <= Space(size, read_ptr, write_ptr)
  BY <1>3 DEF IInv, PromisesKept
<1>6. size = 0 => prod'.rp = 0 /\ prod'.wp = 0 /\ prod'.total = 0 /\ prod'.told = 0
  BY <1>3 DEF IInv, Dead
<1>7. Pending' = Pending
  BY <1>3 DEF Pending
<1> QED
  BY <1>1, <1>3, <1>4, <1>5, <1>6, <1>7, ProducerLocal

(* ringbuffer_writeable promises no more than there is.                    *)
LEMMA WriteableStep ==
  ASSUME IInv, ringbuffer_writeable
  PROVE  IInv'
<1>1. /\ UNCHANGED <<ring, cons, sent, rcvd, got>> /\ prod.pc = "idle"
      /\ prod' = [prod EXCEPT !.told = Space(size, read_ptr, write_ptr)]
  BY DEF ringbuffer_writeable
<1>2. prod \in ProdType
  BY DEF IInv, TypeOK
<1>3. /\ Space(size, read_ptr, write_ptr) \in Nat
      /\ size = 0 => Space(size, read_ptr, write_ptr) = 0
  BY RoomIsNat
<1>4. /\ prod' \in ProdType /\ prod'.pc = "idle"
      /\ prod'.todo = prod.todo /\ prod'.done = prod.done
      /\ prod'.total = prod.total /\ prod'.rp = prod.rp /\ prod'.wp = prod.wp
      /\ prod'.told = Space(size, read_ptr, write_ptr)
  BY <1>1, <1>2, <1>3 DEF ProdType
<1>5. ProdInv'
  BY <1>1, <1>4 DEF IInv, ProdInv, ring
<1>6. size = 0 => prod'.rp = 0 /\ prod'.wp = 0 /\ prod'.total = 0 /\ prod'.told = 0
  BY <1>3, <1>4 DEF IInv, Dead
<1>7. Pending' = Pending
  BY <1>4 DEF Pending
<1>8. prod'.told <= Space(size, read_ptr, write_ptr)
  BY <1>3, <1>4
<1> QED
  BY <1>1, <1>4, <1>5, <1>6, <1>7, <1>8, ProducerLocal

(* Byte d of a k-byte chunk, after t bytes of earlier chunks, goes behind  *)
(* everything that waits; the pointer then moves to the end of the chunk.  *)
LEMMA CopyInIndex ==
  ASSUME NEW rp \in 0 .. Size - 1, NEW wp \in 0 .. Size - 1,
         NEW old \in 0 .. Size - 1,
         NEW t \in Nat, NEW k \in Nat, NEW d \in Nat, d < k,
         t + k <= Space(Size, old, wp),
         Space(Size, old, wp) <= Space(Size, rp, wp)
  PROVE  /\ Readable(Size, rp, wp) + t + k <= Size - 1
         /\ Slot(Size, Wrap(wp, t), k, d) = Wrap(rp, Readable(Size, rp, wp) + (t + d))
         /\ Advance(Size, Wrap(wp, t), k) = Wrap(wp, t + k)
         /\ Wrap(wp, t + k) \in 0 .. Size - 1
<1>1. Readable(Size, rp, wp) \in Nat /\ Readable(Size, rp, wp) + t + k <= Size - 1
  BY SizeAssumption DEF Space, Readable
<1>2. Wrap(wp, t) \in 0 .. Size - 1 /\ k \in 0 .. Size /\ d \in 0 .. k - 1
  BY <1>1, SizeAssumption DEF Wrap
<1>3. Slot(Size, Wrap(wp, t), k, d) = Wrap(Wrap(wp, t), d)
  BY <1>2, SlotIsWrap
<1>4. Advance(Size, Wrap(wp, t), k) = Wrap(Wrap(wp, t), k)
  BY <1>2, AdvanceIsWrap
<1>5. Wrap(Wrap(wp, t), d) = Wrap(wp, t + d) /\ Wrap(Wrap(wp, t), k) = Wrap(wp, t + k)
  BY <1>1, SizeAssumption DEF Wrap
<1>6. Wrap(wp, t + d) = Wrap(rp, Readable(Size, rp, wp) + (t + d))
  BY <1>1, SizeAssumption DEF Wrap, Readable
<1>7. Wrap(wp, t + k) \in 0 .. Size - 1
  BY <1>1, SizeAssumption DEF Wrap
<1> QED
  BY <1>1, <1>3, <1>4, <1>5, <1>6, <1>7

(* Different distances, less than the size, are different places.          *)
LEMMA WrapInjective ==
  ASSUME NEW p \in 0 .. Size - 1, NEW i \in 0 .. Size - 1, NEW j \in 0 .. Size - 1,
         i # j
  PROVE  Wrap(p, i) # Wrap(p, j) /\ Wrap(p, i) \in 0 .. Size - 1
BY SizeAssumption DEF Wrap

(* The slot of the byte being copied in lies just behind what waits.       *)
LEMMA CopyInFacts ==
  ASSUME IInv, prod.pc = "copy"
  PROVE  /\ size = Size /\ prod.done < prod.todo /\ prod.told = 0
         /\ prod.total + prod.todo <= Space(size, prod.rp, write_ptr)
         /\ Space(size, prod.rp, write_ptr) <= Space(size, read_ptr, write_ptr)
         /\ Unread \in Nat /\ Pending \in Nat /\ Unread + Pending < Size - 1
         /\ Slot(size, prod.wp, prod.todo, prod.done) = Wrap(read_ptr, Unread + Pending)
         /\ Advance(size, prod.wp, prod.todo) = Wrap(write_ptr, prod.total + prod.todo)
         /\ Wrap(write_ptr, prod.total + prod.todo) \in 0 .. Size - 1
<1> DEFINE t == prod.total  k == prod.todo  d == prod.done  old == prod.rp
<1>1. /\ read_ptr \in 0 .. Size - 1 /\ write_ptr \in 0 .. Size - 1
      /\ size \in {0, Size}
  BY Pointers DEF IInv
<1>2. t \in Nat /\ k \in Nat /\ d \in Nat /\ old \in 0 .. Size - 1
  BY ProdFields DEF IInv
<1>3. /\ prod.told = 0 /\ prod.wp = Wrap(write_ptr, t) /\ d < k
      /\ t + k <= Space(size, old, write_ptr)
      /\ Space(size, old, write_ptr) <= Space(size, read_ptr, write_ptr)
  BY DEF IInv, ProdInv
<1>4. size = Size
  <2>1. CASE size = 0
    <3>1. Space(size, old, write_ptr) = 0
      BY <2>1 DEF IInv, Dead, Space
    <3> QED
      BY <3>1, <1>2, <1>3
  <2> QED
    BY <2>1, <1>1
<1>5. Unread \in Nat /\ Unread = Readable(Size, read_ptr, write_ptr) /\ Pending = t + d
  BY <1>4, RoomIsNat DEF Unread, Pending
<1> HIDE DEF t, k, d, old
<1>6. /\ Readable(Size, read_ptr, write_ptr) + t + k <= Size - 1
      /\ Slot(Size, Wrap(write_ptr, t), k, d)
           = Wrap(read_ptr, Readable(Size, read_ptr, write_ptr) + (t + d))
      /\ Advance(Size, Wrap(write_ptr, t), k) = Wrap(write_ptr, t + k)
      /\ Wrap(write_ptr, t + k) \in 0 .. Size - 1
  <2>1. /\ t + k <= Space(Size, old, write_ptr) /\ d < k
        /\ Space(Size, old, write_ptr) <= Space(Size, read_ptr, write_ptr)
    BY <1>3, <1>4
  <2> QED
    BY <1>1, <1>2, <2>1, CopyInIndex
<1>7. Pending \in Nat /\ Unread + Pending < Size - 1
  BY <1>2, <1>3, <1>5, <1>6, SizeAssumption
<1> QED
  BY <1>3, <1>4, <1>5, <1>6, <1>7 DEF t, k, d, old

(* The byte lands on no unread byte.                                       *)
LEMMA CopyInStep ==
  ASSUME IInv, CopyIn
  PROVE  IInv'
<1> DEFINE slot == Slot(size, prod.wp, prod.todo, prod.done)
           byte == sent + prod.total + prod.done
<1>1. /\ UNCHANGED <<size, read_ptr, write_ptr, cons, sent, rcvd, got>>
      /\ prod.pc = "copy"
      /\ buf' = [buf EXCEPT ![slot] = byte]
  BY DEF CopyIn
<1>2. /\ read_ptr \in 0 .. Size - 1 /\ write_ptr \in 0 .. Size - 1
      /\ sent \in Nat /\ rcvd \in Nat
  BY Pointers DEF IInv
<1>3. prod.total \in Nat /\ prod.todo \in Nat /\ prod.done \in Nat
  BY ProdFields DEF IInv
<1>4. /\ prod.told = 0 /\ prod.done < prod.todo
      /\ prod.total + prod.todo <= Space(size, prod.rp, write_ptr)
      /\ Space(size, prod.rp, write_ptr) <= Space(size, read_ptr, write_ptr)
      /\ prod.wp = Wrap(write_ptr, prod.total)
  BY <1>1, CopyInFacts DEF IInv, ProdInv
<1>5. size = Size
  BY <1>1, CopyInFacts
<1>6. /\ Unread \in Nat
      /\ slot = Wrap(read_ptr, Unread + Pending)
      /\ Advance(size, prod.wp, prod.todo) = Wrap(write_ptr, prod.total + prod.todo)
      /\ Wrap(write_ptr, prod.total + prod.todo) \in 0 .. Size - 1
  BY <1>1, CopyInFacts
<1>7. Pending \in Nat /\ Unread + Pending < Size - 1
  BY <1>1, CopyInFacts
<1> HIDE DEF slot, byte
<1>8. /\ prod' \in ProdType
      /\ prod'.rp = prod.rp /\ prod'.told = prod.told
      /\ \/ /\ prod'.pc = "copy" /\ prod'.todo = prod.todo
            /\ prod'.done = prod.done + 1 /\ prod'.done < prod'.todo
            /\ prod'.total = prod.total /\ prod'.wp = prod.wp
         \/ /\ prod'.pc \in {"chunk", "publish"} /\ prod'.todo = 0 /\ prod'.done = 0
            /\ prod.todo = prod.done + 1 /\ prod'.total = prod.total + prod.todo
            /\ prod'.wp = Wrap(write_ptr, prod.total + prod.todo)
  <2>0. prod \in ProdType
    BY DEF IInv, TypeOK
  <2>1. CASE prod.done + 1 < prod.todo
    <3>1. prod' = [prod EXCEPT !.done = prod.done + 1]
      BY <2>1 DEF CopyIn
    <3>2. prod.done + 1 \in Nat
      BY <1>3
    <3> QED
      BY <3>1, <3>2, <2>0, <2>1, <1>1 DEF ProdType
  <2>2. CASE ~(prod.done + 1 < prod.todo)
    <3>1. prod' = [prod EXCEPT !.pc = IF prod.batch THEN "chunk" ELSE "publish",
                               !.wp = Wrap(write_ptr, prod.total + prod.todo),
                               !.total = prod.total + prod.todo,
                               !.todo = 0, !.done = 0]
      BY <2>2, <1>6 DEF CopyIn
    <3>2. prod.total + prod.todo \in Nat /\ prod.todo = prod.done + 1
      BY <2>2, <1>3, <1>4
    <3> QED
      BY <3>1, <3>2, <2>0, <1>6 DEF ProdType
  <2> QED
    BY <2>1, <2>2
<1>9. Pending' = Pending + 1
  BY <1>3, <1>8 DEF Pending
<1>10. TypeOK'
  <2>1. buf \in [0 .. Size - 1 -> Int]
    BY DEF IInv, TypeOK
  <2>2. byte \in Int
    BY <1>2, <1>3 DEF byte
  <2>3. buf' \in [0 .. Size - 1 -> Int]
    BY <1>1, <2>1, <2>2
  <2> QED
    BY <1>1, <1>8, <2>3 DEF IInv, TypeOK
<1>11. Dead'
  BY <1>1, <1>5, SizeAssumption DEF Dead
<1>12. ProdInv'
  <2>1. prod'.total + prod'.todo = prod.total + prod.todo
    BY <1>3, <1>8
  <2> QED
    BY <1>1, <1>4, <1>8, <2>1 DEF ProdInv
<1>13. ConsInv'
  BY <1>1 DEF IInv, ConsInv
<1>14. Contents'
  <2>1. Unread' = Unread /\ Unread = sent - rcvd
    BY <1>1 DEF Unread, IInv, Contents
  <2>2. buf \in [0 .. Size - 1 -> Int]
    BY DEF IInv, TypeOK
  <2>3. Unread + Pending \in 0 .. Size - 1
    BY <1>6, <1>7, SizeAssumption
  <2>4. ASSUME NEW j \in 0 .. Unread + Pending
        PROVE  buf'[Wrap(read_ptr, j)] = rcvd + j
    <3>1. CASE j = Unread + Pending
      <4>1. slot \in 0 .. Size - 1
        BY <1>2, <1>6, <2>3, SizeAssumption DEF Wrap
      <4>2. byte = rcvd + j
        BY <3>1, <1>2, <1>3, <2>1 DEF byte, Pending
      <4> QED
        BY <3>1, <4>1, <4>2, <1>1, <1>6, <2>2
    <3>2. CASE j # Unread + Pending
      <4>1. j \in 0 .. Unread + Pending - 1 /\ j \in 0 .. Size - 1
        BY <3>2, <1>6, <1>7, SizeAssumption
      <4>2. Wrap(read_ptr, j) # slot /\ Wrap(read_ptr, j) \in 0 .. Size - 1
        BY <4>1, <3>2, <1>2, <1>6, <2>3, WrapInjective
      <4>3. buf[Wrap(read_ptr, j)] = rcvd + j
        BY <4>1 DEF IInv, Contents
      <4> QED
        BY <4>2, <4>3, <1>1, <2>2
    <3> QED
      BY <3>1, <3>2
  <2>5. Unread' + Pending' - 1 = Unread + Pending
    BY <1>6, <1>7, <1>9, <2>1
  <2> QED
    BY <2>1, <2>4, <2>5, <1>1 DEF Contents
<1>15. PromisesKept'
  BY <1>1, <1>8 DEF IInv, PromisesKept, Unread
<1> QED
  BY <1>10, <1>11, <1>12, <1>13, <1>14, <1>15 DEF IInv

(* Publishing turns what is pending into what waits.                       *)
LEMMA WritePublishStep ==
  ASSUME IInv, WritePublish
  PROVE  IInv'
<1> DEFINE t == prod.total
<1>1. /\ UNCHANGED <<size, buf, read_ptr, cons, rcvd, got>>
      /\ prod.pc = "publish" /\ sent' = sent + t
      /\ write_ptr' = IF t > 0 THEN prod.wp ELSE write_ptr
  BY DEF WritePublish
<1>2. prod' = [pc |-> "idle", batch |-> FALSE, rp |-> 0, wp |-> 0,
               todo |-> 0, done |-> 0, total |-> 0, told |-> 0]
  BY DEF WritePublish, IdleProd
<1>3. /\ read_ptr \in 0 .. Size - 1 /\ write_ptr \in 0 .. Size - 1
      /\ size \in {0, Size} /\ sent \in Nat /\ rcvd \in Nat
  BY Pointers DEF IInv
<1>4. prod.rp \in 0 .. Size - 1 /\ t \in Nat
  BY ProdFields DEF IInv
<1>5. /\ prod.done = 0 /\ prod.todo = 0 /\ prod.wp = Wrap(write_ptr, t)
      /\ t + prod.todo <= Space(size, prod.rp, write_ptr)
      /\ Space(size, prod.rp, write_ptr) <= Space(size, read_ptr, write_ptr)
  BY <1>1 DEF IInv, ProdInv
<1>6. Pending = t
  BY <1>4, <1>5 DEF Pending
<1>7. size = 0 => t = 0
  BY DEF IInv, Dead
<1> HIDE DEF t
<1>8. write_ptr' = Wrap(write_ptr, t)
  BY <1>1, <1>3, <1>4, <1>5, SizeAssumption DEF Wrap
<1>9. /\ write_ptr' \in 0 .. Size - 1 /\ Unread' = Unread + t
      /\ Unread \in Nat /\ Space(size, read_ptr, write_ptr') \in Nat
      /\ size = 0 => write_ptr' = 0
  <2>1. CASE size = 0
    <3>1. write_ptr' = 0 /\ read_ptr = 0 /\ write_ptr = 0 /\ t = 0
      BY <2>1, <1>1, <1>7 DEF IInv, Dead
    <3> QED
      BY <2>1, <3>1, <1>1, SizeAssumption DEF Unread, Readable, Space
  <2>2. CASE size = Size
    <3>1. t \in 0 .. Space(Size, read_ptr, write_ptr)
      <4>1. /\ Space(Size, prod.rp, write_ptr) \in Nat
            /\ Space(Size, read_ptr, write_ptr) \in Nat
        BY <1>3, <1>4, SpaceIsNat
      <4> QED
        BY <4>1, <1>4, <1>5, <2>2
    <3>2. /\ write_ptr' \in 0 .. Size - 1
          /\ Readable(Size, read_ptr, write_ptr') = Readable(Size, read_ptr, write_ptr) + t
      BY <1>3, <1>8, <3>1, WriteMoves
    <3>3. Space(Size, read_ptr, write_ptr') \in Nat
      BY <1>3, <3>2, SpaceIsNat
    <3>4. Unread \in Nat
      BY RoomIsNat DEF Unread
    <3> QED
      BY <2>2, <3>2, <3>3, <3>4, <1>1, SizeAssumption DEF Unread
  <2> QED
    BY <2>1, <2>2, <1>3
<1>10. TypeOK'
  <2>1. prod' \in ProdType
    BY <1>2, SizeAssumption DEF ProdType
  <2>2. sent' \in Nat
    BY <1>1, <1>3, <1>4
  <2> QED
    BY <1>1, <1>9, <2>1, <2>2 DEF IInv, TypeOK
<1>11. Dead'
  <2>1. size = 0 => sent' = sent
    BY <1>1, <1>3, <1>7
  <2> QED
    BY <1>1, <1>2, <1>9, <2>1 DEF IInv, Dead
<1>12. ProdInv'
  BY <1>2 DEF ProdInv
<1>13. ConsInv'
  <2>1. ASSUME cons.pc # "idle"
        PROVE  Readable(size, read_ptr, cons.wp) <= Readable(size, read_ptr, write_ptr')
    <3>1. Readable(size, read_ptr, cons.wp) <= Unread
      BY <2>1 DEF IInv, ConsInv, Unread
    <3>2. cons.wp \in 0 .. Size - 1
      BY ConsFields DEF IInv
    <3>3. Readable(size, read_ptr, cons.wp) \in Int
      BY <1>3, <3>2, SizeAssumption DEF Readable
    <3>4. Unread' = Readable(size, read_ptr, write_ptr')
      BY <1>1 DEF Unread
    <3> QED
      BY <3>1, <3>3, <3>4, <1>4, <1>9
  <2> QED
    BY <1>1, <2>1 DEF IInv, ConsInv
<1>14. Contents'
  <2>1. /\ Unread' + Pending' - 1 = Unread + Pending - 1
        /\ buf' = buf /\ read_ptr' = read_ptr /\ rcvd' = rcvd
    BY <1>1, <1>2, <1>4, <1>6, <1>9 DEF Pending
  <2>2. Unread' = sent' - rcvd'
    BY <1>1, <1>3, <1>4, <1>9 DEF IInv, Contents
  <2>3. \A j \in 0 .. Unread + Pending - 1 : buf[Wrap(read_ptr, j)] = rcvd + j
    BY DEF IInv, Contents
  <2>4. \A j \in 0 .. Unread' + Pending' - 1 : buf'[Wrap(read_ptr', j)] = rcvd' + j
    BY <2>1, <2>3, Zenon
  <2> QED
    BY <2>2, <2>4 DEF Contents
<1>15. PromisesKept'
  <2>1. cons.told \in Nat /\ cons.told <= Unread
    BY ConsFields DEF IInv, PromisesKept
  <2> QED
    BY <1>1, <1>2, <1>4, <1>9, <2>1 DEF PromisesKept
<1> QED
  BY <1>10, <1>11, <1>12, <1>13, <1>14, <1>15 DEF IInv
-----------------------------------------------------------------------------
(* The steps of the consumer.                                              *)
LEMMA ReadStep ==
  ASSUME IInv, NEW len \in Lengths, ringbuffer_read(len)
  PROVE  IInv'
<1> DEFINE n == Smaller(len, Unread)
<1>1. UNCHANGED <<ring, prod, sent, rcvd, got>> /\ cons.pc = "idle" /\ Unread > 0
  BY DEF ringbuffer_read, Unread
<1>2. cons' = [pc |-> "copy", batch |-> FALSE, rp |-> read_ptr, wp |-> write_ptr,
               todo |-> n, done |-> 0, total |-> 0, told |-> 0, out |-> << >>]
  BY DEF ringbuffer_read, IdleCons, Unread
<1>3. read_ptr \in 0 .. Size - 1 /\ write_ptr \in 0 .. Size - 1
  BY Pointers DEF IInv
<1>4. Unread \in Nat /\ size # 0
  BY <1>1, RoomIsNat DEF Unread
<1>5. n \in 1 .. Unread /\ n \in Nat
  BY <1>1, <1>4, BoundAssumption DEF Smaller, Lengths
<1>6. Wrap(read_ptr, 0) = read_ptr
  BY <1>3, SizeAssumption DEF Wrap
<1> HIDE DEF n
<1>7. cons' \in ConsType
  BY <1>2, <1>3, <1>5 DEF ConsType
<1>8. ConsInv'
  BY <1>1, <1>2, <1>4, <1>5, <1>6 DEF ConsInv, ring, Unread
<1> QED
  BY <1>1, <1>2, <1>4, <1>7, <1>8, ConsumerLocal

(* A batch starts with nothing read.                                       *)
LEMMA BatchReadStep ==
  ASSUME IInv, ringbuffer_batch_read
  PROVE  IInv'
<1>1. UNCHANGED <<ring, prod, sent, rcvd, got>> /\ cons.pc = "idle"
  BY DEF ringbuffer_batch_read
<1>2. cons' = [pc |-> "chunk", batch |-> TRUE, rp |-> read_ptr, wp |-> write_ptr,
               todo |-> 0, done |-> 0, total |-> 0, told |-> 0, out |-> << >>]
  BY DEF ringbuffer_batch_read, IdleCons
<1>3. read_ptr \in 0 .. Size - 1 /\ write_ptr \in 0 .. Size - 1
  BY Pointers DEF IInv
<1>4. Unread \in Nat
  BY RoomIsNat DEF Unread
<1>5. Wrap(read_ptr, 0) = read_ptr
  BY <1>3, SizeAssumption DEF Wrap
<1>6. cons' \in ConsType
  <2>1. 0 \in Nat /\ << >> \in Seq(Int)
    OBVIOUS
  <2> QED
    BY <1>2, <1>3, <2>1, Zenon DEF ConsType
<1>7. ConsInv'
  BY <1>1, <1>2, <1>4, <1>5 DEF ConsInv, ring, Unread
<1>8. size = 0 => cons'.rp = 0 /\ cons'.wp = 0
  BY <1>2 DEF IInv, Dead
<1> QED
  BY <1>1, <1>2, <1>4, <1>6, <1>7, <1>8, ConsumerLocal

(* The data for a chunk is what the earlier chunks left of the data the    *)
(* stale write_ptr showed.                                                 *)
LEMMA ChunkData ==
  ASSUME NEW rp \in 0 .. Size - 1, NEW wp \in 0 .. Size - 1, NEW t \in Nat,
         t <= Readable(Size, rp, wp)
  PROVE  /\ Readable(Size, Wrap(rp, t), wp) = Readable(Size, rp, wp) - t
         /\ Readable(Size, rp, wp) \in Nat
BY SizeAssumption DEF Readable, Wrap

(* A chunk of a batch is covered by what its stale write_ptr shows.        *)
LEMMA BatchReadChunkStep ==
  ASSUME IInv, NEW len \in Lengths, BatchReadChunk(len)
  PROVE  IInv'
<1> DEFINE data == Readable(size, cons.rp, cons.wp)
           n == Smaller(len, data)
<1>1. /\ UNCHANGED <<ring, prod, sent, rcvd, got>> /\ cons.pc = "chunk" /\ data > 0
      /\ cons' = [cons EXCEPT !.pc = "copy", !.todo = n, !.done = 0]
  BY DEF BatchReadChunk
<1>2. /\ cons.told = 0 /\ cons.rp = Wrap(read_ptr, cons.total)
      /\ cons.todo = 0 /\ cons.done = 0
      /\ cons.total + cons.todo <= Readable(size, read_ptr, cons.wp)
      /\ Readable(size, read_ptr, cons.wp) <= Readable(size, read_ptr, write_ptr)
      /\ Len(cons.out) = cons.total + cons.done
      /\ \A i \in 1 .. Len(cons.out) : cons.out[i] = rcvd + i - 1
  BY <1>1 DEF IInv, ConsInv
<1>3. /\ read_ptr \in 0 .. Size - 1 /\ size \in {0, Size}
      /\ cons.wp \in 0 .. Size - 1 /\ cons.total \in Nat /\ cons \in ConsType
  BY Pointers, ConsFields DEF IInv, TypeOK
<1>4. size = Size
  BY <1>1, <1>3 DEF IInv, Dead, Readable
<1>5. /\ data = Readable(size, read_ptr, cons.wp) - cons.total
      /\ Readable(size, read_ptr, cons.wp) \in Nat
  BY <1>2, <1>3, <1>4, ChunkData
<1>6. n \in Nat /\ n > 0 /\ cons.total + n <= Readable(size, read_ptr, cons.wp)
  BY <1>1, <1>3, <1>5, BoundAssumption DEF Smaller, Lengths
<1> HIDE DEF data, n
<1>7. /\ cons' \in ConsType /\ cons'.pc = "copy" /\ cons'.todo = n /\ cons'.done = 0
      /\ cons'.told = cons.told /\ cons'.total = cons.total /\ cons'.out = cons.out
      /\ cons'.rp = cons.rp /\ cons'.wp = cons.wp
  BY <1>1, <1>3, <1>6 DEF ConsType
<1>8. ConsInv'
  BY <1>1, <1>2, <1>6, <1>7 DEF ConsInv, ring
<1>9. cons'.told <= Unread
  BY <1>7 DEF IInv, PromisesKept
<1>10. size # 0
  BY <1>4, SizeAssumption
<1> QED
  BY <1>1, <1>7, <1>8, <1>9, <1>10, ConsumerLocal

(* The end of a batch's loop changes no pointer.                           *)
LEMMA BatchReadEndStep ==
  ASSUME IInv, BatchReadEnd
  PROVE  IInv'
<1>1. /\ UNCHANGED <<ring, prod, sent, rcvd, got>> /\ cons.pc = "chunk"
      /\ cons' = [cons EXCEPT !.pc = "publish"]
  BY DEF BatchReadEnd
<1>2. cons \in ConsType
  BY DEF IInv, TypeOK
<1>3. /\ cons' \in ConsType /\ cons'.pc = "publish"
      /\ cons'.todo = cons.todo /\ cons'.done = cons.done /\ cons'.out = cons.out
      /\ cons'.told = cons.told /\ cons'.total = cons.total
      /\ cons'.rp = cons.rp /\ cons'.wp = cons.wp
  BY <1>1, <1>2 DEF ConsType
<1>4. ConsInv'
  BY <1>1, <1>3 DEF IInv, ConsInv, ring
<1>5. cons'.told <= Unread
  BY <1>3 DEF IInv, PromisesKept
<1>6. size = 0 => cons'.rp = 0 /\ cons'.wp = 0 /\ cons'.total = 0 /\ cons'.told = 0
  BY <1>3 DEF IInv, Dead
<1> QED
  BY <1>1, <1>3, <1>4, <1>5, <1>6, ConsumerLocal

(* ringbuffer_readable promises no more than there is.                     *)
LEMMA ReadableStep ==
  ASSUME IInv, ringbuffer_readable
  PROVE  IInv'
<1>1. /\ UNCHANGED <<ring, prod, sent, rcvd, got>> /\ cons.pc = "idle"
      /\ cons' = [cons EXCEPT !.told = Unread]
  BY DEF ringbuffer_readable, Unread
<1>2. cons \in ConsType
  BY DEF IInv, TypeOK
<1>3. Unread \in Nat /\ (size = 0 => Unread = 0)
  BY RoomIsNat DEF Unread
<1>4. /\ cons' \in ConsType /\ cons'.pc = "idle" /\ cons'.out = cons.out
      /\ cons'.todo = cons.todo /\ cons'.done = cons.done
      /\ cons'.total = cons.total /\ cons'.rp = cons.rp /\ cons'.wp = cons.wp
      /\ cons'.told = Unread
  BY <1>1, <1>2, <1>3 DEF ConsType
<1>5. ConsInv'
  BY <1>1, <1>4 DEF IInv, ConsInv, ring
<1>6. size = 0 => cons'.rp = 0 /\ cons'.wp = 0 /\ cons'.total = 0 /\ cons'.told = 0
  BY <1>3, <1>4 DEF IInv, Dead
<1>7. cons'.told <= Unread
  BY <1>3, <1>4
<1> QED
  BY <1>1, <1>4, <1>5, <1>6, <1>7, ConsumerLocal

(* Byte d of a k-byte chunk, after t bytes of earlier chunks, comes from   *)
(* t + d bytes after the published read pointer.                           *)
LEMMA CopyOutIndex ==
  ASSUME NEW rp \in 0 .. Size - 1, NEW wp \in 0 .. Size - 1,
         NEW t \in Nat, NEW k \in Nat, NEW d \in Nat, d < k,
         t + k <= Readable(Size, rp, wp)
  PROVE  /\ t + k <= Size - 1
         /\ Slot(Size, Wrap(rp, t), k, d) = Wrap(rp, t + d)
         /\ Advance(Size, Wrap(rp, t), k) = Wrap(rp, t + k)
         /\ Wrap(rp, t + k) \in 0 .. Size - 1
<1>1. t + k <= Size - 1
  BY SizeAssumption DEF Readable
<1>2. Wrap(rp, t) \in 0 .. Size - 1 /\ k \in 0 .. Size /\ d \in 0 .. k - 1
  BY <1>1, SizeAssumption DEF Wrap
<1>3. Slot(Size, Wrap(rp, t), k, d) = Wrap(Wrap(rp, t), d)
  BY <1>2, SlotIsWrap
<1>4. Advance(Size, Wrap(rp, t), k) = Wrap(Wrap(rp, t), k)
  BY <1>2, AdvanceIsWrap
<1>5. Wrap(Wrap(rp, t), d) = Wrap(rp, t + d) /\ Wrap(Wrap(rp, t), k) = Wrap(rp, t + k)
  BY <1>1, SizeAssumption DEF Wrap
<1>6. Wrap(rp, t + k) \in 0 .. Size - 1
  BY <1>1, SizeAssumption DEF Wrap
<1> QED
  BY <1>1, <1>3, <1>4, <1>5, <1>6

(* The slot of the byte being copied out, and where it lies in what waits. *)
LEMMA CopyOutFacts ==
  ASSUME IInv, cons.pc = "copy"
  PROVE  /\ size = Size
         /\ cons.done < cons.todo /\ cons.total + cons.todo <= Unread
         /\ Slot(size, cons.rp, cons.todo, cons.done)
              = Wrap(read_ptr, cons.total + cons.done)
         /\ Advance(size, cons.rp, cons.todo) = Wrap(read_ptr, cons.total + cons.todo)
         /\ Wrap(read_ptr, cons.total + cons.todo) \in 0 .. Size - 1
<1> DEFINE t == cons.total  k == cons.todo  d == cons.done  wp == cons.wp
<1>1. read_ptr \in 0 .. Size - 1 /\ size \in {0, Size}
  BY Pointers DEF IInv
<1>2. t \in Nat /\ k \in Nat /\ d \in Nat /\ wp \in 0 .. Size - 1
  BY ConsFields DEF IInv
<1>3. /\ cons.rp = Wrap(read_ptr, t) /\ d < k
      /\ t + k <= Readable(size, read_ptr, wp)
      /\ Readable(size, read_ptr, wp) <= Unread
  BY DEF IInv, ConsInv, Unread
<1>4. size = Size
  <2>1. CASE size = 0
    <3>1. Readable(size, read_ptr, wp) = 0
      BY <2>1 DEF IInv, Dead, Readable
    <3> QED
      BY <3>1, <1>2, <1>3
  <2> QED
    BY <2>1, <1>1
<1>5. Unread \in Nat
  BY RoomIsNat DEF Unread
<1> HIDE DEF t, k, d, wp
<1>6. /\ Slot(Size, Wrap(read_ptr, t), k, d) = Wrap(read_ptr, t + d)
      /\ Advance(Size, Wrap(read_ptr, t), k) = Wrap(read_ptr, t + k)
      /\ Wrap(read_ptr, t + k) \in 0 .. Size - 1
  <2>1. t + k <= Readable(Size, read_ptr, wp) /\ d < k
    BY <1>3, <1>4
  <2> QED
    BY <1>1, <1>2, <2>1, CopyOutIndex, SMTT(20)
<1>7. t + k <= Unread
  <2>1. Readable(size, read_ptr, wp) \in Int
    BY <1>1, <1>2, <1>4, SizeAssumption DEF Readable
  <2> QED
    BY <2>1, <1>2, <1>3, <1>5
<1> QED
  BY <1>3, <1>4, <1>6, <1>7 DEF t, k, d

(* A copy that is not done, of bytes that wait, reads a byte that waits.   *)
LEMMA InsideWaiting ==
  ASSUME NEW total \in Nat, NEW todo \in Nat, NEW done \in Nat,
         NEW unread \in Nat, NEW pending \in Nat,
         done < todo, total + todo <= unread
  PROVE  total + done \in 0 .. unread + pending - 1
OBVIOUS

(* The byte copied out is the next byte of the stream.                     *)
LEMMA CopyOutStep ==
  ASSUME IInv, CopyOut
  PROVE  IInv'
<1> DEFINE byte == buf[Slot(size, cons.rp, cons.todo, cons.done)]
           end == Wrap(read_ptr, cons.total + cons.todo)
<1>1. UNCHANGED <<ring, prod, sent, rcvd, got>> /\ cons.pc = "copy"
  BY DEF CopyOut
<1>2. /\ size = Size
      /\ cons.done < cons.todo /\ cons.total + cons.todo <= Unread
      /\ Slot(size, cons.rp, cons.todo, cons.done) = Wrap(read_ptr, cons.total + cons.done)
      /\ Advance(size, cons.rp, cons.todo) = end
      /\ end \in 0 .. Size - 1
  BY <1>1, CopyOutFacts
<1>3. /\ cons.total \in Nat /\ cons.todo \in Nat /\ cons.done \in Nat
      /\ cons.out \in Seq(Int)
  BY ConsFields DEF IInv
<1>4. byte = rcvd + cons.total + cons.done /\ byte \in Int
  <2>1. Unread \in Nat /\ prod.total \in Nat /\ prod.done \in Nat /\ rcvd \in Nat
    BY RoomIsNat, ProdFields, Pointers DEF Unread, IInv
  <2>2. cons.total + cons.done \in 0 .. Unread + Pending - 1
    <3>1. cons.done < cons.todo /\ cons.total + cons.todo <= Unread
      BY <1>2
    <3>2. Pending \in Nat
      BY <2>1 DEF Pending
    <3> QED
      BY <3>1, <3>2, <1>3, <2>1, InsideWaiting
  <2>3. byte = rcvd + (cons.total + cons.done)
    BY <1>2, <2>2 DEF IInv, Contents
  <2> QED
    BY <2>1, <2>3, <1>3
<1>5. /\ cons.told = 0 /\ cons.rp = Wrap(read_ptr, cons.total)
      /\ cons.total + cons.todo <= Readable(size, read_ptr, cons.wp)
      /\ Readable(size, read_ptr, cons.wp) <= Readable(size, read_ptr, write_ptr)
      /\ Len(cons.out) = cons.total + cons.done
      /\ \A i \in 1 .. Len(cons.out) : cons.out[i] = rcvd + i - 1
  BY <1>1 DEF IInv, ConsInv
<1> HIDE DEF byte, end
<1>6. /\ cons' \in ConsType
      /\ cons'.wp = cons.wp /\ cons'.told = cons.told /\ cons'.out = Append(cons.out, byte)
      /\ \/ /\ cons'.pc = "copy" /\ cons'.todo = cons.todo
            /\ cons'.done = cons.done + 1 /\ cons'.done < cons'.todo
            /\ cons'.total = cons.total /\ cons'.rp = cons.rp
         \/ /\ cons'.pc \in {"chunk", "publish"} /\ cons'.todo = 0 /\ cons'.done = 0
            /\ cons.todo = cons.done + 1 /\ cons'.total = cons.total + cons.todo
            /\ cons'.rp = end
  <2>0. cons \in ConsType /\ Append(cons.out, byte) \in Seq(Int)
    BY <1>3, <1>4 DEF IInv, TypeOK
  <2> DEFINE more == Append(cons.out, byte)
  <2>1. CASE cons.done + 1 < cons.todo
    <3>1. cons' = [cons EXCEPT !.done = cons.done + 1, !.out = more]
      BY <2>1 DEF CopyOut, byte
    <3>2. cons.done + 1 \in Nat
      BY <1>3
    <3> HIDE DEF more
    <3>3. more \in Seq(Int)
      BY <2>0 DEF more
    <3>4. /\ cons' \in ConsType /\ cons'.wp = cons.wp /\ cons'.told = cons.told
          /\ cons'.out = more /\ cons'.pc = "copy" /\ cons'.todo = cons.todo
          /\ cons'.done = cons.done + 1 /\ cons'.total = cons.total /\ cons'.rp = cons.rp
      BY <3>1, <3>2, <3>3, <2>0, <1>1 DEF ConsType
    <3> QED
      BY <3>4, <2>1 DEF more
  <2>2. CASE ~(cons.done + 1 < cons.todo)
    <3>1. cons' = [cons EXCEPT !.pc = IF cons.batch THEN "chunk" ELSE "publish",
                               !.rp = end, !.total = cons.total + cons.todo,
                               !.todo = 0, !.done = 0, !.out = more]
      BY <2>2, <1>2 DEF CopyOut, byte
    <3>2. cons.total + cons.todo \in Nat /\ cons.todo = cons.done + 1
      BY <2>2, <1>2, <1>3
    <3> HIDE DEF more
    <3>3. more \in Seq(Int)
      BY <2>0 DEF more
    <3>4. /\ cons' \in ConsType /\ cons'.wp = cons.wp /\ cons'.told = cons.told
          /\ cons'.out = more /\ cons'.pc \in {"chunk", "publish"}
          /\ cons'.todo = 0 /\ cons'.done = 0
          /\ cons'.total = cons.total + cons.todo /\ cons'.rp = end
      BY <3>1, <3>2, <3>3, <2>0, <1>2 DEF ConsType
    <3> QED
      BY <3>2, <3>4 DEF more
  <2> QED
    BY <2>1, <2>2
<1>7. /\ Len(cons'.out) = cons'.total + cons'.done
      /\ \A i \in 1 .. Len(cons'.out) : cons'.out[i] = rcvd + i - 1
  <2>0. /\ cons'.out = Append(cons.out, byte)
        /\ \/ cons'.total = cons.total /\ cons'.done = cons.done + 1
           \/ /\ cons'.total = cons.total + cons.todo /\ cons'.done = 0
              /\ cons.todo = cons.done + 1
    BY <1>6
  <2>1. cons'.total + cons'.done = cons.total + cons.done + 1
    <3>1. cons.total \in Nat /\ cons.done \in Nat
      BY <1>3
    <3>2. CASE cons'.total = cons.total /\ cons'.done = cons.done + 1
      BY <3>1, <3>2
    <3>3. CASE /\ cons'.total = cons.total + cons.todo /\ cons'.done = 0
               /\ cons.todo = cons.done + 1
      BY <3>1, <3>3
    <3> QED
      BY <2>0, <3>2, <3>3
  <2>2. rcvd \in Nat
    BY Pointers DEF IInv
  <2>3. Len(cons'.out) = Len(cons.out) + 1
    BY <2>0, <1>3, <1>4
  <2>4. ASSUME NEW i \in 1 .. Len(cons'.out)
        PROVE  cons'.out[i] = rcvd + i - 1
    <3>1. CASE i = Len(cons.out) + 1
      <4>1. cons'.out[i] = byte
        BY <3>1, <2>0, <1>3, <1>4
      <4>2. i = cons.total + cons.done + 1
        BY <3>1, <1>5
      <4>3. cons.total \in Nat /\ cons.done \in Nat
        BY <1>3
      <4>4. rcvd + cons.total + cons.done = rcvd + i - 1
        BY <4>2, <4>3, <2>2
      <4> QED
        BY <4>1, <4>4, <1>4
    <3>2. CASE i # Len(cons.out) + 1
      <4>1. i \in 1 .. Len(cons.out)
        BY <3>2, <2>3, <1>3
      <4>2. cons'.out[i] = cons.out[i]
        BY <4>1, <2>0, <1>3, <1>4
      <4> QED
        BY <4>1, <4>2, <1>5
    <3> QED
      BY <3>1, <3>2
  <2> QED
    BY <1>3, <1>5, <2>1, <2>3, <2>4
<1>8. ConsInv'
  <2>1. cons'.total + cons'.todo = cons.total + cons.todo
    BY <1>3, <1>6
  <2> QED
    BY <1>1, <1>5, <1>6, <1>7, <2>1 DEF ConsInv, ring, end
<1>9. cons'.told <= Unread
  BY <1>6 DEF IInv, PromisesKept
<1>10. size # 0
  BY <1>2, SizeAssumption
<1> QED
  BY <1>1, <1>6, <1>8, <1>9, <1>10, ConsumerLocal

(* What waits and what is being written fit the ring.                      *)
LEMMA WaitingFits ==
  ASSUME IInv
  PROVE  Unread + Pending <= Size - 1
<1>1. /\ read_ptr \in 0 .. Size - 1 /\ write_ptr \in 0 .. Size - 1
      /\ size \in {0, Size}
  BY Pointers DEF IInv
<1>2. prod.rp \in 0 .. Size - 1 /\ prod.total \in Nat /\ prod.todo \in Nat /\ prod.done \in Nat
  BY ProdFields DEF IInv
<1>3. Unread \in Nat /\ (size = 0 => Unread = 0)
  BY RoomIsNat DEF Unread
<1>4. CASE prod.pc = "idle"
  <2>1. Pending = 0
    BY <1>4 DEF IInv, ProdInv, Pending
  <2>2. size = Size => Unread <= Size - 1
    BY <1>1, SpaceAndReadable DEF Unread
  <2> QED
    BY <2>1, <2>2, <1>1, <1>3, SizeAssumption
<1>5. CASE prod.pc # "idle"
  <2>1. /\ prod.total + prod.todo <= Space(size, prod.rp, write_ptr)
        /\ Space(size, prod.rp, write_ptr) <= Space(size, read_ptr, write_ptr)
        /\ prod.done <= prod.todo
    BY <1>2, <1>5 DEF IInv, ProdInv
  <2>2. CASE size = 0
    <3>1. Space(size, prod.rp, write_ptr) = 0
      BY <2>2 DEF IInv, Dead, Space
    <3> QED
      BY <3>1, <2>1, <2>2, <1>2, <1>3, SizeAssumption DEF Pending
  <2>3. CASE size = Size
    <3>1. Space(size, read_ptr, write_ptr) = Size - 1 - Unread
      BY <2>3, <1>1, SpaceAndReadable DEF Unread
    <3>2. Space(size, prod.rp, write_ptr) \in Int
      BY <2>3, <1>1, <1>2, SpaceIsNat
    <3> QED
      BY <3>1, <3>2, <2>1, <1>2, <1>3, SizeAssumption DEF Pending
  <2> QED
    BY <2>2, <2>3, <1>1
<1> QED
  BY <1>4, <1>5

(* Publishing the read pointer: what was copied out stops waiting.         *)
LEMMA ReadPublishStep ==
  ASSUME IInv, ReadPublish
  PROVE  IInv'
<1> DEFINE t == cons.total
<1>1. /\ UNCHANGED <<size, buf, write_ptr, prod, sent>>
      /\ cons.pc = "publish" /\ rcvd' = rcvd + t
      /\ read_ptr' = IF t > 0 THEN cons.rp ELSE read_ptr
      /\ got' = IF t > 0 THEN cons.out ELSE got
  BY DEF ReadPublish
<1>2. cons' = [pc |-> "idle", batch |-> FALSE, rp |-> 0, wp |-> 0,
               todo |-> 0, done |-> 0, total |-> 0, told |-> 0, out |-> << >>]
  BY DEF ReadPublish, IdleCons
<1>3. /\ read_ptr \in 0 .. Size - 1 /\ write_ptr \in 0 .. Size - 1
      /\ size \in {0, Size} /\ sent \in Nat /\ rcvd \in Nat
  BY Pointers DEF IInv
<1>4. cons.wp \in 0 .. Size - 1 /\ t \in Nat /\ cons.out \in Seq(Int)
  BY ConsFields DEF IInv
<1>5. /\ cons.todo = 0 /\ cons.rp = Wrap(read_ptr, t)
      /\ t + cons.todo <= Readable(size, read_ptr, cons.wp)
      /\ Readable(size, read_ptr, cons.wp) <= Unread
  BY <1>1 DEF IInv, ConsInv, Unread
<1>6. size = 0 => t = 0
  BY DEF IInv, Dead
<1>7. prod.told \in Nat /\ prod.rp \in 0 .. Size - 1 /\ Pending \in Nat
  BY ProdFields DEF IInv, Pending
<1> HIDE DEF t
<1>8. read_ptr' = Wrap(read_ptr, t)
  BY <1>1, <1>3, <1>4, <1>5, SizeAssumption DEF Wrap
<1>9. Unread \in Nat /\ Space(size, read_ptr, write_ptr) \in Nat
  BY RoomIsNat DEF Unread
<1>10. t \in 0 .. Unread
  <2>1. Readable(size, read_ptr, cons.wp) \in Int
    BY <1>3, <1>4, SizeAssumption DEF Readable
  <2> QED
    BY <2>1, <1>4, <1>5, <1>9
<1>11. /\ read_ptr' \in 0 .. Size - 1 /\ Unread' = Unread - t
       /\ Space(size, read_ptr, write_ptr) <= Space(size, read_ptr', write_ptr)
       /\ Space(size, read_ptr', write_ptr) \in Nat
       /\ size = 0 => read_ptr' = 0
  <2>1. CASE size = 0
    <3>1. read_ptr' = 0 /\ read_ptr = 0 /\ t = 0
      BY <2>1, <1>1, <1>6 DEF IInv, Dead
    <3> QED
      BY <2>1, <3>1, <1>1, <1>3, <1>9, SizeAssumption DEF Unread
  <2>2. CASE size = Size
    <3>1. t \in 0 .. Readable(Size, read_ptr, write_ptr)
      BY <1>10, <2>2 DEF Unread
    <3>2. /\ read_ptr' \in 0 .. Size - 1
          /\ Readable(Size, read_ptr', write_ptr) = Readable(Size, read_ptr, write_ptr) - t
      BY <1>3, <1>8, <3>1, ReadMoves
    <3>3. /\ Space(Size, read_ptr, write_ptr) = Size - 1 - Readable(Size, read_ptr, write_ptr)
          /\ Space(Size, read_ptr', write_ptr) = Size - 1 - Readable(Size, read_ptr', write_ptr)
          /\ Readable(Size, read_ptr, write_ptr) \in Int
      BY <1>3, <3>2, SpaceAndReadable
    <3>4. Space(Size, read_ptr', write_ptr) \in Nat
      BY <1>3, <3>2, SpaceIsNat
    <3>5. Space(Size, read_ptr, write_ptr) <= Space(Size, read_ptr', write_ptr)
      BY <1>4, <3>2, <3>3, SizeAssumption
    <3> QED
      BY <2>2, <3>2, <3>4, <3>5, <1>1, SizeAssumption DEF Unread
  <2> QED
    BY <2>1, <2>2, <1>3
<1>12. TypeOK'
  <2>1. cons' \in ConsType
    BY <1>2, SizeAssumption DEF ConsType
  <2>2. rcvd' \in Nat
    BY <1>1, <1>3, <1>4
  <2>3. got' \in Seq(Int)
    BY <1>1, <1>4 DEF IInv, TypeOK
  <2> QED
    BY <1>1, <1>11, <2>1, <2>2, <2>3 DEF IInv, TypeOK
<1>13. Dead'
  <2>1. size = 0 => rcvd' = rcvd
    BY <1>1, <1>3, <1>6
  <2> QED
    BY <1>1, <1>2, <1>11, <2>1 DEF IInv, Dead
<1>14. ProdInv'
  <2>1. ASSUME prod.pc # "idle"
        PROVE  Space(size, prod.rp, write_ptr) <= Space(size, read_ptr', write_ptr)
    <3>1. Space(size, prod.rp, write_ptr) <= Space(size, read_ptr, write_ptr)
      BY <2>1 DEF IInv, ProdInv
    <3>2. Space(size, prod.rp, write_ptr) \in Int
      BY <1>3, <1>7, SizeAssumption DEF Space
    <3> QED
      BY <3>1, <3>2, <1>9, <1>11
  <2> QED
    BY <1>1, <2>1 DEF IInv, ProdInv
<1>15. ConsInv'
  BY <1>2 DEF ConsInv
<1>16. Contents'
  <2>1. Unread' = sent' - rcvd'
    BY <1>1, <1>3, <1>4, <1>11 DEF IInv, Contents
  <2>2. Pending' = Pending /\ Unread' \in Nat
    BY <1>1, <1>9, <1>10, <1>11 DEF Pending
  <2>3. ASSUME NEW j \in 0 .. Unread' + Pending' - 1
        PROVE  buf'[Wrap(read_ptr', j)] = rcvd' + j
    <3>1. j + t \in 0 .. Unread + Pending - 1
      BY <2>2, <1>4, <1>7, <1>9, <1>11
    <3>2. buf[Wrap(read_ptr, t + j)] = rcvd + (t + j)
      BY <3>1, <1>4 DEF IInv, Contents
    <3>3. Wrap(read_ptr', j) = Wrap(read_ptr, t + j)
      <4>1. Unread + Pending <= Size - 1
        BY WaitingFits
      <4>2. t + j <= Size - 1
        BY <4>1, <3>1, <1>4, <1>7, <1>9, SizeAssumption
      <4> QED
        BY <4>2, <1>3, <1>4, <1>8, SizeAssumption DEF Wrap
    <3>4. rcvd' + j = rcvd + (t + j)
      BY <1>1, <1>3, <1>4
    <3> QED
      BY <3>2, <3>3, <3>4, <1>1
  <2> QED
    BY <2>1, <2>3 DEF Contents
<1>17. PromisesKept'
  <2>1. prod.told <= Space(size, read_ptr, write_ptr)
    BY DEF IInv, PromisesKept
  <2> QED
    BY <1>1, <1>2, <1>7, <1>9, <1>10, <1>11, <2>1 DEF PromisesKept
<1> QED
  BY <1>12, <1>13, <1>14, <1>15, <1>16, <1>17 DEF IInv
-----------------------------------------------------------------------------
(* The owner's steps leave an empty ring and two idle threads.             *)
LEMMA DiscardStep ==
  ASSUME IInv, Discard, size' \in {0, Size}, buf' \in [0 .. Size - 1 -> Int]
  PROVE  IInv'
<1>1. /\ read_ptr' = 0 /\ write_ptr' = 0 /\ prod' = IdleProd /\ cons' = IdleCons
      /\ sent' = sent /\ rcvd' = sent /\ got' = got
  BY DEF Discard
<1>2. TypeOK'
  <2>1. IdleProd \in ProdType
    BY SizeAssumption DEF IdleProd, ProdType
  <2>2. IdleCons \in ConsType
    BY SizeAssumption DEF IdleCons, ConsType
  <2> QED
    BY <1>1, <2>1, <2>2, SizeAssumption DEF IInv, TypeOK
<1>3. Dead'
  BY <1>1 DEF Dead, IdleProd, IdleCons
<1>4. ProdInv'
  BY <1>1 DEF ProdInv, IdleProd
<1>5. ConsInv'
  BY <1>1 DEF ConsInv, IdleCons
<1>6. sent \in Nat
  BY Pointers DEF IInv
<1>7. Unread' = 0 /\ Pending' = 0
  BY <1>1 DEF Unread, Pending, Readable, IdleProd
<1>8. Contents'
  BY <1>1, <1>6, <1>7 DEF Contents
<1>9. PromisesKept'
  <2>1. Space(0, 0, 0) \in Nat /\ Space(Size, 0, 0) \in Nat
    BY SizeAssumption DEF Space
  <2> QED
    BY <1>1, <1>7, <2>1 DEF PromisesKept, IdleProd, IdleCons
<1> QED
  BY <1>2, <1>3, <1>4, <1>5, <1>8, <1>9 DEF IInv

(* ringbuffer_reset, ringbuffer_cleanup and ringbuffer_init.               *)
LEMMA OwnerStep ==
  ASSUME IInv, Owner
  PROVE  IInv'
<1>1. size \in {0, Size} /\ buf \in [0 .. Size - 1 -> Int]
  BY DEF IInv, TypeOK
<1>2. CASE ringbuffer_reset
  BY <1>1, <1>2, DiscardStep DEF ringbuffer_reset
<1>3. CASE ringbuffer_cleanup
  BY <1>3, DiscardStep DEF ringbuffer_cleanup
<1>4. CASE ringbuffer_init
  BY <1>4, DiscardStep DEF ringbuffer_init
<1> QED
  BY <1>2, <1>3, <1>4 DEF Owner
-----------------------------------------------------------------------------
(* IInv is an invariant of the specification.                              *)
LEMMA NextIInv ==
  ASSUME IInv, [Next]_vars
  PROVE  IInv'
<1>1. CASE Producer
  <2>1. ASSUME NEW len \in Lengths, ringbuffer_write(len)
        PROVE  IInv'
    BY <2>1, WriteStep
  <2>2. ASSUME NEW len \in Lengths, BatchWriteChunk(len)
        PROVE  IInv'
    BY <2>2, BatchWriteChunkStep
  <2> QED
    BY <1>1, <2>1, <2>2, BatchWriteStep, BatchWriteEndStep, CopyInStep,
       WritePublishStep, WriteableStep DEF Producer
<1>2. CASE Consumer
  <2>1. ASSUME NEW len \in Lengths, ringbuffer_read(len)
        PROVE  IInv'
    BY <2>1, ReadStep
  <2>2. ASSUME NEW len \in Lengths, BatchReadChunk(len)
        PROVE  IInv'
    BY <2>2, BatchReadChunkStep
  <2> QED
    BY <1>2, <2>1, <2>2, BatchReadStep, BatchReadEndStep, CopyOutStep,
       ReadPublishStep, ReadableStep DEF Consumer
<1>3. CASE Owner
  BY <1>3, OwnerStep
<1>4. CASE UNCHANGED vars
  BY <1>4 DEF vars, IInv, TypeOK, Dead, ProdInv, ConsInv, Contents, PromisesKept,
     Unread, Pending
<1> QED
  BY <1>1, <1>2, <1>3, <1>4 DEF Next

(* The inductive invariant holds in every state of the ring.               *)
THEOREM Invariance == Spec => []IInv
<1>1. Init => IInv
  BY InitIInv
<1>2. IInv /\ [Next]_vars => IInv'
  BY NextIInv
<1> QED
  BY <1>1, <1>2, PTL DEF Spec

(* For every ring size, the pointers and every index of a memcpy in        *)
(* ringbuffer.c stay inside the buffer, and the types hold.                *)
THEOREM TypeCorrect == Spec => []TypeOK
<1>1. IInv => TypeOK
  BY DEF IInv
<1> QED
  BY <1>1, Invariance, PTL

(* What ringbuffer_writeable and ringbuffer_readable return stays true     *)
(* until their caller acts on it, whatever the other thread does.          *)
THEOREM PromisesAreKept == Spec => []PromisesKept
<1>1. IInv => PromisesKept
  BY DEF IInv
<1> QED
  BY <1>1, Invariance, PTL

(* The two threads never have the same byte of the buffer in their hands.  *)
THEOREM RaceFreedom == Spec => []NoByteRace
<1>1. ASSUME IInv, prod.pc = "copy", cons.pc = "copy"
      PROVE  Slot(size, prod.wp, prod.todo, prod.done) #
             Slot(size, cons.rp, cons.todo, cons.done)
  <2> DEFINE i == Unread + Pending
             j == cons.total + cons.done
  <2>1. /\ Slot(size, prod.wp, prod.todo, prod.done) = Wrap(read_ptr, i)
        /\ Unread \in Nat /\ Pending \in Nat /\ i < Size - 1
    BY <1>1, CopyInFacts
  <2>2. /\ Slot(size, cons.rp, cons.todo, cons.done) = Wrap(read_ptr, j)
        /\ cons.done < cons.todo /\ cons.total + cons.todo <= Unread
    BY <1>1, CopyOutFacts
  <2>3. cons.total \in Nat /\ cons.todo \in Nat /\ cons.done \in Nat
    BY <1>1, ConsFields DEF IInv
  <2>4. i \in 0 .. Size - 1 /\ j \in 0 .. Size - 1 /\ i # j
    BY <2>1, <2>2, <2>3, SizeAssumption
  <2>5. read_ptr \in 0 .. Size - 1
    BY <1>1, Pointers DEF IInv
  <2> HIDE DEF i, j
  <2> QED
    BY <2>1, <2>2, <2>4, <2>5, WrapInjective
<1>2. IInv => NoByteRace
  BY <1>1 DEF NoByteRace
<1> QED
  BY <1>2, Invariance, PTL

(* What waits in the ring is exactly the next stretch of the stream.       *)
THEOREM WaitingStaysIntact == Spec => []WaitingIntact
<1>1. ASSUME IInv, NEW j \in 0 .. Unread + Pending - 1
      PROVE  Advance(Size, read_ptr, j) = Wrap(read_ptr, j)
  <2>1. Unread + Pending <= Size - 1 /\ Unread \in Nat
    BY <1>1, WaitingFits, RoomIsNat DEF Unread
  <2>2. read_ptr \in 0 .. Size - 1 /\ Pending \in Nat
    BY <1>1, Pointers, ProdFields DEF IInv, Pending
  <2>3. j \in 0 .. Size
    BY <2>1, <2>2, SizeAssumption
  <2> QED
    BY <2>2, <2>3, AdvanceIsWrap
<1>2. IInv => WaitingIntact
  BY <1>1 DEF IInv, Contents, WaitingIntact
<1> QED
  BY <1>2, Invariance, PTL

(* After ringbuffer_cleanup no operation reaches its memcpy.               *)
THEOREM CleanupIsFinal == Spec => []NoUseAfterCleanup
<1>1. IInv => NoUseAfterCleanup
  BY CopyInFacts, CopyOutFacts, SizeAssumption DEF NoUseAfterCleanup
<1> QED
  BY <1>1, Invariance, PTL
-----------------------------------------------------------------------------
(* The refinement.                                                         *)

(* A non-empty write takes effect as one Push, at its pointer store.       *)
LEMMA WritePublishPushes ==
  ASSUME IInv, WritePublish
  PROVE  [Stream!Next]_(Stream!vars)
<1> DEFINE t == prod.total
<1>1. sent' = sent + t /\ UNCHANGED <<rcvd, got>> /\ prod.pc = "publish"
  BY DEF WritePublish
<1>2. t \in Nat /\ sent \in Nat /\ rcvd \in Nat
  BY ProdFields, Pointers DEF IInv
<1>3. Unread = sent - rcvd /\ Pending = t /\ Unread \in Nat
  BY <1>1, <1>2, RoomIsNat DEF IInv, Contents, ProdInv, Pending, Unread
<1>4. Unread + Pending <= Size - 1
  BY WaitingFits
<1> HIDE DEF t
<1>5. CASE t = 0
  BY <1>1, <1>2, <1>5 DEF Stream!vars
<1>6. CASE t # 0
  <2>1. t \in 1 .. Size - 1 /\ sent + t - rcvd <= Size - 1
    BY <1>2, <1>3, <1>4, <1>6, SizeAssumption
  <2>2. Stream!Push(t)
    BY <1>1, <2>1 DEF Stream!Push
  <2> QED
    BY <2>1, <2>2 DEF Stream!Next
<1> QED
  BY <1>5, <1>6

(* A non-empty read takes effect as one Pop, at its pointer store.         *)
LEMMA ReadPublishPops ==
  ASSUME IInv, ReadPublish
  PROVE  [Stream!Next]_(Stream!vars)
<1> DEFINE t == cons.total
<1>1. /\ rcvd' = rcvd + t /\ sent' = sent /\ cons.pc = "publish"
      /\ got' = IF t > 0 THEN cons.out ELSE got
  BY DEF ReadPublish
<1>2. t \in Nat /\ sent \in Nat /\ rcvd \in Nat /\ cons.out \in Seq(Int)
  BY ConsFields, Pointers DEF IInv
<1>3. /\ cons.todo = 0 /\ cons.done = 0
      /\ t + cons.todo <= Readable(size, read_ptr, cons.wp)
      /\ Readable(size, read_ptr, cons.wp) <= Unread
      /\ Len(cons.out) = t + cons.done
      /\ \A i \in 1 .. Len(cons.out) : cons.out[i] = rcvd + i - 1
  BY <1>1 DEF IInv, ConsInv, Unread
<1>4. Unread = sent - rcvd /\ Unread \in Nat /\ Pending \in Nat
  BY RoomIsNat, ProdFields DEF IInv, Contents, Unread, Pending
<1>5. Unread + Pending <= Size - 1
  BY WaitingFits
<1>6. t <= Unread
  <2>1. /\ read_ptr \in 0 .. Size - 1 /\ size \in {0, Size}
        /\ cons.wp \in 0 .. Size - 1
    BY Pointers, ConsFields DEF IInv
  <2>2. Readable(size, read_ptr, cons.wp) \in Int
    BY <2>1, SizeAssumption DEF Readable
  <2> QED
    BY <2>2, <1>2, <1>3, <1>4
<1> HIDE DEF t
<1>7. CASE t = 0
  BY <1>1, <1>2, <1>7 DEF Stream!vars
<1>8. CASE t # 0
  <2>1. t \in 1 .. Size - 1 /\ t <= sent - rcvd
    BY <1>2, <1>4, <1>5, <1>6, <1>8, SizeAssumption
  <2>2. cons.out = [i \in 1 .. t |-> rcvd + i - 1]
    <3>1. Len(cons.out) = t
      BY <1>2, <1>3
    <3>2. cons.out = [i \in 1 .. Len(cons.out) |-> cons.out[i]]
      BY <1>2
    <3> QED
      BY <3>1, <3>2, <1>3
  <2>3. got' = [i \in 1 .. t |-> rcvd + i - 1]
    BY <1>1, <2>1, <2>2, SizeAssumption
  <2>4. Stream!Pop(t)
    BY <1>1, <2>1, <2>3 DEF Stream!Pop
  <2> QED
    BY <2>1, <2>4 DEF Stream!Next
<1> QED
  BY <1>7, <1>8

(* The ring, with its two pointers, its batches and its two-part copies,   *)
(* is a first-in first-out stream of Size - 1 bytes: every write and every *)
(* read is atomic at its pointer store, nothing is lost, duplicated or     *)
(* reordered.                                                              *)
THEOREM Refinement == Spec => StreamSpec
<1>1. Init => Stream!Init
  BY DEF Init, Stream!Init
<1>2. ASSUME IInv, [Next]_vars
      PROVE  [Stream!Next]_(Stream!vars)
  <2> USE <1>2
  <2>1. CASE Producer
    <3>1. CASE WritePublish
      BY <3>1, WritePublishPushes
    <3>2. CASE ~WritePublish
      <4>1. UNCHANGED <<sent, rcvd, got>>
        BY <2>1, <3>2 DEF Producer, ringbuffer_write, BatchWriteChunk,
           ringbuffer_batch_write, BatchWriteEnd, CopyIn, ringbuffer_writeable
      <4> QED
        BY <4>1 DEF Stream!vars
    <3> QED
      BY <3>1, <3>2
  <2>2. CASE Consumer
    <3>1. CASE ReadPublish
      BY <3>1, ReadPublishPops
    <3>2. CASE ~ReadPublish
      <4>1. UNCHANGED <<sent, rcvd, got>>
        BY <2>2, <3>2 DEF Consumer, ringbuffer_read, BatchReadChunk,
           ringbuffer_batch_read, BatchReadEnd, CopyOut, ringbuffer_readable
      <4> QED
        BY <4>1 DEF Stream!vars
    <3> QED
      BY <3>1, <3>2
  <2>3. CASE Owner
    <3>1. Discard
      BY <2>3 DEF Owner, ringbuffer_reset, ringbuffer_cleanup, ringbuffer_init
    <3>2. Stream!Clear
      BY <3>1 DEF Discard, Stream!Clear
    <3> QED
      BY <3>2 DEF Stream!Next
  <2>4. CASE UNCHANGED vars
    BY <2>4 DEF vars, Stream!vars
  <2> QED
    BY <2>1, <2>2, <2>3, <2>4 DEF Next
<1> QED
  BY <1>1, <1>2, Invariance, PTL DEF Spec, StreamSpec, Stream!Spec
=============================================================================
