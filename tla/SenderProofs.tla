---------------------------- MODULE SenderProofs ----------------------------
(***************************************************************************)
(* Proofs about Sender for every size of tx_ring and of the kernel's       *)
(* buffer, and all payloads: the stream of bytes that leaves is the one    *)
(* the calls made, in their order, but for what ssl_write takes from       *)
(* behind the buffer and what it hands over again after errSSLWouldBlock.  *)
(***************************************************************************)
EXTENDS Sender, SequenceTheorems, TLAPS

Byte == [f : Nat, i : Nat]
FrameRecord == [size : Nat, masked : BOOLEAN]

(* Types, and the room the kernel has.                                     *)
Types ==
  /\ use_ssl \in BOOLEAN /\ state \in {"NEW", "CONNECTING", "CONNECTED"}
  /\ tx \in Seq(Byte) /\ wire \in Seq(Byte) /\ frames \in Seq(FrameRecord)
  /\ Len(tx) <= Capacity /\ read_ptr \in 0 .. Capacity
  /\ gone \in 0 .. Len(wire) /\ repeats \in 0 .. MaxRepeats
  /\ ~use_ssl => Len(wire) - gone <= SendBuffer /\ repeats = 0
  /\ accepted \subseteq 1 .. Len(frames)

(* Of a stream s: no byte comes from behind the buffer; every other byte   *)
(* belongs to a frame that was begun; bytes are in order, once there are   *)
(* copies but for those; the frames of a set stand in it in one piece; and *)
(* none of their bytes is missing.                                         *)
Clean(s) == \A k \in 1 .. Len(s) : s[k] # Stray
Known(s, frs) ==
  \A k \in 1 .. Len(s) : s[k] # Stray =>
    s[k].f \in 1 .. Len(frs) /\ s[k].i \in 1 .. frs[s[k].f].size
Ordered(s, copies) ==
  \A j, k \in 1 .. Len(s) :
    j < k /\ s[j] # Stray /\ s[k] # Stray =>
      Before(s[j], s[k]) \/ (copies > 0 /\ \E i \in 1 .. j : s[i] = s[k])
Stands(s, f, n, from) ==
  /\ \A k \in 1 .. Len(s) : s[k].f = f => k \in from + 1 .. from + n
  /\ \A i \in 1 .. n : s[from + i] = [f |-> f, i |-> i] \/ s[from + i] = Stray
AllStand(s, frs, acc) ==
  \A f \in acc : \E from \in 0 .. Len(s) :
    from + frs[f].size <= Len(s) /\ Stands(s, f, frs[f].size, from)
Complete(s, frs, acc) ==
  \A f \in acc : \A i \in 1 .. frs[f].size :
    \E k \in 1 .. Len(s) : s[k] = [f |-> f, i |-> i]

(* What is kept of the stream s with the part w that has left.             *)
Sound(s, w, copies, frs, acc) ==
  /\ Known(s, frs)
  /\ Ordered(s, copies)
  /\ copies = 0 => AllStand(s, frs, acc)
  /\ Clean(w) => Complete(s, frs, acc)

Inv ==
  /\ Types
  /\ Clean(tx) /\ Ordered(tx, 0)
  /\ ~use_ssl => Clean(wire)
  /\ Sound(Stream, wire, repeats, frames, accepted)

(* t is s with some bytes behind the first n taken from behind the buffer. *)
Shadows(t, s, n) ==
  /\ Len(t) = Len(s)
  /\ \A k \in 1 .. Len(s) : t[k] = s[k] \/ t[k] = Stray
  /\ \A k \in 1 .. n : t[k] = s[k]
-----------------------------------------------------------------------------
(* Facts about single definitions.                                         *)

LEMMA StrayIsByte == Stray \in Byte /\ Stray.f = 0
BY DEF Stray, Byte

LEMMA NewBytes ==
  ASSUME NEW f \in Nat, NEW n \in Nat
  PROVE  /\ Bytes(f, n) \in Seq(Byte) /\ Len(Bytes(f, n)) = n
         /\ \A i \in 1 .. n : Bytes(f, n)[i] = [f |-> f, i |-> i]
<1>1. \A i \in 1 .. n : [f |-> f, i |-> i] \in Byte
  BY DEF Byte
<1>2. Bytes(f, n) \in Seq(Byte)
  BY <1>1 DEF Bytes
<1> QED
  BY <1>2 DEF Bytes

LEMMA RoomIsInt ==
  ASSUME Types
  PROVE  /\ KernelRoom \in Int /\ Size \in Nat \ {0} /\ Len(wire) \in Nat
         /\ ~use_ssl => KernelRoom \in Nat
BY SenderAssumption DEF Types, KernelRoom, Size

LEMMA PointerInRing ==
  ASSUME Types, NEW n \in Nat
  PROVE  (read_ptr + n) % Size \in 0 .. Capacity
<1>1. Size \in Nat \ {0} /\ read_ptr + n \in Nat /\ Size = Capacity + 1 /\ Capacity \in Nat
  BY SenderAssumption DEF Types, Size
<1>2. (read_ptr + n) % Size \in 0 .. Size - 1
  BY <1>1
<1> QED
  BY <1>1, <1>2

(* A stream in two parts, place by place.                                  *)
LEMMA Joined ==
  ASSUME NEW s \in Seq(Byte), NEW t \in Seq(Byte)
  PROVE  /\ s \o t \in Seq(Byte) /\ Len(s \o t) = Len(s) + Len(t)
         /\ Len(s) \in Nat /\ Len(t) \in Nat
         /\ \A k \in 1 .. Len(s) : (s \o t)[k] = s[k]
         /\ \A k \in 1 .. Len(t) : (s \o t)[Len(s) + k] = t[k]
         /\ \A k \in 1 .. Len(s \o t) :
              k \in 1 .. Len(s) \/ \E i \in 1 .. Len(t) : k = Len(s) + i
<1>1. /\ s \o t \in Seq(Byte) /\ Len(s \o t) = Len(s) + Len(t)
      /\ \A k \in 1 .. Len(s) + Len(t) :
           (s \o t)[k] = IF k <= Len(s) THEN s[k] ELSE t[k - Len(s)]
  BY ConcatProperties
<1>2. Len(s) \in Nat /\ Len(t) \in Nat
  BY LenProperties
<1>3. ASSUME NEW k \in 1 .. Len(t) PROVE (s \o t)[Len(s) + k] = t[k]
  <2>1. /\ Len(s) + k \in 1 .. Len(s) + Len(t) /\ ~(Len(s) + k <= Len(s))
        /\ (Len(s) + k) - Len(s) = k
    BY <1>2
  <2> QED
    BY <1>1, <2>1
<1>4. ASSUME NEW k \in 1 .. Len(s) PROVE (s \o t)[k] = s[k]
  BY <1>1, <1>2
<1>5. ASSUME NEW k \in 1 .. Len(s) + Len(t), k \notin 1 .. Len(s)
      PROVE  \E i \in 1 .. Len(t) : k = Len(s) + i
  <2>1. k - Len(s) \in 1 .. Len(t) /\ k = Len(s) + (k - Len(s))
    BY <1>2, <1>5
  <2> QED
    BY <2>1
<1> QED
  BY <1>1, <1>2, <1>3, <1>4, <1>5

(* A write moves the front of the queue q, as m, behind what is on the     *)
(* wire w: the stream stays the same but for bytes from behind the buffer. *)
LEMMA Moving ==
  ASSUME NEW w \in Seq(Byte), NEW q \in Seq(Byte), NEW m \in Seq(Byte),
         NEW rest \in Seq(Byte),
         Len(q) = Len(m) + Len(rest),
         \A i \in 1 .. Len(m) : m[i] = q[i] \/ m[i] = Stray,
         \A i \in 1 .. Len(rest) : rest[i] = q[Len(m) + i]
  PROVE  Shadows((w \o m) \o rest, w \o q, Len(w))
<1>1. SUFFICES ASSUME NEW wm \in Seq(Byte), wm = w \o m,
                      NEW new \in Seq(Byte), new = wm \o rest,
                      NEW old \in Seq(Byte), old = w \o q
               PROVE  Shadows(new, old, Len(w))
  BY Joined
<1>2. Len(w) \in Nat /\ Len(q) \in Nat /\ Len(m) \in Nat /\ Len(rest) \in Nat
  BY LenProperties
<1>3. Len(wm) = Len(w) + Len(m) /\ Len(new) = Len(wm) + Len(rest)
  BY <1>1, Joined
<1>4. Len(old) = Len(w) + Len(q)
  BY <1>1, Joined
<1>5. ASSUME NEW k \in 1 .. Len(w) PROVE new[k] = old[k]
  <2>1. k \in 1 .. Len(wm)
    BY <1>2, <1>3
  <2>2. new[k] = wm[k] /\ wm[k] = w[k] /\ old[k] = w[k]
    BY <1>1, <2>1, Joined
  <2> QED
    BY <2>2
<1>6. ASSUME NEW i \in 1 .. Len(m)
      PROVE  new[Len(w) + i] = old[Len(w) + i] \/ new[Len(w) + i] = Stray
  <2>1. Len(w) + i \in 1 .. Len(wm) /\ i \in 1 .. Len(q)
    BY <1>2, <1>3
  <2>2. new[Len(w) + i] = wm[Len(w) + i]
    BY <1>1, <2>1, Joined
  <2>3. wm[Len(w) + i] = m[i] /\ old[Len(w) + i] = q[i]
    BY <1>1, <2>1, Joined
  <2> QED
    BY <2>2, <2>3
<1>7. ASSUME NEW i \in 1 .. Len(rest)
      PROVE  new[Len(w) + (Len(m) + i)] = old[Len(w) + (Len(m) + i)]
  <2>1. Len(m) + i \in 1 .. Len(q) /\ Len(w) + (Len(m) + i) = Len(wm) + i
    BY <1>2, <1>3
  <2>2. new[Len(wm) + i] = rest[i]
    BY <1>1, Joined
  <2>3. old[Len(w) + (Len(m) + i)] = q[Len(m) + i]
    BY <1>1, <2>1, Joined
  <2> QED
    BY <2>1, <2>2, <2>3
<1>8. ASSUME NEW k \in 1 .. Len(old) PROVE new[k] = old[k] \/ new[k] = Stray
  <2>1. CASE k <= Len(w)
    BY <1>2, <1>4, <1>5, <2>1
  <2>2. CASE k > Len(w) /\ k <= Len(w) + Len(m)
    <3>1. k - Len(w) \in 1 .. Len(m) /\ Len(w) + (k - Len(w)) = k
      BY <1>2, <1>4, <2>2
    <3> QED
      BY <1>6, <3>1
  <2>3. CASE k > Len(w) + Len(m)
    <3> DEFINE i == k - Len(w) - Len(m)
    <3>1. i \in 1 .. Len(rest) /\ Len(w) + (Len(m) + i) = k
      BY <1>2, <1>4, <2>3
    <3> HIDE DEF i
    <3> QED
      BY <1>7, <3>1
  <2> QED
    BY <1>2, <1>4, <2>1, <2>2, <2>3
<1> QED
  BY <1>2, <1>3, <1>4, <1>5, <1>8 DEF Shadows

(* The two outcomes of a write: the front of the queue q moves behind the  *)
(* wire, or a copy p of it does and the queue stays.                       *)
Copies(p, q) ==
  /\ Len(p) <= Len(q)
  /\ \A a \in 1 .. Len(p) : p[a] = Stray \/ \A b \in 1 .. a : p[b] = q[b]
Moves(q, m) ==
  /\ Len(m) <= Len(q)
  /\ \A i \in 1 .. Len(m) : m[i] = q[i] \/ (m[i] = Stray /\ use_ssl)
  /\ wire' = wire \o m
  /\ tx' = SubSeq(q, Len(m) + 1, Len(q))
  /\ read_ptr' \in 0 .. Capacity
  /\ repeats' = repeats
  /\ ~use_ssl => Len(m) <= KernelRoom
  /\ Len(q) <= KernelRoom => Len(m) = Len(q)
Repeats(q, p) ==
  /\ use_ssl /\ Copies(p, q)
  /\ wire' = wire \o p
  /\ tx' = q /\ read_ptr' = read_ptr
  /\ repeats' = repeats + 1 /\ repeats < MaxRepeats
  /\ ~(Len(q) <= KernelRoom)

LEMMA StretchCopies ==
  ASSUME Types, NEW queue \in Seq(Byte), NEW n \in Nat, n <= Len(queue)
  PROVE  /\ Stretch(queue, n) \in Seq(Byte) /\ Len(Stretch(queue, n)) = n
         /\ Copies(Stretch(queue, n), queue)
<1>0. read_ptr \in Nat /\ Size \in Nat /\ Len(queue) \in Nat
  BY RoomIsInt, LenProperties, SenderAssumption DEF Types
<1>1. \A i \in 1 .. n : (IF read_ptr + i <= Size THEN queue[i] ELSE Stray) \in Byte
  BY <1>0, StrayIsByte, ElementOfSeq
<1>2. Stretch(queue, n) \in Seq(Byte) /\ Len(Stretch(queue, n)) = n
  BY <1>1 DEF Stretch
<1>3. ASSUME NEW a \in 1 .. n, Stretch(queue, n)[a] # Stray, NEW b \in 1 .. a
      PROVE  Stretch(queue, n)[b] = queue[b]
  <2>1. read_ptr + a <= Size
    BY <1>3 DEF Stretch
  <2>2. read_ptr + b <= Size /\ b \in 1 .. n
    BY <1>0, <2>1
  <2> QED
    BY <2>2 DEF Stretch
<1> QED
  BY <1>2, <1>3 DEF Copies

LEMMA CopiesByByte ==
  ASSUME NEW p \in Seq(Byte), NEW q, Copies(p, q), NEW a \in 1 .. Len(p)
  PROVE  p[a] = q[a] \/ p[a] = Stray
<1>1. a \in 1 .. a
  BY LenProperties
<1> QED
  BY <1>1 DEF Copies

LEMMA Writing ==
  ASSUME Types, NEW queue \in Seq(Byte), Flush(queue)
  PROVE  \E m \in Seq(Byte) : Moves(queue, m) \/ Repeats(queue, m)
<1>0. /\ KernelRoom \in Int /\ Len(queue) \in Nat /\ repeats \in Nat
      /\ read_ptr \in 0 .. Capacity
      /\ ~use_ssl => KernelRoom \in Nat
  BY RoomIsInt, LenProperties, SenderAssumption DEF Types
<1>1. ASSUME use_ssl, NEW n \in ssl_write_func(Len(queue)),
             wire' = wire \o Stretch(queue, n),
             tx' = SubSeq(queue, n + 1, Len(queue)),
             read_ptr' = (read_ptr + n) % Size, repeats' = repeats
      PROVE  \E m \in Seq(Byte) : Moves(queue, m)
  <2>1. /\ n \in Nat /\ n <= Len(queue)
        /\ Len(queue) <= KernelRoom => n = Len(queue)
    BY <1>0 DEF ssl_write_func
  <2>2. PICK m \in Seq(Byte) : m = Stretch(queue, n) /\ Len(m) = n /\ Copies(m, queue)
    BY <2>1, StretchCopies
  <2>3. \A i \in 1 .. Len(m) : m[i] = queue[i] \/ m[i] = Stray
    BY <2>2, CopiesByByte
  <2>4. read_ptr' \in 0 .. Capacity
    BY <1>1, <2>1, PointerInRing
  <2> QED
    BY <1>1, <2>1, <2>2, <2>3, <2>4 DEF Moves
<1>2. ASSUME use_ssl, NEW n \in 0 .. Len(queue), Len(queue) > KernelRoom,
             n > 0 => repeats < MaxRepeats,
             wire' = wire \o Stretch(queue, n), tx' = queue, read_ptr' = read_ptr,
             repeats' = IF n > 0 THEN repeats + 1 ELSE repeats
      PROVE  \E m \in Seq(Byte) : Moves(queue, m) \/ Repeats(queue, m)
  <2>1. n \in Nat /\ n <= Len(queue) /\ ~(Len(queue) <= KernelRoom)
    BY <1>0, <1>2
  <2>2. PICK m \in Seq(Byte) : m = Stretch(queue, n) /\ Len(m) = n /\ Copies(m, queue)
    BY <2>1, StretchCopies
  <2>3. CASE n > 0
    <3>1. Repeats(queue, m)
      BY <1>2, <2>1, <2>2, <2>3 DEF Repeats
    <3> QED
      BY <3>1
  <2>4. CASE ~(n > 0)
    <3>1. Len(m) = 0 /\ \A i \in 1 .. Len(m) : m[i] = queue[i]
      BY <2>1, <2>2, <2>4
    <3>2. tx' = SubSeq(queue, Len(m) + 1, Len(queue))
      BY <1>0, <1>2, <3>1, SubSeqFull
    <3>3. Moves(queue, m)
      BY <1>0, <1>2, <2>1, <2>2, <2>4, <3>1, <3>2 DEF Moves
    <3> QED
      BY <3>3
  <2> QED
    BY <2>3, <2>4
<1>3. CASE use_ssl
  <2>1. ssl_write(queue)
    BY <1>3 DEF Flush
  <2> QED
    BY <1>1, <1>2, <1>3, <2>1 DEF ssl_write
<1>4. CASE ~use_ssl
  <2> DEFINE n == Least(Len(queue), KernelRoom)
             m == SubSeq(queue, 1, n)
  <2>1. /\ wire' = wire \o m
        /\ tx' = SubSeq(queue, n + 1, Len(queue))
        /\ read_ptr' = (read_ptr + n) % Size
        /\ repeats' = repeats
    BY <1>4 DEF Flush, io_write
  <2>2. /\ n \in Nat /\ n <= KernelRoom /\ n <= Len(queue)
        /\ Len(queue) <= KernelRoom => n = Len(queue)
    BY <1>0, <1>4 DEF Least
  <2> HIDE DEF n
  <2>3. \A i \in 1 .. n : queue[i] \in Byte
    BY <1>0, <2>2, ElementOfSeq
  <2>4. /\ m \in Seq(Byte) /\ Len(m) = IF 1 <= n THEN n - 1 + 1 ELSE 0
        /\ \A i \in 1 .. n - 1 + 1 : m[i] = queue[1 + i - 1]
    BY <1>0, <2>2, <2>3, SubSeqProperties
  <2>5. Len(m) = n /\ \A i \in 1 .. n : m[i] = queue[i]
    BY <1>0, <2>2, <2>4
  <2>6. read_ptr' \in 0 .. Capacity
    BY <2>1, <2>2, PointerInRing
  <2> HIDE DEF m
  <2>7. Moves(queue, m)
    BY <1>4, <2>1, <2>2, <2>5, <2>6 DEF Moves
  <2> QED
    BY <2>4, <2>7
<1> QED
  BY <1>3, <1>4

-----------------------------------------------------------------------------
(* What a write keeps of a stream.                                         *)

(* In a queue that is in order two places are, and so is a part of it.     *)
LEMMA QueueOrder ==
  ASSUME NEW q \in Seq(Byte), Ordered(q, 0),
         NEW a \in 1 .. Len(q), NEW b \in 1 .. Len(q), a < b,
         q[a] # Stray, q[b] # Stray
  PROVE  Before(q[a], q[b])
BY DEF Ordered

LEMMA PartOrdered ==
  ASSUME NEW q \in Seq(Byte), Ordered(q, 0), NEW rest \in Seq(Byte),
         NEW n \in Nat, Len(q) = n + Len(rest),
         \A i \in 1 .. Len(rest) : rest[i] = q[n + i]
  PROVE  Ordered(rest, 0)
<1> SUFFICES ASSUME NEW j \in 1 .. Len(rest), NEW k \in 1 .. Len(rest), j < k,
                    rest[j] # Stray, rest[k] # Stray
             PROVE  Before(rest[j], rest[k])
  BY DEF Ordered
<1>1. Len(rest) \in Nat /\ Len(q) \in Nat
  BY LenProperties
<1>2. PICK a \in 1 .. Len(q), b \in 1 .. Len(q) : a = n + j /\ b = n + k /\ a < b
  BY <1>1
<1>3. rest[j] = q[a] /\ rest[k] = q[b]
  BY <1>2
<1> QED
  BY <1>2, <1>3, QueueOrder

(* The front of the queue moves.  A byte that stands out of its turn is a  *)
(* copy of one on the wire, which no later write changes.                  *)
LEMMA MovingOrdered ==
  ASSUME NEW w \in Seq(Byte), NEW q \in Seq(Byte), Ordered(q, 0),
         NEW t \in Seq(Byte), Shadows(t, w \o q, Len(w)),
         NEW copies \in Nat, Ordered(w \o q, copies)
  PROVE  Ordered(t, copies)
<1>0. PICK s \in Seq(Byte) :
        /\ s = w \o q /\ Len(s) = Len(w) + Len(q) /\ Len(w) \in Nat /\ Len(q) \in Nat
        /\ \A k \in 1 .. Len(q) : s[Len(w) + k] = q[k]
  <2>1. /\ w \o q \in Seq(Byte) /\ Len(w \o q) = Len(w) + Len(q)
        /\ Len(w) \in Nat /\ Len(q) \in Nat
        /\ \A k \in 1 .. Len(q) : (w \o q)[Len(w) + k] = q[k]
    BY Joined
  <2> QED
    BY <2>1
<1> SUFFICES ASSUME NEW j \in 1 .. Len(t), NEW k \in 1 .. Len(t), j < k,
                    t[j] # Stray, t[k] # Stray
             PROVE  Before(t[j], t[k]) \/ (copies > 0 /\ \E i \in 1 .. j : t[i] = t[k])
  BY DEF Ordered
<1>1. /\ j \in 1 .. Len(s) /\ k \in 1 .. Len(s) /\ t[j] = s[j] /\ t[k] = s[k]
      /\ \A i \in 1 .. Len(w) : t[i] = s[i]
  BY <1>0 DEF Shadows
<1>2. Before(s[j], s[k]) \/ (copies > 0 /\ \E i \in 1 .. j : s[i] = s[k])
  BY <1>0, <1>1 DEF Ordered
<1>3. CASE j <= Len(w)
  <2>1. j \in Nat /\ \A i \in 1 .. j : i \in 1 .. Len(w)
    BY <1>0, <1>1, <1>3
  <2>2. \A i \in 1 .. j : t[i] = s[i]
    BY <1>1, <2>1
  <2> QED
    BY <1>1, <1>2, <2>2
<1>4. CASE ~(j <= Len(w))
  <2>1. PICK a \in 1 .. Len(q), b \in 1 .. Len(q) :
          j = Len(w) + a /\ k = Len(w) + b /\ a < b
    <3>1. /\ j - Len(w) \in 1 .. Len(q) /\ k - Len(w) \in 1 .. Len(q)
          /\ j = Len(w) + (j - Len(w)) /\ k = Len(w) + (k - Len(w))
          /\ j - Len(w) < k - Len(w)
      BY <1>0, <1>1, <1>4
    <3> QED
      BY <3>1
  <2>2. t[j] = q[a] /\ t[k] = q[b]
    BY <1>0, <1>1, <2>1
  <2>3. Before(q[a], q[b])
    BY <2>1, <2>2, QueueOrder
  <2> QED
    BY <2>2, <2>3
<1> QED
  BY <1>3, <1>4

LEMMA MovingSound ==
  ASSUME NEW w \in Seq(Byte), NEW q \in Seq(Byte), Ordered(q, 0),
         NEW m \in Seq(Byte), NEW rest \in Seq(Byte), Clean(rest),
         Len(q) = Len(m) + Len(rest),
         \A i \in 1 .. Len(m) : m[i] = q[i] \/ m[i] = Stray,
         \A i \in 1 .. Len(rest) : rest[i] = q[Len(m) + i],
         NEW copies \in Nat, NEW frs \in Seq(FrameRecord), NEW acc \in SUBSET (1 .. Len(frs)),
         Sound(w \o q, w, copies, frs, acc)
  PROVE  Sound((w \o m) \o rest, w \o m, copies, frs, acc)
<1>1. PICK s \in Seq(Byte), t \in Seq(Byte), wm \in Seq(Byte) :
        s = w \o q /\ t = wm \o rest /\ wm = w \o m
  BY Joined
<1>2. Shadows(t, s, Len(w))
  BY <1>1, Moving
<1>3. Known(t, frs)
  <2>1. Known(s, frs)
    BY <1>1 DEF Sound
  <2> QED
    BY <1>2, <2>1 DEF Shadows, Known
<1>4. Ordered(t, copies)
  <2>1. Ordered(w \o q, copies)
    BY DEF Sound
  <2>2. Shadows(t, w \o q, Len(w))
    BY <1>1, <1>2
  <2> QED
    BY <2>1, <2>2, MovingOrdered
<1>5. ASSUME AllStand(s, frs, acc) PROVE AllStand(t, frs, acc)
  <2> SUFFICES ASSUME NEW f \in acc
               PROVE  \E from \in 0 .. Len(t) :
                        from + frs[f].size <= Len(t) /\ Stands(t, f, frs[f].size, from)
    BY DEF AllStand
  <2>0. PICK n \in Nat : n = frs[f].size /\ f # 0
    <3>1. f \in 1 .. Len(frs) /\ frs[f] \in FrameRecord
      BY ElementOfSeq
    <3> QED
      BY <3>1 DEF FrameRecord
  <2>1. PICK from \in 0 .. Len(s) : from + n <= Len(s) /\ Stands(s, f, n, from)
    BY <1>5, <2>0 DEF AllStand
  <2>2. Len(t) = Len(s) /\ \A k \in 1 .. Len(s) : t[k] = s[k] \/ t[k] = Stray
    BY <1>2 DEF Shadows
  <2>3. \A k \in 1 .. Len(t) : t[k].f = f => k \in from + 1 .. from + n
    BY <2>0, <2>1, <2>2, StrayIsByte DEF Stands
  <2>4. ASSUME NEW i \in 1 .. n
        PROVE  t[from + i] = [f |-> f, i |-> i] \/ t[from + i] = Stray
    <3>1. s[from + i] = [f |-> f, i |-> i] \/ s[from + i] = Stray
      BY <2>1 DEF Stands
    <3>2. from + i \in 1 .. Len(s)
      <4>1. Len(s) \in Nat
        BY LenProperties
      <4>2. from + n <= Len(s)
        BY <2>1, Zenon
      <4> QED
        BY <4>1, <4>2
    <3> QED
      <4>1. t[from + i] = s[from + i] \/ t[from + i] = Stray
        BY <2>2, <3>2, Zenon
      <4> QED
        BY <3>1, <4>1, Zenon
  <2> QED
    BY <2>0, <2>1, <2>2, <2>3, <2>4 DEF Stands
<1>6. ASSUME Clean(wm) PROVE Clean(w) /\ t = s
  <2>1. \A k \in 1 .. Len(w) : k \in 1 .. Len(wm) /\ wm[k] = w[k]
    BY <1>1, Joined
  <2>2. Clean(w)
    BY <1>6, <2>1 DEF Clean
  <2>3. \A k \in 1 .. Len(t) : t[k] # Stray
    BY <1>1, <1>6, Joined DEF Clean
  <2> QED
    BY <1>2, <2>2, <2>3, SeqEqual DEF Shadows
<1> QED
  BY <1>1, <1>3, <1>4, <1>5, <1>6 DEF Sound

(* t is the stream w, then p, then q: where its bytes are.                 *)
Parts(t, w, p, q) ==
  /\ t \in Seq(Byte) /\ Len(t) = Len(w) + Len(p) + Len(q)
  /\ \A k \in 1 .. Len(w) : t[k] = w[k]
  /\ \A a \in 1 .. Len(p) : t[Len(w) + a] = p[a]
  /\ \A b \in 1 .. Len(q) : t[Len(w) + Len(p) + b] = q[b]

LEMMA ThreeParts ==
  ASSUME NEW w \in Seq(Byte), NEW p \in Seq(Byte), NEW q \in Seq(Byte)
  PROVE  Parts((w \o p) \o q, w, p, q)
<1>1. PICK wp \in Seq(Byte) : wp = w \o p
  BY Joined
<1>2. /\ Len(wp) = Len(w) + Len(p) /\ Len(w) \in Nat /\ Len(p) \in Nat /\ Len(q) \in Nat
      /\ \A k \in 1 .. Len(w) : wp[k] = w[k]
      /\ \A a \in 1 .. Len(p) : wp[Len(w) + a] = p[a]
  <2>1. /\ Len(w \o p) = Len(w) + Len(p) /\ Len(w) \in Nat /\ Len(p) \in Nat
        /\ \A k \in 1 .. Len(w) : (w \o p)[k] = w[k]
        /\ \A a \in 1 .. Len(p) : (w \o p)[Len(w) + a] = p[a]
    BY Joined, Zenon
  <2>2. Len(q) \in Nat
    BY LenProperties
  <2> QED
    BY <1>1, <2>1, <2>2, Zenon
<1>3. PICK t \in Seq(Byte) : t = wp \o q
  BY Joined
<1>4. /\ Len(t) = Len(wp) + Len(q)
      /\ \A k \in 1 .. Len(wp) : t[k] = wp[k]
      /\ \A b \in 1 .. Len(q) : t[Len(wp) + b] = q[b]
  BY <1>3, Joined
<1>5. ASSUME NEW k \in 1 .. Len(w) PROVE t[k] = w[k]
  <2>1. k \in 1 .. Len(wp)
    BY <1>2
  <2> QED
    BY <1>2, <1>4, <2>1
<1>6. ASSUME NEW a \in 1 .. Len(p) PROVE t[Len(w) + a] = p[a]
  <2>1. Len(w) + a \in 1 .. Len(wp)
    BY <1>2
  <2> QED
    BY <1>2, <1>4, <2>1
<1>7. Parts(t, w, p, q)
  BY <1>2, <1>4, <1>5, <1>6 DEF Parts
<1> QED
  BY <1>1, <1>3, <1>7

LEMMA PartOf ==
  ASSUME NEW w \in Seq(Byte), NEW p \in Seq(Byte), NEW q \in Seq(Byte),
         NEW t, Parts(t, w, p, q), NEW k \in 1 .. Len(t)
  PROVE  \/ k \in 1 .. Len(w) /\ t[k] = w[k]
         \/ \E a \in 1 .. Len(p) : k = Len(w) + a /\ t[k] = p[a]
         \/ \E b \in 1 .. Len(q) : k = Len(w) + Len(p) + b /\ t[k] = q[b]
<1>1. Len(w) \in Nat /\ Len(p) \in Nat /\ Len(q) \in Nat
  BY LenProperties
<1>2. Len(t) = Len(w) + Len(p) + Len(q)
  BY DEF Parts
<1>3. CASE k <= Len(w)
  BY <1>1, <1>2, <1>3 DEF Parts
<1>4. CASE k > Len(w) /\ k <= Len(w) + Len(p)
  <2>1. k - Len(w) \in 1 .. Len(p) /\ k = Len(w) + (k - Len(w))
    BY <1>1, <1>2, <1>4
  <2> QED
    BY <2>1 DEF Parts
<1>5. CASE k > Len(w) + Len(p)
  <2>1. PICK b \in 1 .. Len(q) : k = Len(w) + Len(p) + b
    <3>1. /\ k - (Len(w) + Len(p)) \in 1 .. Len(q)
          /\ k = Len(w) + Len(p) + (k - (Len(w) + Len(p)))
      BY <1>1, <1>2, <1>5
    <3> QED
      BY <3>1
  <2> QED
    BY <2>1 DEF Parts
<1> QED
  BY <1>1, <1>2, <1>3, <1>4, <1>5

(* A byte of the queue stands in order behind the wire.                    *)
LEMMA WireBeforeQueue ==
  ASSUME NEW w \in Seq(Byte), NEW q \in Seq(Byte), NEW copies \in Nat,
         Ordered(w \o q, copies),
         NEW j \in 1 .. Len(w), NEW b \in 1 .. Len(q), w[j] # Stray, q[b] # Stray
  PROVE  Before(w[j], q[b]) \/ \E i \in 1 .. j : w[i] = q[b]
<1>1. /\ w \o q \in Seq(Byte) /\ Len(w \o q) = Len(w) + Len(q)
      /\ Len(w) \in Nat /\ Len(q) \in Nat
      /\ \A k \in 1 .. Len(w) : (w \o q)[k] = w[k]
      /\ \A k \in 1 .. Len(q) : (w \o q)[Len(w) + k] = q[k]
  BY Joined
<1>2. PICK s \in Seq(Byte) : s = w \o q
  BY <1>1
<1>6. PICK k \in Nat : k = Len(w) + b /\ k \in 1 .. Len(s)
  BY <1>1, <1>2
<1>3. j \in 1 .. Len(s) /\ j < k /\ j \in Nat /\ \A i \in 1 .. j : i \in 1 .. Len(w)
  BY <1>1, <1>2, <1>6
<1>4. s[j] = w[j] /\ s[k] = q[b] /\ \A i \in 1 .. j : s[i] = w[i]
  BY <1>1, <1>2, <1>3, <1>6
<1>5. Before(s[j], s[k]) \/ \E i \in 1 .. j : s[i] = s[k]
  BY <1>2, <1>3, <1>4, <1>6 DEF Ordered
<1> QED
  BY <1>4, <1>5

(* A copy of the front of the queue is put behind the wire.  Its bytes are *)
(* in their turn; those of the queue come for the second time.             *)
LEMMA RepeatingOrdered ==
  ASSUME NEW w \in Seq(Byte), NEW q \in Seq(Byte), Ordered(q, 0), Clean(q),
         NEW p \in Seq(Byte), Copies(p, q),
         NEW copies \in Nat, Ordered(w \o q, copies),
         NEW t, Parts(t, w, p, q), NEW more \in Nat \ {0}
  PROVE  Ordered(t, more)
<1>0. Len(w) \in Nat /\ Len(p) \in Nat /\ Len(q) \in Nat /\ Len(p) <= Len(q)
  BY LenProperties DEF Copies
<1> SUFFICES ASSUME NEW j \in 1 .. Len(t), NEW k \in 1 .. Len(t), j < k,
                    t[j] # Stray, t[k] # Stray
             PROVE  Before(t[j], t[k]) \/ \E i \in 1 .. j : t[i] = t[k]
  <2>1. more > 0
    OBVIOUS
  <2> QED
    BY <2>1, Zenon DEF Ordered
<1>6. ASSUME NEW n \in 1 .. Len(t)
      PROVE  \/ n \in 1 .. Len(w) /\ t[n] = w[n]
             \/ \E a \in 1 .. Len(p) : n = Len(w) + a /\ t[n] = p[a]
             \/ \E b \in 1 .. Len(q) : n = Len(w) + Len(p) + b /\ t[n] = q[b]
  BY PartOf
<1>1. CASE k \in 1 .. Len(w) /\ t[k] = w[k]
  <2>1. /\ j \in 1 .. Len(w) /\ t[j] = w[j]
        /\ \A i \in 1 .. j : i \in 1 .. Len(w) /\ t[i] = w[i]
    BY <1>0, <1>1 DEF Parts
  <2>2. PICK s \in Seq(Byte) : s = w \o q /\ \A i \in 1 .. Len(w) : s[i] = w[i]
    BY Joined
  <2>3. j \in 1 .. Len(s) /\ k \in 1 .. Len(s)
    BY <1>0, <1>1, <2>1, <2>2, Joined
  <2>4. Before(s[j], s[k]) \/ \E i \in 1 .. j : s[i] = s[k]
    BY <1>1, <2>1, <2>2, <2>3 DEF Ordered
  <2> QED
    BY <1>1, <2>1, <2>2, <2>4
<1>2. ASSUME j \in 1 .. Len(w), t[j] = w[j], NEW b \in 1 .. Len(q), t[k] = q[b]
      PROVE  Before(t[j], t[k]) \/ \E i \in 1 .. j : t[i] = t[k]
  <2>1. \A i \in 1 .. j : t[i] = w[i]
    BY <1>0, <1>2 DEF Parts
  <2>2. Before(w[j], q[b]) \/ \E i \in 1 .. j : w[i] = q[b]
    BY <1>2, WireBeforeQueue
  <2> QED
    BY <1>2, <2>1, <2>2
<1>3. ASSUME NEW a \in 1 .. Len(q), t[j] = q[a], NEW b \in 1 .. Len(q), t[k] = q[b], a < b
      PROVE  Before(t[j], t[k])
  BY <1>3, QueueOrder
<1>4. ASSUME NEW b \in 1 .. Len(p), k = Len(w) + b, t[k] = p[b]
      PROVE  Before(t[j], t[k]) \/ \E i \in 1 .. j : t[i] = t[k]
  <2>1. b \in 1 .. Len(q) /\ t[k] = q[b]
    BY <1>0, <1>4, CopiesByByte
  <2>2. CASE j \in 1 .. Len(w) /\ t[j] = w[j]
    BY <1>2, <2>1, <2>2
  <2>3. ASSUME NEW a \in 1 .. Len(p), j = Len(w) + a, t[j] = p[a]
        PROVE  Before(t[j], t[k])
    <3>1. a \in 1 .. Len(q) /\ t[j] = q[a] /\ a < b
      BY <1>0, <1>4, <2>3, CopiesByByte
    <3> QED
      BY <1>3, <2>1, <3>1
  <2>4. ~\E a \in 1 .. Len(q) : j = Len(w) + Len(p) + a
    BY <1>0, <1>4
  <2> QED
    BY <1>6, <2>2, <2>3, <2>4, Zenon
<1>5. ASSUME NEW b \in 1 .. Len(q), k = Len(w) + Len(p) + b, t[k] = q[b]
      PROVE  Before(t[j], t[k]) \/ \E i \in 1 .. j : t[i] = t[k]
  <2>1. CASE j \in 1 .. Len(w) /\ t[j] = w[j]
    BY <1>2, <1>5, <2>1
  <2>2. ASSUME NEW a \in 1 .. Len(p), j = Len(w) + a, t[j] = p[a]
        PROVE  Before(t[j], t[k]) \/ \E i \in 1 .. j : t[i] = t[k]
    <3>1. a \in 1 .. Len(q) /\ t[j] = q[a]
      BY <1>0, <2>2, CopiesByByte
    <3>2. CASE a < b
      BY <1>3, <1>5, <3>1, <3>2
    <3>3. CASE ~(a < b)
      <4>1. b \in 1 .. a /\ b \in 1 .. Len(p) /\ Len(w) + b \in 1 .. j
        BY <1>0, <2>2, <3>3
      <4>2. p[b] = q[b]
        BY <2>2, <4>1 DEF Copies
      <4>3. t[Len(w) + b] = p[b]
        BY <4>1 DEF Parts
      <4> QED
        BY <1>5, <4>1, <4>2, <4>3
    <3> QED
      BY <3>2, <3>3
  <2>3. ASSUME NEW a \in 1 .. Len(q), j = Len(w) + Len(p) + a, t[j] = q[a]
        PROVE  Before(t[j], t[k])
    <3>1. a < b
      BY <1>0, <1>5, <2>3
    <3> QED
      BY <1>3, <1>5, <2>3, <3>1
  <2> QED
    BY <1>6, <2>1, <2>2, <2>3, Zenon
<1> QED
  BY <1>1, <1>4, <1>5, <1>6, Zenon

LEMMA RepeatingSound ==
  ASSUME NEW w \in Seq(Byte), NEW q \in Seq(Byte), Ordered(q, 0), Clean(q),
         NEW p \in Seq(Byte), Copies(p, q),
         NEW copies \in Nat, NEW frs, NEW acc, Sound(w \o q, w, copies, frs, acc),
         NEW more \in Nat \ {0}
  PROVE  Sound((w \o p) \o q, w \o p, more, frs, acc)
<1>1. PICK s \in Seq(Byte), t \in Seq(Byte) :
        s = w \o q /\ t = (w \o p) \o q
  BY Joined
<1>2. Parts(t, w, p, q)
  BY <1>1, ThreeParts
<1>3. /\ Len(w) \in Nat /\ Len(p) \in Nat /\ Len(q) \in Nat /\ Len(p) <= Len(q)
      /\ Len(s) = Len(w) + Len(q)
      /\ \A k \in 1 .. Len(w) : k \in 1 .. Len(s) /\ s[k] = w[k]
      /\ \A b \in 1 .. Len(q) : Len(w) + b \in 1 .. Len(s) /\ s[Len(w) + b] = q[b]
      /\ \A k \in 1 .. Len(s) :
           k \in 1 .. Len(w) \/ \E b \in 1 .. Len(q) : k = Len(w) + b
  <2>1. Len(w) \in Nat /\ Len(p) \in Nat /\ Len(q) \in Nat /\ Len(p) <= Len(q)
    BY LenProperties DEF Copies
  <2>2. /\ Len(s) = Len(w) + Len(q)
        /\ \A k \in 1 .. Len(w) : s[k] = w[k]
        /\ \A b \in 1 .. Len(q) : s[Len(w) + b] = q[b]
        /\ \A k \in 1 .. Len(s) :
             k \in 1 .. Len(w) \/ \E b \in 1 .. Len(q) : k = Len(w) + b
    BY <1>1, Joined
  <2> QED
    BY <2>1, <2>2
<1>4. ASSUME NEW k \in 1 .. Len(t), t[k] # Stray
      PROVE  \E i \in 1 .. Len(s) : t[k] = s[i]
  <2>1. CASE k \in 1 .. Len(w) /\ t[k] = w[k]
    BY <1>3, <2>1
  <2>2. ASSUME NEW a \in 1 .. Len(p), t[k] = p[a]
        PROVE  \E i \in 1 .. Len(s) : t[k] = s[i]
    <3>1. a \in 1 .. Len(q) /\ p[a] = q[a]
      BY <1>3, <1>4, <2>2, CopiesByByte
    <3> QED
      BY <1>3, <2>2, <3>1
  <2>3. ASSUME NEW b \in 1 .. Len(q), t[k] = q[b]
        PROVE  \E i \in 1 .. Len(s) : t[k] = s[i]
    BY <1>3, <2>3
  <2>4. \/ k \in 1 .. Len(w) /\ t[k] = w[k]
        \/ \E a \in 1 .. Len(p) : k = Len(w) + a /\ t[k] = p[a]
        \/ \E b \in 1 .. Len(q) : k = Len(w) + Len(p) + b /\ t[k] = q[b]
    BY <1>2, <1>4, PartOf
  <2> QED
    BY <2>1, <2>2, <2>3, <2>4, Zenon
<1>5. Known(t, frs)
  <2>1. Known(s, frs)
    BY <1>1 DEF Sound
  <2> QED
    BY <1>4, <2>1 DEF Known
<1>6. Ordered(t, more)
  <2>1. Ordered(w \o q, copies)
    BY DEF Sound
  <2> QED
    BY <1>2, <2>1, RepeatingOrdered
<1>7. ASSUME Clean(w \o p) PROVE Clean(w)
  <2>1. \A k \in 1 .. Len(w) : k \in 1 .. Len(w \o p) /\ (w \o p)[k] = w[k]
    BY Joined
  <2> QED
    BY <1>7, <2>1 DEF Clean
<1>8. ASSUME NEW k \in 1 .. Len(s) PROVE \E i \in 1 .. Len(t) : t[i] = s[k]
  <2>1. CASE k \in 1 .. Len(w)
    <3>1. k \in 1 .. Len(t) /\ t[k] = w[k]
      BY <1>2, <1>3, <2>1 DEF Parts
    <3> QED
      BY <1>3, <2>1, <3>1
  <2>2. ASSUME NEW b \in 1 .. Len(q), k = Len(w) + b
        PROVE  \E i \in 1 .. Len(t) : t[i] = s[k]
    <3>1. Len(w) + Len(p) + b \in 1 .. Len(t) /\ t[Len(w) + Len(p) + b] = q[b]
      BY <1>2, <1>3 DEF Parts
    <3> QED
      BY <1>3, <2>2, <3>1
  <2> QED
    BY <1>3, <2>1, <2>2
<1>9. ASSUME Complete(s, frs, acc) PROVE Complete(t, frs, acc)
  <2> SUFFICES ASSUME NEW f \in acc, NEW i \in 1 .. frs[f].size
               PROVE  \E k \in 1 .. Len(t) : t[k] = [f |-> f, i |-> i]
    BY DEF Complete
  <2>1. PICK k \in 1 .. Len(s) : s[k] = [f |-> f, i |-> i]
    BY <1>9 DEF Complete
  <2>2. PICK n \in 1 .. Len(t) : t[n] = s[k]
    BY <1>8
  <2> QED
    BY <2>1, <2>2, Zenon
<1>10. Clean(w \o p) => Complete(t, frs, acc)
  <2>1. Clean(w) => Complete(s, frs, acc)
    BY <1>1 DEF Sound
  <2> QED
    BY <1>7, <1>9, <2>1
<1>11. ~(more = 0)
  OBVIOUS
<1>12. Sound(t, w \o p, more, frs, acc)
  BY <1>5, <1>6, <1>10, <1>11 DEF Sound
<1> QED
  BY <1>1, <1>12, Zenon

(* What a write makes of wire and tx.                                      *)
Written(q) ==
  /\ tx' \in Seq(Byte) /\ Clean(tx') /\ Ordered(tx', 0) /\ Len(tx') <= Len(q)
  /\ wire' \in Seq(Byte) /\ Len(wire') >= Len(wire)
  /\ read_ptr' \in 0 .. Capacity /\ repeats' \in 0 .. MaxRepeats
  /\ ~use_ssl => Len(wire') - gone <= SendBuffer /\ repeats' = 0
  /\ ~use_ssl /\ Clean(wire) => Clean(wire')

(* io_write, and ssl_write that returns what was taken.                    *)
LEMMA FlushMoves ==
  ASSUME Types, NEW queue \in Seq(Byte), Clean(queue), Ordered(queue, 0),
         NEW m \in Seq(Byte), Moves(queue, m),
         NEW frs \in Seq(FrameRecord), NEW acc \in SUBSET (1 .. Len(frs))
  PROVE  /\ Written(queue) /\ (Len(queue) <= KernelRoom => tx' = << >>)
         /\ Sound(wire \o queue, wire, repeats, frs, acc)
              => Sound(wire' \o tx', wire', repeats', frs, acc)
<1>1. /\ Len(queue) \in Nat /\ Len(wire) \in Nat /\ Len(m) \in Nat
      /\ Len(m) <= Len(queue) /\ KernelRoom \in Int /\ wire \in Seq(Byte) /\ gone \in Nat
      /\ repeats \in Nat /\ repeats \in 0 .. MaxRepeats
  BY RoomIsInt, LenProperties, SenderAssumption DEF Types, Moves
<1>2. /\ tx' \in Seq(Byte) /\ Len(queue) = Len(m) + Len(tx')
      /\ \A i \in 1 .. Len(tx') : tx'[i] = queue[Len(m) + i]
  <2>1. \A i \in Len(m) + 1 .. Len(queue) : queue[i] \in Byte
    BY <1>1, ElementOfSeq
  <2>2. tx' = SubSeq(queue, Len(m) + 1, Len(queue))
    BY DEF Moves
  <2>3. /\ tx' \in Seq(Byte)
        /\ Len(tx') = IF Len(m) + 1 <= Len(queue)
                        THEN Len(queue) - (Len(m) + 1) + 1 ELSE 0
        /\ \A i \in 1 .. Len(queue) - (Len(m) + 1) + 1 :
             tx'[i] = queue[(Len(m) + 1) + i - 1]
    BY <1>1, <2>1, <2>2, SubSeqProperties
  <2> QED
    BY <1>1, <2>3
<1>3. Clean(tx') /\ Ordered(tx', 0) /\ Len(tx') <= Len(queue)
  <2>0. \A i \in 1 .. Len(tx') : Len(m) + i \in 1 .. Len(queue)
    BY <1>1, <1>2, LenProperties
  <2>1. Clean(tx')
    BY <1>2, <2>0 DEF Clean
  <2>2. Ordered(tx', 0)
    <3>1. PICK rest \in Seq(Byte), n \in Nat : rest = tx' /\ n = Len(m)
      BY <1>1, <1>2
    <3>2. Ordered(rest, 0)
      BY <1>2, <3>1, PartOrdered
    <3> QED
      BY <3>1, <3>2
  <2>3. Len(tx') \in Nat
    BY <1>2, LenProperties
  <2>4. Len(tx') <= Len(queue)
    BY <1>1, <1>2, <2>3
  <2> QED
    BY <2>1, <2>2, <2>4
<1>4. /\ wire' = wire \o m /\ wire' \in Seq(Byte) /\ Len(wire') = Len(wire) + Len(m)
      /\ \A k \in 1 .. Len(wire) : wire'[k] = wire[k]
      /\ \A i \in 1 .. Len(m) : wire'[Len(wire) + i] = m[i]
      /\ \A k \in 1 .. Len(wire') :
           k \in 1 .. Len(wire) \/ \E i \in 1 .. Len(m) : k = Len(wire) + i
  BY <1>1, Joined DEF Moves
<1>5. repeats' = repeats /\ read_ptr' \in 0 .. Capacity
  BY DEF Moves
<1>6. ASSUME ~use_ssl PROVE Len(wire') - gone <= SendBuffer /\ repeats' = 0
  <2>1. Len(m) <= KernelRoom /\ repeats = 0
    BY <1>6 DEF Moves, Types
  <2> QED
    BY <1>1, <1>4, <1>5, <2>1, SenderAssumption DEF KernelRoom
<1>7. ASSUME ~use_ssl, Clean(wire) PROVE Clean(wire')
  <2> SUFFICES ASSUME NEW k \in 1 .. Len(wire') PROVE wire'[k] # Stray
    BY DEF Clean
  <2>1. CASE k \in 1 .. Len(wire)
    BY <1>4, <1>7, <2>1 DEF Clean
  <2>2. ASSUME NEW i \in 1 .. Len(m), k = Len(wire) + i PROVE wire'[k] # Stray
    <3>1. m[i] = queue[i] /\ i \in 1 .. Len(queue)
      BY <1>1, <1>7 DEF Moves
    <3> QED
      BY <1>4, <2>2, <3>1 DEF Clean
  <2> QED
    BY <1>4, <2>1, <2>2
<1>8. ASSUME Len(queue) <= KernelRoom PROVE tx' = << >>
  <2>1. Len(tx') = 0
    BY <1>1, <1>2, <1>8, LenProperties DEF Moves
  <2> QED
    BY <1>2, <2>1, EmptySeq
<1>9. Written(queue)
  BY <1>1, <1>2, <1>3, <1>4, <1>5, <1>6, <1>7 DEF Written
<1>10. ASSUME Sound(wire \o queue, wire, repeats, frs, acc)
       PROVE  Sound(wire' \o tx', wire', repeats', frs, acc)
  <2>1. \A i \in 1 .. Len(m) : m[i] = queue[i] \/ m[i] = Stray
    BY DEF Moves
  <2>2. PICK rest \in Seq(Byte) : rest = tx'
    BY <1>2
  <2>3. Sound((wire \o m) \o rest, wire \o m, repeats, frs, acc)
    BY <1>1, <1>2, <1>3, <1>10, <2>1, <2>2, MovingSound
  <2> QED
    BY <1>4, <1>5, <2>2, <2>3
<1> QED
  BY <1>8, <1>9, <1>10

(* ssl_write that would block and has taken bytes.                         *)
LEMMA FlushRepeats ==
  ASSUME Types, NEW queue \in Seq(Byte), Clean(queue), Ordered(queue, 0),
         NEW p \in Seq(Byte), Repeats(queue, p), NEW frs, NEW acc
  PROVE  /\ Written(queue) /\ (Len(queue) <= KernelRoom => tx' = << >>)
         /\ Sound(wire \o queue, wire, repeats, frs, acc)
              => Sound(wire' \o tx', wire', repeats', frs, acc)
<1>1. /\ Len(queue) \in Nat /\ Len(wire) \in Nat /\ Len(p) \in Nat /\ wire \in Seq(Byte)
      /\ repeats \in Nat /\ MaxRepeats \in Nat /\ read_ptr \in 0 .. Capacity
  BY LenProperties, SenderAssumption DEF Types
<1>2. wire' \in Seq(Byte) /\ Len(wire') = Len(wire) + Len(p)
  BY <1>1, Joined DEF Repeats
<1>3. /\ use_ssl /\ Copies(p, queue) /\ wire' = wire \o p /\ tx' = queue
      /\ read_ptr' = read_ptr /\ ~(Len(queue) <= KernelRoom)
      /\ repeats' = repeats + 1 /\ repeats < MaxRepeats
  BY DEF Repeats
<1>4. repeats' \in 0 .. MaxRepeats /\ repeats' \in Nat \ {0}
  BY <1>1, <1>3
<1>5. Written(queue)
  BY <1>1, <1>2, <1>3, <1>4 DEF Written
<1>6. ASSUME Sound(wire \o queue, wire, repeats, frs, acc)
      PROVE  Sound(wire' \o tx', wire', repeats', frs, acc)
  <2>1. PICK more \in Nat \ {0} : more = repeats'
    BY <1>4
  <2>2. Sound((wire \o p) \o queue, wire \o p, more, frs, acc)
    BY <1>1, <1>3, <1>6, RepeatingSound
  <2> QED
    BY <1>3, <2>1, <2>2
<1> QED
  BY <1>3, <1>5, <1>6

LEMMA Flushing ==
  ASSUME Types, NEW queue \in Seq(Byte), Clean(queue), Ordered(queue, 0), Flush(queue),
         NEW frs \in Seq(FrameRecord), NEW acc \in SUBSET (1 .. Len(frs))
  PROVE  /\ Written(queue) /\ (Len(queue) <= KernelRoom => tx' = << >>)
         /\ Sound(wire \o queue, wire, repeats, frs, acc)
              => Sound(wire' \o tx', wire', repeats', frs, acc)
<1>1. PICK m \in Seq(Byte) : Moves(queue, m) \/ Repeats(queue, m)
  BY Writing
<1>2. CASE Moves(queue, m)
  BY <1>2, FlushMoves
<1>3. CASE Repeats(queue, m)
  BY <1>3, FlushRepeats
<1> QED
  BY <1>1, <1>2, <1>3
-----------------------------------------------------------------------------
(* How a stream grows.                                                     *)

(* t is s with n bytes of frame f behind it; all is frs with rec.          *)
Grows(t, s, f, n) ==
  /\ t \in Seq(Byte) /\ Len(t) = Len(s) + n
  /\ \A k \in 1 .. Len(s) : t[k] = s[k]
  /\ \A i \in 1 .. n : t[Len(s) + i] = [f |-> f, i |-> i]
  /\ \A i \in 1 .. n : t[Len(s) + i].f = f /\ t[Len(s) + i].i = i
  /\ \A k \in 1 .. Len(t) : k \in 1 .. Len(s) \/ \E i \in 1 .. n : k = Len(s) + i
OneMore(all, frs, rec) ==
  /\ all \in Seq(FrameRecord) /\ Len(all) = Len(frs) + 1
  /\ \A g \in 1 .. Len(frs) : all[g] = frs[g]
  /\ all[Len(frs) + 1] = rec

(* Bytes are put behind a stream, a record behind the history.             *)
LEMMA Behind ==
  ASSUME NEW s \in Seq(Byte), NEW f \in Nat, NEW n \in Nat
  PROVE  Grows(s \o Bytes(f, n), s, f, n)
<1>1. PICK new \in Seq(Byte) :
        /\ new = Bytes(f, n) /\ Len(new) = n
        /\ \A i \in 1 .. n : new[i] = [f |-> f, i |-> i]
  BY NewBytes
<1>2. PICK t \in Seq(Byte) :
        /\ t = s \o new /\ Len(t) = Len(s) + Len(new)
        /\ \A k \in 1 .. Len(s) : t[k] = s[k]
        /\ \A k \in 1 .. Len(new) : t[Len(s) + k] = new[k]
        /\ \A k \in 1 .. Len(t) :
             k \in 1 .. Len(s) \/ \E i \in 1 .. Len(new) : k = Len(s) + i
  BY Joined
<1>3. \A i \in 1 .. n : t[Len(s) + i] = [f |-> f, i |-> i]
  BY <1>1, <1>2
<1>4. ASSUME NEW i \in 1 .. n PROVE t[Len(s) + i].f = f /\ t[Len(s) + i].i = i
  <2>1. t[Len(s) + i] = [f |-> f, i |-> i]
    BY <1>3
  <2> QED
    BY <2>1
<1>5. Grows(t, s, f, n)
  BY <1>1, <1>2, <1>3, <1>4 DEF Grows
<1> QED
  BY <1>1, <1>2, <1>5

LEMMA MoreFrames ==
  ASSUME NEW frs \in Seq(FrameRecord), NEW rec \in FrameRecord
  PROVE  OneMore(Append(frs, rec), frs, rec)
BY AppendProperties, LenProperties DEF OneMore

(* Bytes of a new frame behind the others.                                 *)
LEMMA Growing ==
  ASSUME NEW s \in Seq(Byte), NEW frs \in Seq(FrameRecord), NEW rec \in FrameRecord,
         NEW n \in 0 .. rec.size, Known(s, frs), NEW copies \in Nat, Ordered(s, copies),
         NEW f \in Nat, f = Len(frs) + 1,
         NEW t, Grows(t, s, f, n), NEW all, OneMore(all, frs, rec)
  PROVE  Known(t, all) /\ Ordered(t, copies)
<1>2. n \in Nat /\ Len(s) \in Nat /\ rec.size \in Nat /\ Len(frs) \in Nat
  BY LenProperties DEF FrameRecord
<1>3. /\ Len(all) = f /\ all[f] = rec
      /\ \A g \in 1 .. Len(frs) : all[g] = frs[g] /\ g \in 1 .. Len(all)
  BY <1>2 DEF OneMore
<1>4. /\ t \in Seq(Byte) /\ Len(s) \in Nat /\ Len(t) = Len(s) + n
      /\ \A k \in 1 .. Len(s) : t[k] = s[k]
      /\ \A i \in 1 .. n : t[Len(s) + i] = [f |-> f, i |-> i]
      /\ \A i \in 1 .. n : t[Len(s) + i].f = f /\ t[Len(s) + i].i = i
      /\ \A k \in 1 .. Len(t) : k \in 1 .. Len(s) \/ \E i \in 1 .. n : k = Len(s) + i
  BY <1>2 DEF Grows
<1>5. ASSUME NEW k \in 1 .. Len(t), t[k] # Stray
      PROVE  t[k].f \in 1 .. Len(all) /\ t[k].i \in 1 .. all[t[k].f].size
  <2>1. CASE k \in 1 .. Len(s)
    <3>1. t[k] = s[k] /\ s[k].f \in 1 .. Len(frs) /\ s[k].i \in 1 .. frs[s[k].f].size
      BY <1>4, <1>5, <2>1 DEF Known
    <3> QED
      BY <1>3, <3>1
  <2>2. ASSUME NEW i \in 1 .. n, k = Len(s) + i
        PROVE  t[k].f \in 1 .. Len(all) /\ t[k].i \in 1 .. all[t[k].f].size
    <3>2. t[k].f = f /\ t[k].i = i
      BY <1>4, <2>2
    <3>3. f \in 1 .. Len(all) /\ i \in 1 .. rec.size
      BY <1>2, <1>3
    <3> QED
      BY <1>3, <3>2, <3>3
  <2> QED
    BY <1>4, <2>1, <2>2
<1>6. ASSUME NEW j \in 1 .. Len(t), NEW k \in 1 .. Len(t), j < k,
             t[j] # Stray, t[k] # Stray
      PROVE  Before(t[j], t[k]) \/ (copies > 0 /\ \E i \in 1 .. j : t[i] = t[k])
  <2>1. CASE k \in 1 .. Len(s)
    <3>1. j \in 1 .. Len(s) /\ \A i \in 1 .. j : i \in 1 .. Len(s)
      BY <1>2, <1>6, <2>1
    <3>2. t[j] = s[j] /\ t[k] = s[k] /\ \A i \in 1 .. j : t[i] = s[i]
      BY <1>4, <2>1, <3>1
    <3>3. Before(s[j], s[k]) \/ (copies > 0 /\ \E i \in 1 .. j : s[i] = s[k])
      BY <1>6, <2>1, <3>1, <3>2 DEF Ordered
    <3> QED
      BY <3>2, <3>3
  <2>2. ASSUME NEW b \in 1 .. n, k = Len(s) + b PROVE Before(t[j], t[k])
    <3>1. t[k].f = f /\ t[k].i = b
      BY <1>4, <2>2
    <3>2. CASE j \in 1 .. Len(s)
      <4>1. t[j].f \in 1 .. Len(frs)
        BY <1>4, <1>6, <3>2 DEF Known
      <4>2. t[j].f < f
        BY <1>2, <4>1
      <4> QED
        BY <3>1, <4>2 DEF Before
    <3>3. ASSUME NEW a \in 1 .. n, j = Len(s) + a PROVE Before(t[j], t[k])
      <4>1. t[j].f = f /\ t[j].i = a
        BY <1>4, <3>3
      <4>2. a < b
        BY <1>2, <1>6, <2>2, <3>3
      <4> QED
        BY <3>1, <4>1, <4>2 DEF Before
    <3> QED
      BY <1>4, <3>2, <3>3
  <2> QED
    BY <1>4, <2>1, <2>2
<1> QED
  BY <1>4, <1>5, <1>6 DEF Known, Ordered

(* Frames that stand in one piece go on standing so, and so does the new   *)
(* one, if all of its bytes are there.                                     *)
LEMMA GrowingStand ==
  ASSUME NEW s \in Seq(Byte), NEW frs \in Seq(FrameRecord), NEW rec \in FrameRecord,
         NEW n \in 0 .. rec.size, NEW acc \in SUBSET (1 .. Len(frs)),
         Known(s, frs), AllStand(s, frs, acc),
         NEW f \in Nat, f = Len(frs) + 1,
         NEW t, Grows(t, s, f, n), NEW all, OneMore(all, frs, rec)
  PROVE  /\ AllStand(t, all, acc)
         /\ n = rec.size => AllStand(t, all, acc \cup {f})
<1>2. n \in Nat /\ Len(s) \in Nat /\ rec.size \in Nat /\ Len(frs) \in Nat
  BY LenProperties DEF FrameRecord
<1>3. Len(all) = f /\ all[f] = rec /\ \A g \in 1 .. Len(frs) : all[g] = frs[g]
  BY <1>2 DEF OneMore
<1>4. /\ t \in Seq(Byte) /\ Len(s) \in Nat /\ Len(t) = Len(s) + n
      /\ \A k \in 1 .. Len(s) : t[k] = s[k]
      /\ \A i \in 1 .. n : t[Len(s) + i] = [f |-> f, i |-> i]
      /\ \A i \in 1 .. n : t[Len(s) + i].f = f /\ t[Len(s) + i].i = i
      /\ \A k \in 1 .. Len(t) : k \in 1 .. Len(s) \/ \E i \in 1 .. n : k = Len(s) + i
  BY <1>2 DEF Grows
<1>5. ASSUME NEW k \in 1 .. Len(s) PROVE t[k].f # f
  <2>1. CASE s[k] = Stray
    BY <1>2, <1>4, <2>1, StrayIsByte
  <2>2. CASE s[k] # Stray
    <3>1. s[k].f \in 1 .. Len(frs)
      BY <2>2 DEF Known
    <3> QED
      BY <1>2, <1>4, <3>1
  <2> QED
    BY <2>1, <2>2
<1>6. ASSUME NEW g \in acc
      PROVE  \E from \in 0 .. Len(t) :
               from + all[g].size <= Len(t) /\ Stands(t, g, all[g].size, from)
  <2>0. g \in 1 .. Len(frs) /\ frs[g] \in FrameRecord
    BY <1>2, ElementOfSeq
  <2>1. PICK size \in Nat : size = frs[g].size /\ all[g].size = size /\ g # f
    BY <1>2, <1>3, <2>0 DEF FrameRecord
  <2>2. PICK from \in 0 .. Len(s) : from + size <= Len(s) /\ Stands(s, g, size, from)
    BY <2>1 DEF AllStand
  <2>3. from \in 0 .. Len(t) /\ from + size <= Len(t)
    BY <1>2, <1>4, <2>2
  <2>4. ASSUME NEW k \in 1 .. Len(t), t[k].f = g PROVE k \in from + 1 .. from + size
    <3>1. CASE k \in 1 .. Len(s)
      BY <1>4, <2>2, <2>4, <3>1 DEF Stands
    <3>2. ASSUME NEW i \in 1 .. n, k = Len(s) + i PROVE FALSE
      BY <1>4, <2>1, <2>4, <3>2
    <3> QED
      BY <1>4, <3>1, <3>2
  <2>5. ASSUME NEW i \in 1 .. size
        PROVE  t[from + i] = [f |-> g, i |-> i] \/ t[from + i] = Stray
    <3>1. from + i \in 1 .. Len(s)
      BY <1>2, <2>2
    <3>2. t[from + i] = s[from + i]
      BY <1>4, <3>1
    <3> QED
      BY <2>2, <3>2 DEF Stands
  <2>6. Stands(t, g, size, from)
    BY <2>4, <2>5 DEF Stands
  <2> QED
    BY <2>1, <2>3, <2>6
<1>7. ASSUME n = rec.size
      PROVE  \E from \in 0 .. Len(t) :
               from + all[f].size <= Len(t) /\ Stands(t, f, all[f].size, from)
  <2>1. Len(s) \in 0 .. Len(t) /\ Len(s) + n <= Len(t)
    BY <1>2, <1>4
  <2>2. ASSUME NEW k \in 1 .. Len(t), t[k].f = f PROVE k \in Len(s) + 1 .. Len(s) + n
    BY <1>2, <1>4, <1>5, <2>2
  <2>3. Stands(t, f, n, Len(s))
    BY <1>4, <2>2 DEF Stands
  <2> QED
    BY <1>3, <1>7, <2>1, <2>3
<1> QED
  BY <1>6, <1>7 DEF AllStand

(* No byte of a frame gets lost, and the new one has all of its own.       *)
LEMMA GrowingComplete ==
  ASSUME NEW s \in Seq(Byte), NEW frs \in Seq(FrameRecord), NEW rec \in FrameRecord,
         NEW n \in 0 .. rec.size, NEW acc \in SUBSET (1 .. Len(frs)),
         Complete(s, frs, acc), NEW f \in Nat, f = Len(frs) + 1,
         NEW t, Grows(t, s, f, n), NEW all, OneMore(all, frs, rec)
  PROVE  /\ Complete(t, all, acc)
         /\ n = rec.size => Complete(t, all, acc \cup {f})
<1>1. n \in Nat /\ Len(s) \in Nat /\ rec.size \in Nat /\ Len(frs) \in Nat
  BY LenProperties DEF FrameRecord
<1>2. all[f] = rec /\ \A g \in 1 .. Len(frs) : all[g] = frs[g]
  BY <1>1 DEF OneMore
<1>3. /\ \A k \in 1 .. Len(s) : k \in 1 .. Len(t) /\ t[k] = s[k]
      /\ \A i \in 1 .. n : Len(s) + i \in 1 .. Len(t) /\ t[Len(s) + i] = [f |-> f, i |-> i]
  <2>1. /\ Len(t) = Len(s) + n
        /\ \A k \in 1 .. Len(s) : t[k] = s[k]
        /\ \A i \in 1 .. n : t[Len(s) + i] = [f |-> f, i |-> i]
    BY Zenon DEF Grows
  <2>2. /\ \A k \in 1 .. Len(s) : k \in 1 .. Len(t)
        /\ \A i \in 1 .. n : Len(s) + i \in 1 .. Len(t)
    BY <1>1, <2>1
  <2> QED
    BY <2>1, <2>2, Zenon
<1>4. ASSUME NEW g \in acc, NEW i \in 1 .. all[g].size
      PROVE  \E k \in 1 .. Len(t) : t[k] = [f |-> g, i |-> i]
  <2>1. all[g] = frs[g]
    BY <1>2
  <2>2. PICK k \in 1 .. Len(s) : s[k] = [f |-> g, i |-> i]
    BY <2>1 DEF Complete
  <2> QED
    BY <1>3, <2>2
<1>5. ASSUME n = rec.size, NEW i \in 1 .. all[f].size
      PROVE  \E k \in 1 .. Len(t) : t[k] = [f |-> f, i |-> i]
  BY <1>2, <1>3, <1>5
<1> QED
  BY <1>4, <1>5 DEF Complete
-----------------------------------------------------------------------------
(* The invariant holds at first, and every action keeps it.                *)

LEMMA Initially == Init => Inv
<1> SUFFICES ASSUME Init PROVE Inv
  OBVIOUS
<1>1. tx = << >> /\ wire = << >> /\ frames = << >> /\ Stream = << >>
  BY DEF Init, Stream
<1>2. Types
  BY <1>1, SenderAssumption DEF Init, Types
<1>3. accepted = {}
  BY DEF Init
<1> QED
  BY <1>1, <1>2, <1>3 DEF Inv, Sound, Clean, Known, Ordered, AllStand, Complete

(* What Put does, with the bytes it puts named.                            *)
LEMMA Putting ==
  ASSUME Types, NEW header \in Nat, NEW payload \in Nat,
         NEW masked \in BOOLEAN, Put(header, payload, masked)
  PROVE  \E rec \in FrameRecord, n \in Nat :
           /\ rec.size = header + payload /\ n <= rec.size
           /\ frames' = Append(frames, rec)
           /\ Len(tx) + n <= Capacity
           /\ \/ /\ n = rec.size /\ accepted' = accepted \cup {Len(frames) + 1}
                 /\ Flush(tx \o Bytes(Len(frames) + 1, n))
              \/ /\ accepted' = accepted /\ tx' = tx \o Bytes(Len(frames) + 1, n)
                 /\ wire' = wire /\ read_ptr' = read_ptr /\ repeats' = repeats
<1>0. header + payload \in Nat
  OBVIOUS
<1>1. PICK rec \in FrameRecord : rec = [size |-> header + payload, masked |-> masked]
  BY <1>0, Zenon DEF FrameRecord
<1>2. rec.size = header + payload
  BY <1>1
<1>3. Capacity \in Nat /\ Len(tx) \in Nat /\ Len(tx) <= Capacity
  BY SenderAssumption DEF Types
<1>4. PICK h \in Nat : h = Least(header, Capacity - Len(tx)) /\ h <= header
                       /\ Len(tx) + h <= Capacity
  <2>1. LET h == Least(header, Capacity - Len(tx))
        IN  h \in Nat /\ h <= header /\ Len(tx) + h <= Capacity
    BY <1>3 DEF Least
  <2> QED
    BY <2>1
<1>5. PICK p \in Nat :
        /\ p = IF h = header THEN Least(payload, Capacity - Len(tx) - h) ELSE 0
        /\ p <= payload /\ Len(tx) + (h + p) <= Capacity
  <2>1. Len(tx) + h <= Capacity /\ Len(tx) + (h + 0) <= Capacity
    BY <1>3, <1>4
  <2>2. LET p == Least(payload, Capacity - Len(tx) - h)
        IN  p \in Nat /\ p <= payload /\ Len(tx) + (h + p) <= Capacity
    BY <1>3, <2>1 DEF Least
  <2>3. CASE h = header
    BY <2>2, <2>3
  <2>4. CASE h # header
    BY <2>1, <2>4
  <2> QED
    BY <2>3, <2>4
<1>6. /\ frames' = Append(frames, rec)
      /\ IF h + p = header + payload
           THEN /\ accepted' = accepted \cup {Len(frames) + 1}
                /\ Flush(tx \o Bytes(Len(frames) + 1, h + p))
           ELSE /\ accepted' = accepted /\ tx' = tx \o Bytes(Len(frames) + 1, h + p)
                /\ UNCHANGED <<wire, read_ptr, repeats>>
  BY <1>1, <1>4, <1>5 DEF Put
<1>7. h + p \in Nat /\ h + p <= rec.size
  BY <1>2, <1>4, <1>5
<1>8. CASE h + p = header + payload
  BY <1>2, <1>5, <1>6, <1>7, <1>8
<1>9. CASE h + p # header + payload
  BY <1>2, <1>5, <1>6, <1>7, <1>9
<1> QED
  BY <1>8, <1>9

(* New bytes have a frame, so they are clean.                              *)
LEMMA CleanAfter ==
  ASSUME NEW s \in Seq(Byte), NEW t, NEW f \in Nat \ {0}, NEW n \in Nat,
         Grows(t, s, f, n), Clean(s)
  PROVE  Clean(t)
<1> SUFFICES ASSUME NEW k \in 1 .. Len(t) PROVE t[k] # Stray
  BY DEF Clean
<1>1. CASE k \in 1 .. Len(s)
  BY <1>1 DEF Grows, Clean
<1>2. ASSUME NEW i \in 1 .. n, k = Len(s) + i PROVE t[k] # Stray
  <2>1. t[k].f = f
    BY <1>2 DEF Grows
  <2> QED
    BY <2>1, StrayIsByte
<1> QED
  BY <1>1, <1>2 DEF Grows

LEMMA InThreeParts ==
  \A s, t, u \in Seq(Byte) : (s \o t) \o u = s \o (t \o u)
BY ConcatAssociative

(* The stream with the bytes of a frame behind it keeps what Inv says of   *)
(* streams.                                                                *)
LEMMA StreamGrows ==
  ASSUME Inv, NEW rec \in FrameRecord, NEW n \in Nat, n <= rec.size,
         frames' = Append(frames, rec),
         NEW t, Grows(t, Stream, Len(frames) + 1, n),
         \/ accepted' = accepted
         \/ n = rec.size /\ accepted' = accepted \cup {Len(frames) + 1}
  PROVE  Sound(t, wire, repeats, frames', accepted')
<1>1. /\ Stream \in Seq(Byte) /\ frames \in Seq(FrameRecord) /\ n \in 0 .. rec.size
      /\ Len(frames) \in Nat /\ accepted \in SUBSET (1 .. Len(frames))
      /\ repeats \in Nat
  BY Joined, LenProperties, SenderAssumption DEF Inv, Types, Stream, FrameRecord
<1>2. PICK f \in Nat : f = Len(frames) + 1
  BY <1>1
<1>3. OneMore(frames', frames, rec) /\ Grows(t, Stream, f, n) /\ t \in Seq(Byte)
  BY <1>1, <1>2, MoreFrames DEF Grows
<1>0. /\ Known(Stream, frames) /\ Ordered(Stream, repeats)
      /\ repeats = 0 => AllStand(Stream, frames, accepted)
      /\ Clean(wire) => Complete(Stream, frames, accepted)
  BY DEF Inv, Sound
<1>4. Known(t, frames') /\ Ordered(t, repeats)
  BY <1>0, <1>1, <1>2, <1>3, Growing
<1>5. ASSUME repeats = 0 PROVE AllStand(t, frames', accepted')
  <2>1. /\ AllStand(t, frames', accepted)
        /\ n = rec.size => AllStand(t, frames', accepted \cup {f})
    BY <1>0, <1>1, <1>2, <1>3, <1>5, GrowingStand
  <2> QED
    BY <1>2, <2>1
<1>6. ASSUME Clean(wire) PROVE Complete(t, frames', accepted')
  <2>1. /\ Complete(t, frames', accepted)
        /\ n = rec.size => Complete(t, frames', accepted \cup {f})
    BY <1>0, <1>1, <1>2, <1>3, <1>6, GrowingComplete
  <2> QED
    BY <1>2, <2>1
<1> QED
  BY <1>4, <1>5, <1>6 DEF Sound

(* What waits is known and in order, as part of the stream.                *)
LEMMA WaitingKnown ==
  ASSUME Inv
  PROVE  /\ tx \in Seq(Byte) /\ wire \in Seq(Byte) /\ Len(tx) \in Nat /\ Len(wire) \in Nat
         /\ Known(tx, frames)
<1>1. tx \in Seq(Byte) /\ wire \in Seq(Byte)
  BY DEF Inv, Types
<1>2. /\ Len(Stream) = Len(wire) + Len(tx) /\ Len(wire) \in Nat /\ Len(tx) \in Nat
      /\ \A k \in 1 .. Len(tx) : Stream[Len(wire) + k] = tx[k]
  BY <1>1, Joined DEF Stream
<1>3. \A k \in 1 .. Len(tx) : Len(wire) + k \in 1 .. Len(Stream)
  BY <1>2
<1>4. Known(Stream, frames)
  BY DEF Inv, Sound
<1>5. Known(tx, frames)
  BY <1>2, <1>3, <1>4 DEF Known
<1> QED
  BY <1>1, <1>2, <1>5

(* The queue Put makes.                                                    *)
LEMMA QueueGrows ==
  ASSUME Inv, NEW rec \in FrameRecord, NEW n \in Nat, n <= rec.size,
         NEW queue, queue = tx \o Bytes(Len(frames) + 1, n)
  PROVE  /\ queue \in Seq(Byte) /\ Len(queue) = Len(tx) + n
         /\ Clean(queue) /\ Ordered(queue, 0)
         /\ wire \o queue \in Seq(Byte)
         /\ Grows(wire \o queue, Stream, Len(frames) + 1, n)
<1>1. Clean(tx) /\ Ordered(tx, 0) /\ frames \in Seq(FrameRecord)
  BY DEF Inv, Types
<1>2. tx \in Seq(Byte) /\ wire \in Seq(Byte) /\ Known(tx, frames) /\ Len(frames) \in Nat
  BY <1>1, WaitingKnown, LenProperties
<1>3. PICK f \in Nat \ {0} : f = Len(frames) + 1
  BY <1>2
<1>4. Bytes(f, n) \in Seq(Byte) /\ Stream \in Seq(Byte)
  BY <1>2, <1>3, NewBytes, Joined DEF Stream
<1>5. queue \in Seq(Byte) /\ Grows(queue, tx, f, n)
  BY <1>2, <1>3, <1>4, Behind, Joined
<1>6. Len(queue) = Len(tx) + n
  BY <1>5 DEF Grows
<1>7. Clean(queue)
  BY <1>1, <1>2, <1>5, CleanAfter
<1>8. Ordered(queue, 0)
  <2>1. PICK all : OneMore(all, frames, rec)
    BY <1>1, MoreFrames
  <2>2. n \in 0 .. rec.size
    BY DEF FrameRecord
  <2> QED
    BY <1>1, <1>2, <1>3, <1>5, <2>1, <2>2, Growing
<1>9. wire \o queue = Stream \o Bytes(f, n)
  <2>1. PICK w \in Seq(Byte), s \in Seq(Byte), b \in Seq(Byte) :
          w = wire /\ s = tx /\ b = Bytes(f, n)
    BY <1>2, <1>4, Zenon
  <2>2. (w \o s) \o b = w \o (s \o b)
    BY InThreeParts, Zenon
  <2> QED
    BY <1>3, <2>1, <2>2 DEF Stream
<1>10. wire \o queue \in Seq(Byte) /\ Grows(wire \o queue, Stream, f, n)
  BY <1>2, <1>3, <1>4, <1>5, <1>9, Behind, Joined
<1> QED
  BY <1>3, <1>5, <1>6, <1>7, <1>8, <1>10

(* A write keeps the invariant.                                            *)
LEMMA WrittenKeeps ==
  ASSUME Inv, NEW queue \in Seq(Byte), Len(queue) <= Capacity, Written(queue),
         use_ssl' = use_ssl, gone' = gone,
         state' \in {"NEW", "CONNECTING", "CONNECTED"},
         frames' \in Seq(FrameRecord), accepted' \subseteq 1 .. Len(frames'),
         Sound(wire' \o tx', wire', repeats', frames', accepted')
  PROVE  Inv'
<1>1. /\ tx' \in Seq(Byte) /\ Clean(tx') /\ Ordered(tx', 0) /\ Len(tx') <= Len(queue)
      /\ wire' \in Seq(Byte) /\ Len(wire') >= Len(wire)
      /\ read_ptr' \in 0 .. Capacity /\ repeats' \in 0 .. MaxRepeats
      /\ ~use_ssl => Len(wire') - gone <= SendBuffer /\ repeats' = 0
      /\ ~use_ssl /\ Clean(wire) => Clean(wire')
  BY DEF Written
<1>2. gone' \in 0 .. Len(wire') /\ Len(tx') <= Capacity
  <2>1. /\ gone \in 0 .. Len(wire) /\ Len(wire) \in Nat /\ Len(wire') \in Nat
        /\ Len(tx') \in Nat /\ Len(queue) \in Nat /\ Capacity \in Nat
    BY <1>1, LenProperties, SenderAssumption DEF Inv, Types
  <2> QED
    BY <1>1, <2>1
<1>3. use_ssl' \in BOOLEAN
  BY DEF Inv, Types
<1>4. Types'
  BY <1>1, <1>2, <1>3 DEF Types
<1>5. (Clean(tx) /\ Ordered(tx, 0))'
  BY <1>1 DEF Clean, Ordered
<1>6. (~use_ssl => Clean(wire))'
  BY <1>1 DEF Inv, Clean
<1>7. Sound(Stream, wire, repeats, frames, accepted)'
  BY DEF Sound, Clean, Known, Ordered, AllStand, Stands, Complete, Stream
<1> QED
  BY <1>4, <1>5, <1>6, <1>7 DEF Inv

LEMMA PutKeeps ==
  ASSUME Inv, NEW header \in Nat, NEW payload \in Nat, NEW masked \in BOOLEAN,
         Put(header, payload, masked), use_ssl' = use_ssl, gone' = gone,
         state' \in {"NEW", "CONNECTING", "CONNECTED"}
  PROVE  Inv'
<1>1. Types
  BY DEF Inv
<1>2. PICK rec \in FrameRecord, n \in Nat :
        /\ rec.size = header + payload /\ n <= rec.size
        /\ frames' = Append(frames, rec)
        /\ Len(tx) + n <= Capacity
        /\ \/ /\ n = rec.size /\ accepted' = accepted \cup {Len(frames) + 1}
              /\ Flush(tx \o Bytes(Len(frames) + 1, n))
           \/ /\ accepted' = accepted /\ tx' = tx \o Bytes(Len(frames) + 1, n)
              /\ wire' = wire /\ read_ptr' = read_ptr /\ repeats' = repeats
  BY <1>1, Putting
<1>3. PICK queue : queue = tx \o Bytes(Len(frames) + 1, n)
  OBVIOUS
<1>4. /\ queue \in Seq(Byte) /\ Len(queue) <= Capacity
      /\ Clean(queue) /\ Ordered(queue, 0)
      /\ Grows(wire \o queue, Stream, Len(frames) + 1, n)
  BY <1>2, <1>3, QueueGrows
<1>5. Sound(wire \o queue, wire, repeats, frames', accepted')
  BY <1>2, <1>4, StreamGrows
<1>6. /\ frames' \in Seq(FrameRecord) /\ Len(frames') = Len(frames) + 1
      /\ accepted' \subseteq 1 .. Len(frames')
  <2>1. frames' \in Seq(FrameRecord) /\ Len(frames') = Len(frames) + 1
    BY <1>1, <1>2, MoreFrames DEF Types, OneMore
  <2>2. accepted \subseteq 1 .. Len(frames) /\ Len(frames) \in Nat
    BY <1>1, LenProperties DEF Types
  <2>3. accepted' \subseteq accepted \cup {Len(frames) + 1}
    BY <1>2
  <2>4. ASSUME NEW g \in accepted' PROVE g \in 1 .. Len(frames')
    <3>1. g \in 1 .. Len(frames) \/ g = Len(frames) + 1
      BY <2>2, <2>3
    <3> QED
      BY <2>1, <2>2, <3>1
  <2> QED
    BY <2>1, <2>4
<1>7. Written(queue) /\ Sound(wire' \o tx', wire', repeats', frames', accepted')
  <2>1. CASE Flush(queue)
    <3>1. PICK frs \in Seq(FrameRecord) : frs = frames'
      BY <1>6
    <3>2. PICK acc \in SUBSET (1 .. Len(frs)) : acc = accepted'
      BY <1>6, <3>1
    <3>3. Sound(wire \o queue, wire, repeats, frs, acc)
      BY <1>5, <3>1, <3>2
    <3>4. Written(queue) /\ Sound(wire' \o tx', wire', repeats', frs, acc)
      BY <1>1, <1>4, <2>1, <3>3, Flushing
    <3> QED
      BY <3>1, <3>2, <3>4
  <2>2. CASE tx' = queue /\ wire' = wire /\ read_ptr' = read_ptr /\ repeats' = repeats
    <3>1. Written(queue)
      BY <1>1, <1>4, <2>2, LenProperties, SenderAssumption DEF Written, Types
    <3> QED
      BY <1>5, <2>2, <3>1
  <2> QED
    BY <1>2, <1>3, <2>1, <2>2
<1> QED
  BY <1>1, <1>4, <1>6, <1>7, WrittenKeeps

LEMMA SendPuts ==
  ASSUME send_handshake \/ Send
  PROVE  \E header \in Nat, payload \in Nat, masked \in BOOLEAN :
           Put(header, payload, masked)
<1>1. CASE send_handshake
  <2>1. PICK n \in Requests : Put(n, 0, TRUE)
    BY <1>1 DEF send_handshake
  <2>2. n \in Nat /\ 0 \in Nat /\ TRUE \in BOOLEAN
    BY SenderAssumption
  <2> QED
    BY <2>1, <2>2
<1>2. CASE \E payload \in Payloads : websocket_send(payload)
  BY <1>2, SenderAssumption DEF websocket_send
<1>3. CASE \E payload \in Payloads : websocket_send_pong(payload)
  BY <1>3, SenderAssumption DEF websocket_send_pong
<1>4. CASE check_heartbeat
  BY <1>4 DEF check_heartbeat
<1> QED
  BY <1>1, <1>2, <1>3, <1>4 DEF Send

LEMMA SendKeeps ==
  ASSUME Inv, send_handshake \/ Send
  PROVE  Inv'
<1>1. /\ use_ssl' = use_ssl /\ gone' = gone
      /\ state' \in {"NEW", "CONNECTING", "CONNECTED"}
  BY DEF send_handshake, Send
<1> QED
  BY <1>1, SendPuts, PutKeeps

LEMMA TlsHandshakeEventKeeps ==
  ASSUME Inv, TlsHandshakeEvent
  PROVE  Inv'
<1>1. /\ Types /\ Clean(tx) /\ Ordered(tx, 0) /\ tx \in Seq(Byte) /\ Len(tx) <= Capacity
      /\ frames \in Seq(FrameRecord) /\ accepted \in SUBSET (1 .. Len(frames))
      /\ state \in {"NEW", "CONNECTING", "CONNECTED"}
  BY DEF Inv, Types
<1>2. Flush(tx) /\ UNCHANGED <<use_ssl, state, gone, frames, accepted>>
  BY DEF TlsHandshakeEvent, Flush
<1>3. Sound(wire \o tx, wire, repeats, frames, accepted)
  BY DEF Inv, Stream
<1>4. Written(tx) /\ Sound(wire' \o tx', wire', repeats', frames, accepted)
  BY <1>1, <1>2, <1>3, Flushing
<1> QED
  BY <1>1, <1>2, <1>4, WrittenKeeps

(* HandshakeDone, Network and stuttering leave the stream alone.           *)
LEMMA OthersKeep ==
  ASSUME Inv, HandshakeDone \/ Network \/ UNCHANGED vars
  PROVE  Inv'
<1>1. UNCHANGED <<use_ssl, tx, read_ptr, wire, frames, accepted, repeats>>
  BY DEF HandshakeDone, Network, vars
<1>2. Stream' = Stream
  BY <1>1 DEF Stream
<1>3. state' \in {"NEW", "CONNECTING", "CONNECTED"}
  BY DEF HandshakeDone, Network, vars, Inv, Types
<1>4. gone' \in 0 .. Len(wire) /\ (~use_ssl => Len(wire) - gone' <= SendBuffer)
  <2>1. /\ gone \in 0 .. Len(wire) /\ Len(wire) \in Nat
        /\ ~use_ssl => Len(wire) - gone <= SendBuffer
    BY LenProperties DEF Inv, Types
  <2>2. gone' = gone \/ gone' \in gone + 1 .. Len(wire)
    BY DEF HandshakeDone, Network, vars
  <2> QED
    BY <2>1, <2>2, SenderAssumption
<1>5. Types'
  BY <1>1, <1>3, <1>4 DEF Inv, Types
<1>6. (Clean(tx) /\ Ordered(tx, 0) /\ (~use_ssl => Clean(wire)))'
  BY <1>1 DEF Inv, Clean, Ordered
<1>7. Sound(Stream, wire, repeats, frames, accepted)'
  <2>1. Sound(Stream, wire, repeats, frames, accepted)
    BY DEF Inv
  <2>2. /\ Known(Stream, frames)' /\ Ordered(Stream, repeats)'
        /\ (repeats = 0 => AllStand(Stream, frames, accepted))'
    <3>1. /\ Known(Stream, frames) /\ Ordered(Stream, repeats)
          /\ repeats = 0 => AllStand(Stream, frames, accepted)
      BY <2>1 DEF Sound
    <3> QED
      BY <1>1, <1>2, <3>1, Zenon
  <2>3. (Clean(wire) => Complete(Stream, frames, accepted))'
    <3>1. Clean(wire) => Complete(Stream, frames, accepted)
      BY <2>1 DEF Sound
    <3> QED
      BY <1>1, <1>2, <3>1, Zenon
  <2> QED
    BY <2>2, <2>3 DEF Sound
<1> QED
  BY <1>5, <1>6, <1>7 DEF Inv

(* The inductive invariant.                                                *)
THEOREM StreamInvariant == Spec => []Inv
<1>1. Inv /\ [Next]_vars => Inv'
  <2> SUFFICES ASSUME Inv, [Next]_vars PROVE Inv'
    OBVIOUS
  <2>1. CASE send_handshake \/ Send
    BY <2>1, SendKeeps
  <2>2. CASE TlsHandshakeEvent
    BY <2>2, TlsHandshakeEventKeeps
  <2>3. CASE HandshakeDone \/ Network \/ UNCHANGED vars
    BY <2>3, OthersKeep
  <2> QED
    BY <2>1, <2>2, <2>3 DEF Next
<1> QED
  BY Initially, <1>1, PTL DEF Spec
-----------------------------------------------------------------------------
(* What the invariant gives.                                               *)

LEMMA StreamPlaces ==
  ASSUME Inv
  PROVE  /\ Stream \in Seq(Byte) /\ DOMAIN Stream = 1 .. Len(Stream)
         /\ Len(Stream) \in Nat /\ DOMAIN frames = 1 .. Len(frames)
         /\ DOMAIN wire = 1 .. Len(wire)
BY Joined, LenProperties DEF Inv, Types, Stream

(* The types, that tx_ring is never overfull, that the kernel's buffer is  *)
(* never overfull, that no plain write leaves bytes where they are, and    *)
(* that every byte which leaves, or waits to, belongs to a frame some call *)
(* began (or comes from behind the buffer).                                *)
THEOREM SenderTypes == Spec => []TypeOK
<1>1. Inv => TypeOK
  <2> SUFFICES ASSUME Inv PROVE TypeOK
    OBVIOUS
  <2>1. /\ use_ssl \in BOOLEAN /\ state \in {"NEW", "CONNECTING", "CONNECTED"}
        /\ Len(tx) <= Capacity /\ read_ptr \in 0 .. Capacity
        /\ gone <= Len(wire) /\ repeats \in 0 .. MaxRepeats
        /\ ~use_ssl => Len(wire) - gone <= SendBuffer /\ repeats = 0
    BY LenProperties DEF Inv, Types
  <2>2. accepted \subseteq DOMAIN frames
    BY StreamPlaces DEF Inv, Types
  <2>3. \A k \in DOMAIN Stream : Stream[k] # Stray =>
          Stream[k].f \in DOMAIN frames /\ Stream[k].i \in 1 .. frames[Stream[k].f].size
    BY StreamPlaces DEF Inv, Sound, Known
  <2> QED
    BY <2>1, <2>2, <2>3 DEF TypeOK
<1> QED
  BY StreamInvariant, <1>1, PTL

(* Bytes leave once and in the order of the calls that put them into       *)
(* tx_ring, whatever the kernel takes at a time and whichever calls fail;  *)
(* what an errSSLWouldBlock makes ssl_write hand over again has left in    *)
(* that order before.                                                      *)
THEOREM SentInCallOrder == Spec => []InCallOrder
<1>1. Inv => InCallOrder
  <2> SUFFICES ASSUME Inv, NEW j \in DOMAIN Stream, NEW k \in DOMAIN Stream,
                      j < k, Stray \notin {Stream[j], Stream[k]}
               PROVE  \/ Before(Stream[j], Stream[k])
                      \/ repeats > 0 /\ \E i \in 1 .. j : Stream[i] = Stream[k]
    BY DEF InCallOrder
  <2> QED
    BY StreamPlaces DEF Inv, Sound, Ordered
<1> QED
  BY StreamInvariant, <1>1, PTL

(* A frame whose call returned 0 leaves in one piece, byte after byte, but *)
(* for what ssl_write takes from behind the buffer; after a TLS write that *)
(* would block none of its bytes is missing.                               *)
THEOREM AcceptedFramesIntact == Spec => []AcceptedIntact
<1>1. ASSUME Inv, NEW f \in accepted
      PROVE  frames[f].size \in Nat
  <2>1. f \in 1 .. Len(frames) /\ frames[f] \in FrameRecord
    BY <1>1, ElementOfSeq DEF Inv, Types
  <2> QED
    BY <2>1 DEF FrameRecord
<1>2. ASSUME Inv, NEW f \in accepted, repeats = 0
      PROVE  \E from \in 0 .. Len(Stream) - frames[f].size :
               /\ Positions(f) \subseteq from + 1 .. from + frames[f].size
               /\ \A i \in 1 .. frames[f].size :
                    \/ Stream[from + i] = [f |-> f, i |-> i]
                    \/ Stream[from + i] = Stray /\ use_ssl
  <2>1. PICK n \in Nat : n = frames[f].size
    BY <1>1, <1>2
  <2>2. PICK from \in 0 .. Len(Stream) : from + n <= Len(Stream) /\ Stands(Stream, f, n, from)
    BY <1>2, <2>1 DEF Inv, Sound, AllStand
  <2>3. from \in 0 .. Len(Stream) - n /\ \A i \in 1 .. n : from + i \in 1 .. Len(Stream)
    BY <1>2, <2>2, StreamPlaces
  <2>4. Positions(f) \subseteq from + 1 .. from + n
    BY <1>2, <2>2, StreamPlaces DEF Positions, Stands
  <2>5. ~use_ssl => Clean(Stream)
    <3>1. Clean(tx) /\ tx \in Seq(Byte) /\ wire \in Seq(Byte) /\ (~use_ssl => Clean(wire))
      BY <1>2 DEF Inv, Types
    <3> QED
      BY <3>1, Joined DEF Clean, Stream
  <2>6. ASSUME NEW i \in 1 .. n
        PROVE  \/ Stream[from + i] = [f |-> f, i |-> i]
               \/ Stream[from + i] = Stray /\ use_ssl
    BY <2>2, <2>3, <2>5 DEF Stands, Clean
  <2> QED
    BY <2>1, <2>3, <2>4, <2>6
<1>3. ASSUME Inv, NEW f \in accepted, StaysInRing, NEW i \in 1 .. frames[f].size
      PROVE  \E k \in DOMAIN Stream : Stream[k] = [f |-> f, i |-> i]
  <2>1. Clean(wire)
    BY <1>3, StreamPlaces DEF StaysInRing, Clean
  <2> QED
    BY <1>3, <2>1, StreamPlaces DEF Inv, Sound, Complete
<1>4. Inv => AcceptedIntact
  BY <1>2, <1>3 DEF AcceptedIntact
<1> QED
  BY StreamInvariant, <1>4, PTL

(* A call that returns 0 empties tx_ring once the kernel has room for what *)
(* waits and the new frame.                                                *)
THEOREM SendFlushesBacklog == Spec => NextSendFlushes
<1>1. ASSUME Inv, [Next]_vars, accepted' # accepted,
             Len(tx) + frames'[Len(frames')].size <= KernelRoom
      PROVE  tx' = << >>
  <2>1. \E header \in Nat, payload \in Nat, masked \in BOOLEAN :
          Put(header, payload, masked)
    <3>1. send_handshake \/ Send
      BY <1>1 DEF Next, TlsHandshakeEvent, HandshakeDone, Network, vars
    <3> QED
      BY <3>1, SendPuts
  <2>2. /\ Types /\ frames \in Seq(FrameRecord)
        /\ {} \in SUBSET (1 .. Len(frames))
    BY <1>1 DEF Inv, Types
  <2>3. PICK rec \in FrameRecord, n \in Nat :
          /\ frames' = Append(frames, rec) /\ n = rec.size
          /\ Flush(tx \o Bytes(Len(frames) + 1, n))
    BY <1>1, <2>1, <2>2, Putting
  <2>4. frames'[Len(frames')] = rec
    BY <2>2, <2>3, MoreFrames DEF OneMore
  <2>5. PICK queue : queue = tx \o Bytes(Len(frames) + 1, n)
    OBVIOUS
  <2>6. /\ queue \in Seq(Byte) /\ Len(queue) = Len(tx) + n
        /\ Clean(queue) /\ Ordered(queue, 0)
    <3>1. n <= rec.size
      BY <2>3
    <3> QED
      BY <1>1, <2>5, <3>1, QueueGrows
  <2>7. Flush(queue) /\ Len(queue) <= KernelRoom
    BY <1>1, <2>3, <2>4, <2>5, <2>6
  <2> QED
    BY <2>2, <2>6, <2>7, Flushing
<1>2. Inv /\ [Next]_vars =>
        [accepted' # accepted /\ Len(tx) + frames'[Len(frames')].size <= KernelRoom
           => tx' = << >>]_vars
  BY <1>1
<1> QED
  BY StreamInvariant, <1>2, PTL DEF Spec, NextSendFlushes
=============================================================================
