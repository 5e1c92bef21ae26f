-------------------------- MODULE ConnectionProofs --------------------------
(***************************************************************************)
(* Proofs about Connection for any number of objects and descriptors: what *)
(* an object holds and what it leaves behind, and that without TLS no      *)
(* object can take another's descriptors.                                  *)
(***************************************************************************)
EXTENDS Connection, Sequences, FiniteSetTheorems, WellFoundedInduction, TLAPS

(* Types: who may stand in the kernel's table, and what an object is.      *)
Owners == {Nobody} \cup (Objects \X {"socket", "kqueue"})
Records == [alive : BOOLEAN,
            state : {"CLOSED", "CONNECTING", "CONNECTED", "CLOSING"},
            fd : Fds \cup {-1}, ssl : Fds \cup {-1, -2}, kq : Fds \cup {-1},
            errors : Nat]

Types ==
  /\ use_ssl \in BOOLEAN
  /\ ws \in [Objects -> Records]
  /\ files \in [Fds -> Owners]

InUse(o) == o.state \in {"CONNECTING", "CONNECTED"}

(* What an object o of w knows of the descriptors it opened.  ended: the   *)
(* server ended a connection of it.  again: it connected more than once.   *)
Keeps(w, o, table, ended, again) ==
  /\ o.errors <= 1 /\ (InUse(o) => o.alive /\ o.errors = 0)
  /\ ~ended =>
       \A f \in Fds : table[f] = <<w, "socket">> => InUse(o) /\ o.fd = f
  /\ ~again =>
       \A f \in Fds : table[f] = <<w, "kqueue">> => o.alive /\ o.kq = f

(* Without TLS every number an object holds is one it opened, and one in   *)
(* use has both.                                                           *)
Holds(w, o, table) ==
  /\ o.ssl = -2
  /\ o.fd >= 0 => table[o.fd] = <<w, "socket">>
  /\ o.kq >= 0 => table[o.kq] = <<w, "kqueue">>
  /\ InUse(o) => o.fd >= 0 /\ o.kq >= 0

Inv ==
  /\ Types
  /\ \A w \in Objects : Keeps(w, ws[w], files, w \in peerEnded, w \in reused)
  /\ ~use_ssl => ~stray /\ \A w \in Objects : Holds(w, ws[w], files)

(* How a step of w may change the kernel's table: new entries are its own, *)
(* lost entries are its own, or entries are only lost.                     *)
Own(w) == {Nobody, <<w, "socket">>, <<w, "kqueue">>}
Adds(w, t, u) == \A f \in Fds : u[f] = t[f] \/ u[f] \in Own(w)
Spares(w, t, u) == \A f \in Fds : u[f] = t[f] \/ t[f] \in Own(w)
Shrinks(t, u) == \A f \in Fds : u[f] = t[f] \/ u[f] = Nobody
-----------------------------------------------------------------------------
(* The kernel finds a free descriptor if there is one.                     *)
LEMMA LowestIsFree ==
  ASSUME NEW table, NEW e \in Fds, table[e] = Nobody
  PROVE  Lowest(table) \in Fds /\ table[Lowest(table)] = Nobody
<1> DEFINE T == {f \in Fds : table[f] = Nobody}
<1>1. T \subseteq Nat /\ T # {}
  <2>1. Fds \subseteq Nat
    BY ConnectionAssumption DEF Fds
  <2>2. e \in T
    OBVIOUS
  <2> QED
    BY <2>1, <2>2
<1> HIDE DEF T
<1>2. \E x \in T : \A y \in T : ~(<<y, x>> \in OpToRel(<, Nat))
  BY <1>1, NatLessThanWellFounded, WFMin
<1>3. PICK x \in T : \A y \in T : ~(<<y, x>> \in OpToRel(<, Nat))
  BY <1>2
<1>4. \A y \in T : ~(y < x)
  BY <1>1, <1>3 DEF OpToRel
<1>5. x \in Fds /\ table[x] = Nobody /\ \A g \in Fds : g < x => table[g] # Nobody
  BY <1>4 DEF T
<1> QED
  BY <1>5 DEF Lowest

(* Two free descriptors: after the first is taken there is still one.      *)
LEMMA FreeOnes ==
  ASSUME NEW table
  PROVE  /\ Free(table) >= 1 => \E e \in Fds : table[e] = Nobody
         /\ Free(table) >= 2 => \A d \in Fds : \E e \in Fds \ {d} : table[e] = Nobody
<1> DEFINE T == {f \in Fds : table[f] = Nobody}
<1>1. IsFiniteSet(Fds)
  <2>1. 0 \in Int /\ MaxFd \in Int
    BY ConnectionAssumption
  <2>2. IsFiniteSet(0 .. MaxFd)
    BY <2>1, FS_Interval
  <2> QED
    BY <2>2 DEF Fds
<1>2. IsFiniteSet(T) /\ Cardinality(T) \in Nat /\ Free(table) = Cardinality(T)
  BY <1>1, FS_Subset, FS_CardinalityType DEF Free
<1>3. Free(table) >= 1 => T # {}
  BY <1>2, FS_EmptySet
<1>4. ASSUME Free(table) >= 2, NEW d \in Fds PROVE T \ {d} # {}
  <2>1. Cardinality(T \ {d}) >= 1
    <3> HIDE DEF T
    <3>1. Cardinality(T \ {d}) = IF d \in T THEN Cardinality(T) - 1 ELSE Cardinality(T)
      BY <1>2, FS_RemoveElement
    <3> QED
      BY <1>2, <1>4, <3>1
  <2>2. Cardinality({}) = 0
    BY FS_EmptySet
  <2> QED
    BY <2>1, <2>2
<1> QED
  BY <1>3, <1>4

(* Nobody is no object's socket or kqueue, and no socket is a kqueue.      *)
LEMMA NobodyElse ==
  ASSUME NEW w
  PROVE  /\ Nobody # <<w, "socket">> /\ Nobody # <<w, "kqueue">>
         /\ <<w, "socket">> # <<w, "kqueue">>
<1>1. Len(Nobody) = 1 /\ Len(<<w, "socket">>) = 2 /\ Len(<<w, "kqueue">>) = 2
  BY DEF Nobody
<1> QED
  BY <1>1

(* What one object owns another does not.                                  *)
LEMMA OwnersDiffer ==
  ASSUME NEW v, NEW w, v # w
  PROVE  <<v, "socket">> \notin Own(w) /\ <<v, "kqueue">> \notin Own(w)
<1>1. /\ Nobody # <<v, "socket">> /\ Nobody # <<v, "kqueue">>
  BY NobodyElse
<1> QED
  BY <1>1 DEF Own

(* A step of one object that touches only its own entries of the table     *)
(* disturbs no other object.                                               *)
LEMMA OthersKeep ==
  ASSUME Inv, NEW w \in Objects, NEW o \in Records,
         use_ssl' = use_ssl, ws' = [ws EXCEPT ![w] = o],
         files' \in [Fds -> Owners],
         peerEnded \subseteq peerEnded', reused \subseteq reused',
         Adds(w, files, files'), ~use_ssl => Spares(w, files, files'),
         Keeps(w, o, files', w \in peerEnded', w \in reused'),
         ~use_ssl => ~stray' /\ Holds(w, o, files')
  PROVE  Inv'
<1>1. Objects' = Objects /\ Owners' = Owners
  BY DEF Objects, Owners
<1>2. ws \in [Objects -> Records] /\ use_ssl \in BOOLEAN
  BY DEF Inv, Types
<1>3. ws' \in [Objects -> Records] /\ ws'[w] = o /\ \A v \in Objects \ {w} : ws'[v] = ws[v]
  BY <1>2
<1>4. Types'
  <2>1. Records' = Records
    BY DEF Records, Fds
  <2> QED
    BY <1>1, <1>2, <1>3, <2>1 DEF Types
<1>5. ASSUME NEW v \in Objects, v # w
      PROVE  Keeps(v, ws[v], files', v \in peerEnded', v \in reused')
  <2>1. Keeps(v, ws[v], files, v \in peerEnded, v \in reused)
    BY DEF Inv
  <2>2. \A f \in Fds : /\ files'[f] = <<v, "socket">> => files[f] = <<v, "socket">>
                       /\ files'[f] = <<v, "kqueue">> => files[f] = <<v, "kqueue">>
    BY <1>5, OwnersDiffer DEF Adds
  <2> QED
    BY <2>1, <2>2 DEF Keeps
<1>6. ASSUME ~use_ssl, NEW v \in Objects, v # w
      PROVE  Holds(v, ws[v], files')
  <2>1. Holds(v, ws[v], files)
    BY <1>6 DEF Inv
  <2>2. \A f \in Fds : /\ files[f] = <<v, "socket">> => files'[f] = <<v, "socket">>
                       /\ files[f] = <<v, "kqueue">> => files'[f] = <<v, "kqueue">>
    BY <1>6, OwnersDiffer DEF Spares
  <2>3. ws[v].fd \in Fds \cup {-1} /\ ws[v].kq \in Fds \cup {-1}
    BY <1>2 DEF Records
  <2> QED
    BY <2>1, <2>2, <2>3 DEF Holds
<1>7. \A v \in Objects : Keeps(v, ws'[v], files', v \in peerEnded', v \in reused')
  BY <1>3, <1>5
<1>8. ~use_ssl => ~stray' /\ \A v \in Objects : Holds(v, ws'[v], files')
  BY <1>3, <1>6
<1>9. (\A v \in Objects : Keeps(v, ws[v], files, v \in peerEnded, v \in reused))'
  BY <1>1, <1>7 DEF Keeps, InUse, Fds
<1>10. (~use_ssl => ~stray /\ \A v \in Objects : Holds(v, ws[v], files))'
  BY <1>1, <1>8 DEF Holds, InUse
<1> QED
  BY <1>4, <1>9, <1>10 DEF Inv

(* What opening a descriptor does to the table.                            *)
LEMMA OpeningFacts ==
  ASSUME NEW t \in [Fds -> Owners], NEW w \in Objects, NEW k \in {"socket", "kqueue"},
         \E e \in Fds : t[e] = Nobody
  PROVE  /\ Lowest(t) \in Fds /\ t[Lowest(t)] = Nobody
         /\ Opened(t, <<w, k>>) \in [Fds -> Owners]
         /\ Opened(t, <<w, k>>)[Lowest(t)] = <<w, k>>
         /\ \A f \in Fds : f # Lowest(t) => Opened(t, <<w, k>>)[f] = t[f]
<1>1. Lowest(t) \in Fds /\ t[Lowest(t)] = Nobody
  BY LowestIsFree
<1>2. <<w, k>> \in Owners
  BY DEF Owners
<1> QED
  BY <1>1, <1>2 DEF Opened

(* What closing one does.                                                  *)
LEMMA ClosingFacts ==
  ASSUME NEW t \in [Fds -> Owners], NEW n \in Fds \cup {-1, -2}
  PROVE  /\ Closed(t, n) \in [Fds -> Owners]
         /\ Shrinks(t, Closed(t, n))
         /\ n \in Fds => Closed(t, n)[n] = Nobody
         /\ \A f \in Fds : f # n => Closed(t, n)[f] = t[f]
<1>1. Nobody \in Owners
  BY DEF Owners
<1> QED
  BY <1>1 DEF Closed, Shrinks

(* What is known of object w before a step.                                *)
LEMMA BeforeStep ==
  ASSUME Inv, NEW w \in Objects
  PROVE  /\ ws[w] \in Records /\ files \in [Fds -> Owners] /\ use_ssl \in BOOLEAN
         /\ Keeps(w, ws[w], files, w \in peerEnded, w \in reused)
         /\ ~use_ssl => ~stray /\ Holds(w, ws[w], files)
BY DEF Inv, Types

(* A new object holds nothing, and nothing is left of an earlier one.      *)
LEMMA FreshFacts ==
  /\ Fresh \in Records
  /\ [Fresh EXCEPT !.alive = TRUE] \in Records
  /\ Fresh.state = "CLOSED" /\ Fresh.fd = -1 /\ Fresh.kq = -1 /\ Fresh.ssl = -2
  /\ Fresh.errors = 0
BY DEF Fresh, Records

(* websocket_create.                                                       *)
LEMMA CreateKeeps ==
  ASSUME Inv, NEW w \in Objects, websocket_create(w), use_ssl' = use_ssl
  PROVE  Inv'
<1> DEFINE o == [Fresh EXCEPT !.alive = TRUE]
<1>1. /\ ws[w] \in Records /\ files \in [Fds -> Owners]
      /\ Keeps(w, ws[w], files, w \in peerEnded, w \in reused)
      /\ ~use_ssl => ~stray /\ Holds(w, ws[w], files)
  BY BeforeStep
<1>2. /\ ~ws[w].alive /\ ws' = [ws EXCEPT ![w] = o] /\ files' = files
      /\ stray' = stray /\ peerEnded' = peerEnded /\ reused' = reused
  BY DEF websocket_create
<1>3. o \in Records /\ o.state = "CLOSED" /\ o.fd = -1 /\ o.kq = -1 /\ o.ssl = -2
      /\ o.errors = 0
  BY DEF Fresh, Records
<1>4. Keeps(w, o, files', w \in peerEnded', w \in reused')
  BY <1>1, <1>2, <1>3 DEF Keeps, InUse
<1>5. Holds(w, o, files')
  BY <1>3 DEF Holds, InUse
<1>6. Adds(w, files, files') /\ Spares(w, files, files')
  BY <1>2 DEF Adds, Spares
<1> HIDE DEF o
<1> QED
  BY <1>1, <1>2, <1>3, <1>4, <1>5, <1>6, OthersKeep

(* The response is valid: only the state changes.                          *)
LEMMA CompleteKeeps ==
  ASSUME Inv, NEW w \in Objects, HandshakeComplete(w), use_ssl' = use_ssl
  PROVE  Inv'
<1> DEFINE o == [ws[w] EXCEPT !.state = "CONNECTED"]
<1>1. /\ ws[w] \in Records /\ files \in [Fds -> Owners]
      /\ Keeps(w, ws[w], files, w \in peerEnded, w \in reused)
      /\ ~use_ssl => ~stray /\ Holds(w, ws[w], files)
  BY BeforeStep
<1>2. /\ InUse(ws[w]) /\ ws' = [ws EXCEPT ![w] = o] /\ files' = files
      /\ stray' = stray /\ peerEnded' = peerEnded /\ reused' = reused
  BY DEF HandshakeComplete, InUse
<1>3. o \in Records
  BY <1>1 DEF Records
<1>4. /\ o.fd = ws[w].fd /\ o.kq = ws[w].kq /\ o.ssl = ws[w].ssl
      /\ o.errors = ws[w].errors /\ o.alive = ws[w].alive /\ InUse(o)
  BY <1>1 DEF Records, InUse
<1> HIDE DEF o
<1>5. Keeps(w, o, files', w \in peerEnded', w \in reused')
  BY <1>1, <1>2, <1>4 DEF Keeps
<1>6. ~use_ssl => ~stray' /\ Holds(w, o, files')
  BY <1>1, <1>2, <1>4 DEF Holds
<1>7. Adds(w, files, files') /\ Spares(w, files, files')
  BY <1>2 DEF Adds, Spares
<1> QED
  BY <1>1, <1>2, <1>3, <1>5, <1>6, <1>7, OthersKeep

(* A successful websocket_connect: both descriptors are new, and the       *)
(* object held none, or the exceptions apply to it.                        *)
LEMMA ConnectKeeps ==
  ASSUME Inv, NEW w \in Objects, websocket_connect(w), use_ssl' = use_ssl
  PROVE  Inv'
<1> DEFINE kq == Lowest(files)
           with == Opened(files, <<w, "kqueue">>)
           fd == Lowest(with)
           new == Opened(with, <<w, "socket">>)
           o == [ws[w] EXCEPT !.state = "CONNECTING", !.fd = fd, !.kq = kq,
                              !.ssl = IF use_ssl THEN fd ELSE -2, !.errors = 0]
<1>1. /\ ws[w] \in Records /\ files \in [Fds -> Owners] /\ use_ssl \in BOOLEAN
      /\ Keeps(w, ws[w], files, w \in peerEnded, w \in reused)
      /\ ~use_ssl => ~stray
  BY BeforeStep
<1>2. /\ ws[w].alive /\ ~InUse(ws[w]) /\ Free(files) >= 2
      /\ files' = new /\ ws' = [ws EXCEPT ![w] = o]
      /\ reused' = IF ws[w].kq >= 0 THEN reused \cup {w} ELSE reused
      /\ stray' = stray /\ peerEnded' = peerEnded
  BY DEF websocket_connect, Connectable, InUse, Reuse, io_init, tcp_connect, ssl_connect
<1>3. /\ kq \in Fds /\ files[kq] = Nobody /\ with \in [Fds -> Owners]
      /\ with[kq] = <<w, "kqueue">>
      /\ \A f \in Fds : f # kq => with[f] = files[f]
  <2>1. \E e \in Fds \ {0} : files[e] = Nobody
    BY <1>2, FreeOnes, ConnectionAssumption DEF Fds
  <2> HIDE DEF kq, with
  <2> QED
    BY <1>1, <2>1, OpeningFacts DEF kq, with
<1>4. /\ fd \in Fds /\ with[fd] = Nobody /\ new \in [Fds -> Owners]
      /\ new[fd] = <<w, "socket">>
      /\ \A f \in Fds : f # fd => new[f] = with[f]
  <2>1. PICK e \in Fds \ {kq} : files[e] = Nobody
    BY <1>2, <1>3, FreeOnes
  <2>2. with[e] = Nobody
    BY <1>3, <2>1
  <2> HIDE DEF kq, with
  <2> QED
    BY <1>3, <2>1, <2>2, OpeningFacts
<1> HIDE DEF kq, with, fd, new
<1>5. /\ o \in Records /\ o.alive /\ o.fd = fd /\ o.kq = kq /\ o.errors = 0
      /\ o.state = "CONNECTING" /\ (~use_ssl => o.ssl = -2)
  BY <1>1, <1>2, <1>3, <1>4 DEF Records
<1> HIDE DEF o
<1>6. /\ Nobody # <<w, "socket">> /\ Nobody # <<w, "kqueue">>
      /\ <<w, "socket">> # <<w, "kqueue">>
  BY NobodyElse
<1>7. fd # kq /\ fd >= 0 /\ kq >= 0
  <2>1. fd # kq
    BY <1>3, <1>4, <1>6
  <2>2. fd >= 0 /\ kq >= 0
    BY <1>3, <1>4, ConnectionAssumption DEF Fds
  <2> QED
    BY <2>1, <2>2
<1>8. \A f \in Fds : f # fd /\ f # kq => new[f] = files[f]
  BY <1>3, <1>4
<1>9. new[kq] = <<w, "kqueue">>
  BY <1>3, <1>4, <1>7
<1>10. w \notin peerEnded => \A f \in Fds : files[f] # <<w, "socket">>
  BY <1>1, <1>2 DEF Keeps
<1>11. w \notin reused' => \A f \in Fds : files[f] # <<w, "kqueue">>
  BY <1>1, <1>2, ConnectionAssumption DEF Keeps, Fds
<1>12. Keeps(w, o, files', w \in peerEnded', w \in reused')
  <2>1. ASSUME w \notin peerEnded', NEW f \in Fds, files'[f] = <<w, "socket">>
        PROVE  InUse(o) /\ o.fd = f
    BY <1>2, <1>5, <1>6, <1>8, <1>9, <1>10, <2>1 DEF InUse
  <2>2. ASSUME w \notin reused', NEW f \in Fds, files'[f] = <<w, "kqueue">>
        PROVE  o.alive /\ o.kq = f
    BY <1>2, <1>4, <1>5, <1>6, <1>8, <1>11, <2>2
  <2> QED
    BY <1>5, <2>1, <2>2 DEF Keeps
<1>13. ~use_ssl => ~stray' /\ Holds(w, o, files')
  BY <1>1, <1>2, <1>4, <1>5, <1>7, <1>9 DEF Holds
<1>14. Adds(w, files, files') /\ Spares(w, files, files')
  BY <1>2, <1>3, <1>4, <1>7, <1>8, <1>9 DEF Adds, Spares, Own
<1>15. peerEnded \subseteq peerEnded' /\ reused \subseteq reused'
  BY <1>2
<1> QED
  BY <1>2, <1>4, <1>5, <1>12, <1>13, <1>14, <1>15, OthersKeep

(* The cleanup label, if what it leaves of the table is what was there     *)
(* before less some entries, without TLS only entries of this object.      *)
LEMMA CleanupKeeps ==
  ASSUME Inv, NEW w \in Objects, use_ssl' = use_ssl,
         NEW table, NEW fd, NEW kq, NEW ssl \in Fds \cup {-1, -2},
         ConnectCleanup(w, table, fd, kq, ssl),
         files' \in [Fds -> Owners], Shrinks(files, files'),
         ~use_ssl => Spares(w, files, files') /\ Owns(table, w, fd) /\ ssl = -2
  PROVE  Inv'
<1> DEFINE o == [ws[w] EXCEPT !.fd = -1, !.kq = -1, !.ssl = ssl]
<1>1. /\ ws[w] \in Records
      /\ Keeps(w, ws[w], files, w \in peerEnded, w \in reused)
      /\ ~use_ssl => ~stray
  BY BeforeStep
<1>2. /\ ws[w].alive /\ ~InUse(ws[w]) /\ ws' = [ws EXCEPT ![w] = o]
      /\ reused' = IF ws[w].kq >= 0 THEN reused \cup {w} ELSE reused
      /\ stray' = (stray \/ ~Owns(table, w, fd)) /\ peerEnded' = peerEnded
  BY DEF ConnectCleanup, Connectable, InUse, Reuse
<1>3. /\ o \in Records /\ o.alive /\ o.fd = -1 /\ o.kq = -1 /\ o.ssl = ssl
      /\ o.errors = ws[w].errors /\ o.state = ws[w].state
  BY <1>1, <1>2 DEF Records
<1> HIDE DEF o
<1>4. /\ Nobody # <<w, "socket">> /\ Nobody # <<w, "kqueue">>
  BY NobodyElse
<1>5. w \notin peerEnded => \A f \in Fds : files[f] # <<w, "socket">>
  BY <1>1, <1>2 DEF Keeps
<1>6. w \notin reused' => \A f \in Fds : files[f] # <<w, "kqueue">>
  BY <1>1, <1>2, ConnectionAssumption DEF Keeps, Fds
<1>7. Keeps(w, o, files', w \in peerEnded', w \in reused')
  BY <1>1, <1>2, <1>3, <1>4, <1>5, <1>6 DEF Keeps, InUse, Shrinks
<1>8. ~use_ssl => ~stray' /\ Holds(w, o, files')
  <2>1. ~use_ssl => ~stray'
    BY <1>1, <1>2
  <2>2. ~use_ssl => Holds(w, o, files')
    BY <1>2, <1>3 DEF Holds, InUse
  <2> QED
    BY <2>1, <2>2
<1>9. Adds(w, files, files')
  BY DEF Adds, Shrinks, Own
<1>10. peerEnded \subseteq peerEnded' /\ reused \subseteq reused'
  BY <1>2
<1> QED
  BY <1>2, <1>3, <1>7, <1>8, <1>9, <1>10, OthersKeep

(* io_init fails: the socket of an earlier connection is closed.           *)
LEMMA FailsEarlyKeeps ==
  ASSUME Inv, NEW w \in Objects, ConnectFailsEarly(w), use_ssl' = use_ssl
  PROVE  Inv'
<1> DEFINE fd == ws[w].fd
<1>1. /\ ws[w] \in Records /\ files \in [Fds -> Owners]
      /\ ~use_ssl => Holds(w, ws[w], files)
  BY BeforeStep
<1>2. fd \in Fds \cup {-1} /\ ws[w].ssl \in Fds \cup {-1, -2}
  BY <1>1 DEF Records
<1>3. ConnectCleanup(w, files, fd, -1, ws[w].ssl)
  BY DEF ConnectFailsEarly
<1>4. files' = Closed(files, fd)
  BY <1>3, ConnectionAssumption DEF ConnectCleanup, io_cleanup, Closed, Fds
<1> HIDE DEF fd
<1>5. /\ files' \in [Fds -> Owners] /\ Shrinks(files, files')
      /\ \A f \in Fds : f # fd => files'[f] = files[f]
  BY <1>1, <1>2, <1>4, ClosingFacts
<1>6. ASSUME ~use_ssl
      PROVE  Spares(w, files, files') /\ Owns(files, w, fd) /\ ws[w].ssl = -2
  <2>1. ws[w].ssl = -2 /\ (fd >= 0 => files[fd] = <<w, "socket">>)
    BY <1>1, <1>6 DEF Holds, fd
  <2>2. Owns(files, w, fd)
    BY <1>2, <2>1, ConnectionAssumption DEF Owns, Fds
  <2>3. fd \in Fds => files[fd] \in Own(w)
    BY <2>1, ConnectionAssumption DEF Own, Fds
  <2>4. Spares(w, files, files')
    BY <1>5, <2>3 DEF Spares
  <2> QED
    BY <2>1, <2>2, <2>4
<1> QED
  BY <1>2, <1>3, <1>5, <1>6, CleanupKeeps

(* tcp_connect fails: the new kqueue is closed again.                      *)
LEMMA FailsKeeps ==
  ASSUME Inv, NEW w \in Objects, ConnectFails(w), use_ssl' = use_ssl
  PROVE  Inv'
<1> DEFINE kq == Lowest(files)
           with == Opened(files, <<w, "kqueue">>)
<1>1. /\ ws[w] \in Records /\ files \in [Fds -> Owners]
      /\ ~use_ssl => Holds(w, ws[w], files)
  BY BeforeStep
<1>2. ws[w].ssl \in Fds \cup {-1, -2}
  BY <1>1 DEF Records
<1>3. ConnectCleanup(w, with, -1, kq, ws[w].ssl) /\ Free(files) >= 1
  BY DEF ConnectFails, io_init
<1>4. files' = Closed(with, kq)
  BY <1>3, ConnectionAssumption DEF ConnectCleanup, io_cleanup, Closed, Fds
<1>5. \E e \in Fds : files[e] = Nobody
  BY <1>3, FreeOnes
<1>6. /\ kq \in Fds /\ files[kq] = Nobody /\ with \in [Fds -> Owners]
      /\ \A f \in Fds : f # kq => with[f] = files[f]
  BY <1>1, <1>5, OpeningFacts
<1> HIDE DEF kq, with
<1>7. /\ files' \in [Fds -> Owners] /\ files'[kq] = Nobody
      /\ \A f \in Fds : f # kq => files'[f] = with[f]
  BY <1>4, <1>6, ClosingFacts
<1>8. Shrinks(files, files') /\ Spares(w, files, files')
  BY <1>6, <1>7 DEF Shrinks, Spares
<1>9. Owns(with, w, -1)
  BY DEF Owns
<1>10. ~use_ssl => ws[w].ssl = -2
  BY <1>1 DEF Holds
<1> QED
  BY <1>2, <1>3, <1>7, <1>8, <1>9, <1>10, CleanupKeeps

(* ssl_connect or io_add_socket fails: the socket is closed twice, the     *)
(* kqueue once, and nothing of the two remains.                            *)
LEMMA FailsWithTlsKeeps ==
  ASSUME Inv, NEW w \in Objects, ConnectFailsWithTls(w), use_ssl' = use_ssl
  PROVE  Inv'
<1> DEFINE kq == Lowest(files)
           with == Opened(files, <<w, "kqueue">>)
           fd == Lowest(with)
           new == Opened(with, <<w, "socket">>)
           once == Closed(new, fd)
           twice == Closed(once, fd)
<1>1. files \in [Fds -> Owners]
  BY BeforeStep
<1>2. /\ use_ssl /\ Free(files) >= 2
      /\ ConnectCleanup(w, once, fd, kq, -2)
  BY DEF ConnectFailsWithTls, io_init, tcp_connect, ssl_connect, ssl_cleanup
<1>3. files' = Closed(twice, kq)
  BY <1>2 DEF ConnectCleanup, io_cleanup
<1>4. /\ kq \in Fds /\ files[kq] = Nobody /\ with \in [Fds -> Owners]
      /\ \A f \in Fds : f # kq => with[f] = files[f]
  <2>1. \E e \in Fds : files[e] = Nobody
    <3>1. 0 \in Fds
      BY ConnectionAssumption DEF Fds
    <3> QED
      BY <1>2, <3>1, FreeOnes
  <2> QED
    BY <1>1, <2>1, OpeningFacts
<1>5. /\ fd \in Fds /\ new \in [Fds -> Owners]
      /\ \A f \in Fds : f # fd => new[f] = with[f]
  <2>1. PICK e \in Fds \ {kq} : files[e] = Nobody
    BY <1>2, <1>4, FreeOnes
  <2>2. with[e] = Nobody
    BY <1>4, <2>1
  <2> HIDE DEF kq, with
  <2> QED
    BY <1>4, <2>1, <2>2, OpeningFacts
<1> HIDE DEF kq, with, fd, new
<1>6. /\ once \in [Fds -> Owners]
      /\ \A f \in Fds : f # fd => once[f] = new[f]
  BY <1>5, ClosingFacts
<1> HIDE DEF once
<1>7. /\ twice \in [Fds -> Owners] /\ twice[fd] = Nobody
      /\ \A f \in Fds : f # fd => twice[f] = once[f]
  BY <1>5, <1>6, ClosingFacts
<1> HIDE DEF twice
<1>8. /\ files' \in [Fds -> Owners] /\ files'[kq] = Nobody
      /\ \A f \in Fds : f # kq => files'[f] = twice[f]
  BY <1>3, <1>4, <1>7, ClosingFacts
<1>9. Shrinks(files, files')
  BY <1>4, <1>5, <1>6, <1>7, <1>8 DEF Shrinks
<1>10. -2 \in Fds \cup {-1, -2}
  OBVIOUS
<1> QED
  BY <1>2, <1>8, <1>9, <1>10, CleanupKeeps

(* websocket_close takes from the table at most the socket of the object,  *)
(* and leaves the object without one.                                      *)
LEMMA CloseFacts ==
  ASSUME Inv, NEW w \in Objects, NEW o \in Records,
         o = ws[w] \/ (InUse(ws[w]) /\ o = OnError(ws[w]))
  PROVE  LET r == CloseResult(files, w, o) IN
         /\ r.object \in Records /\ r.files \in [Fds -> Owners]
         /\ r.object.alive = o.alive /\ r.object.kq = o.kq /\ r.object.ssl = o.ssl
         /\ ~InUse(r.object) /\ Shrinks(files, r.files)
         /\ Keeps(w, r.object, r.files, w \in peerEnded, w \in reused)
         /\ ~use_ssl =>
              ~r.stray /\ Spares(w, files, r.files) /\ Holds(w, r.object, r.files)
<1> DEFINE r == CloseResult(files, w, o)
<1>1. /\ ws[w] \in Records /\ files \in [Fds -> Owners]
      /\ Keeps(w, ws[w], files, w \in peerEnded, w \in reused)
      /\ ~use_ssl => Holds(w, ws[w], files)
  BY BeforeStep
<1>2. /\ o.state = ws[w].state /\ o.fd = ws[w].fd /\ o.kq = ws[w].kq
      /\ o.ssl = ws[w].ssl /\ o.alive = ws[w].alive
      /\ o.errors <= 1
  <2>1. CASE o = ws[w]
    BY <1>1, <2>1 DEF Keeps
  <2>2. CASE InUse(ws[w]) /\ o = OnError(ws[w])
    <3>1. ws[w].errors = 0
      BY <1>1, <2>2 DEF Keeps
    <3> QED
      BY <1>1, <2>2, <3>1 DEF OnError, Records
  <2> QED
    BY <2>1, <2>2
<1>3. CASE o.state = "CLOSED"
  <2>1. o = ws[w]
    BY <1>2, <1>3 DEF InUse
  <2>2. r.object = o /\ r.files = files /\ ~r.stray
    BY <1>3 DEF CloseResult
  <2>3. ~InUse(o)
    BY <1>3 DEF InUse
  <2>4. Shrinks(files, r.files) /\ Spares(w, files, r.files)
    BY <2>2 DEF Shrinks, Spares
  <2> HIDE DEF r
  <2> QED
    BY <1>1, <1>2, <2>1, <2>2, <2>3, <2>4 DEF r
<1>4. CASE o.state # "CLOSED"
  <2> DEFINE c == [o EXCEPT !.fd = -1, !.state = "CLOSED"]
  <2>1. r.object = c /\ r.files = Closed(files, o.fd) /\ r.stray = ~Owns(files, w, o.fd)
    BY <1>4 DEF CloseResult
  <2>2. /\ c \in Records /\ c.alive = o.alive /\ c.kq = o.kq /\ c.ssl = o.ssl
        /\ c.errors = o.errors /\ c.fd = -1 /\ c.state = "CLOSED" /\ ~InUse(c)
    BY DEF Records, InUse
  <2> HIDE DEF c
  <2>3. o.fd \in Fds \cup {-1}
    BY DEF Records
  <2>4. /\ r.files \in [Fds -> Owners] /\ Shrinks(files, r.files)
        /\ o.fd \in Fds => r.files[o.fd] = Nobody
        /\ \A f \in Fds : f # o.fd => r.files[f] = files[f]
    BY <1>1, <2>1, <2>3, ClosingFacts
  <2>5. Nobody # <<w, "socket">> /\ Nobody # <<w, "kqueue">>
    BY NobodyElse
  <2> HIDE DEF r
  <2>6. ASSUME w \notin peerEnded, NEW f \in Fds PROVE r.files[f] # <<w, "socket">>
    <3>1. files[f] = <<w, "socket">> => f = o.fd
      BY <1>1, <1>2, <2>6 DEF Keeps
    <3> QED
      BY <2>4, <2>5, <3>1
  <2>7. ASSUME w \notin reused, NEW f \in Fds, r.files[f] = <<w, "kqueue">>
        PROVE  c.alive /\ c.kq = f
    <3>1. files[f] = <<w, "kqueue">>
      BY <2>4, <2>5, <2>7
    <3> QED
      BY <1>1, <1>2, <2>2, <2>7, <3>1 DEF Keeps
  <2>8. Keeps(w, c, r.files, w \in peerEnded, w \in reused)
    BY <1>2, <2>2, <2>6, <2>7 DEF Keeps
  <2>9. ASSUME ~use_ssl
        PROVE  ~r.stray /\ Spares(w, files, r.files) /\ Holds(w, c, r.files)
    <3>1. /\ o.ssl = -2 /\ (o.fd >= 0 => files[o.fd] = <<w, "socket">>)
          /\ (o.kq >= 0 => files[o.kq] = <<w, "kqueue">>)
      BY <1>1, <1>2, <2>9 DEF Holds
    <3>2. Owns(files, w, o.fd)
      BY <2>3, <3>1, ConnectionAssumption DEF Owns, Fds
    <3>3. o.fd \in Fds => files[o.fd] \in Own(w)
      BY <3>1, ConnectionAssumption DEF Own, Fds
    <3>4. Spares(w, files, r.files)
      BY <2>4, <3>3 DEF Spares
    <3>5. o.kq \in Fds \cup {-1}
      BY DEF Records
    <3>6. ASSUME o.kq >= 0 PROVE r.files[o.kq] = <<w, "kqueue">>
      <4>1. o.kq \in Fds
        BY <3>5, <3>6
      <4>2. <<w, "socket">> # <<w, "kqueue">>
        OBVIOUS
      <4>3. o.kq # o.fd
        BY <3>1, <3>6, <4>2
      <4> QED
        BY <2>4, <3>1, <3>6, <4>1, <4>3
    <3>7. Holds(w, c, r.files)
      BY <2>2, <3>1, <3>6 DEF Holds
    <3>8. ~r.stray
      BY <2>1, <3>2
    <3> QED
      BY <3>4, <3>7, <3>8
  <2>10. /\ r.object \in Records /\ r.object.alive = o.alive /\ r.object.kq = o.kq
         /\ r.object.ssl = o.ssl /\ ~InUse(r.object)
    BY <1>2, <2>1, <2>2
  <2> QED
    BY <2>1, <2>4, <2>8, <2>9, <2>10 DEF r
<1> QED
  BY <1>3, <1>4

(* A step that closes object w, or object w after on_error.                *)
LEMMA ClosingKeeps ==
  ASSUME Inv, NEW w \in Objects, NEW o \in Records, use_ssl' = use_ssl,
         o = ws[w] \/ (InUse(ws[w]) /\ o = OnError(ws[w])),
         files' = CloseResult(files, w, o).files,
         ws' = [ws EXCEPT ![w] = CloseResult(files, w, o).object],
         stray' = (stray \/ CloseResult(files, w, o).stray),
         UNCHANGED <<peerEnded, reused>>
  PROVE  Inv'
<1> DEFINE r == CloseResult(files, w, o)
<1>1. ~use_ssl => ~stray
  BY DEF Inv
<1>2. /\ r.object \in Records /\ r.files \in [Fds -> Owners] /\ Shrinks(files, r.files)
      /\ Keeps(w, r.object, r.files, w \in peerEnded, w \in reused)
      /\ ~use_ssl =>
           ~r.stray /\ Spares(w, files, r.files) /\ Holds(w, r.object, r.files)
  BY CloseFacts
<1>3. /\ files' = r.files /\ ws' = [ws EXCEPT ![w] = r.object]
      /\ stray' = (stray \/ r.stray) /\ peerEnded' = peerEnded /\ reused' = reused
  OBVIOUS
<1> HIDE DEF r
<1>4. Adds(w, files, files')
  BY <1>2, <1>3 DEF Adds, Shrinks, Own
<1>5. ~use_ssl => ~stray'
  BY <1>1, <1>2, <1>3
<1> QED
  BY <1>2, <1>3, <1>4, <1>5, OthersKeep

(* websocket_close.                                                        *)
LEMMA CloseKeeps ==
  ASSUME Inv, NEW w \in Objects, websocket_close(w), use_ssl' = use_ssl
  PROVE  Inv'
<1>1. ws[w] \in Records
  BY BeforeStep
<1> QED
  BY <1>1, ClosingKeeps DEF websocket_close

(* on_error counts and changes nothing else.                               *)
LEMMA ErrorCounted ==
  ASSUME NEW o \in Records
  PROVE  /\ OnError(o) \in Records /\ OnError(o).errors = o.errors + 1
         /\ OnError(o).alive = o.alive /\ OnError(o).fd = o.fd
         /\ OnError(o).kq = o.kq /\ OnError(o).ssl = o.ssl
BY DEF OnError, Records

(* A connection in use has had no error, so there is room for one.         *)
LEMMA OnErrorFacts ==
  ASSUME Inv, NEW w \in Objects, InUse(ws[w])
  PROVE  /\ OnError(ws[w]) \in Records /\ OnError(ws[w]).errors = 1
         /\ OnError(ws[w]).alive /\ OnError(ws[w]).fd = ws[w].fd
         /\ OnError(ws[w]).kq = ws[w].kq /\ OnError(ws[w]).ssl = ws[w].ssl
<1>1. ws[w] \in Records /\ ws[w].errors = 0 /\ ws[w].alive
  BY BeforeStep DEF Keeps
<1> QED
  BY <1>1, ErrorCounted

(* A refused handshake.                                                    *)
LEMMA RejectedKeeps ==
  ASSUME Inv, NEW w \in Objects, HandshakeRejected(w), use_ssl' = use_ssl
  PROVE  Inv'
<1>1. InUse(ws[w])
  BY DEF HandshakeRejected, InUse
<1>2. OnError(ws[w]) \in Records
  BY <1>1, OnErrorFacts
<1> QED
  BY <1>1, <1>2, ClosingKeeps DEF HandshakeRejected

(* The server has ended the connection: what remains to be shown of an     *)
(* object that is not in use any more and keeps its kqueue.                *)
LEMMA EndedKeeps ==
  ASSUME Inv, NEW w \in Objects, NEW o \in Records, NEW table \in [Fds -> Owners],
         use_ssl' = use_ssl, ws' = [ws EXCEPT ![w] = o], files' = table,
         peerEnded' = peerEnded \cup {w}, reused' = reused,
         Shrinks(files, table),
         ~InUse(o), o.errors <= 1, o.alive, o.kq = ws[w].kq,
         ~use_ssl => ~stray' /\ Spares(w, files, table) /\ Holds(w, o, table)
  PROVE  Inv'
<1>1. Keeps(w, ws[w], files, w \in peerEnded, w \in reused)
  BY BeforeStep
<1>2. Nobody # <<w, "kqueue">>
  BY NobodyElse
<1>3. Keeps(w, o, files', w \in peerEnded', w \in reused')
  BY <1>1, <1>2 DEF Keeps, Shrinks
<1>4. Adds(w, files, files')
  BY DEF Adds, Shrinks, Own
<1>5. peerEnded \subseteq peerEnded' /\ reused \subseteq reused'
  OBVIOUS
<1> QED
  BY <1>3, <1>4, <1>5, OthersKeep

(* An end of file or an error of the socket.                               *)
LEMMA EofKeeps ==
  ASSUME Inv, NEW w \in Objects, EofEvent(w), use_ssl' = use_ssl
  PROVE  Inv'
<1> DEFINE e == OnError(ws[w])
           o == [e EXCEPT !.state = "CLOSED"]
<1>1. InUse(ws[w])
  BY DEF EofEvent, Active, InUse
<1>2. /\ e \in Records /\ e.errors = 1 /\ e.alive /\ e.fd = ws[w].fd
      /\ e.kq = ws[w].kq /\ e.ssl = ws[w].ssl
  BY <1>1, OnErrorFacts
<1>3. /\ ws' = [ws EXCEPT ![w] = o] /\ files' = files /\ stray' = stray
      /\ peerEnded' = peerEnded \cup {w} /\ reused' = reused
  BY DEF EofEvent
<1> HIDE DEF e
<1>4. /\ o \in Records /\ ~InUse(o) /\ o.errors = 1 /\ o.alive /\ o.fd = ws[w].fd
      /\ o.kq = ws[w].kq /\ o.ssl = ws[w].ssl
  BY <1>2 DEF Records, InUse
<1> HIDE DEF o
<1>5. files \in [Fds -> Owners] /\ (~use_ssl => ~stray /\ Holds(w, ws[w], files))
  BY BeforeStep
<1>6. Shrinks(files, files) /\ Spares(w, files, files)
  BY DEF Shrinks, Spares
<1>7. ~use_ssl => ~stray'
  BY <1>3, <1>5
<1>8. ~use_ssl => Holds(w, o, files)
  BY <1>4, <1>5 DEF Holds
<1>9. o.errors <= 1
  BY <1>4
<1> QED
  BY <1>3, <1>4, <1>5, <1>6, <1>7, <1>8, <1>9, EndedKeeps

(* A CLOSE frame, with or without websocket_close in on_message before it. *)
LEMMA CloseFrameKeeps ==
  ASSUME Inv, NEW w \in Objects, CloseFrame(w), use_ssl' = use_ssl
  PROVE  Inv'
<1>1. /\ ws[w] \in Records /\ files \in [Fds -> Owners]
      /\ Keeps(w, ws[w], files, w \in peerEnded, w \in reused)
      /\ ~use_ssl => ~stray /\ Holds(w, ws[w], files)
  BY BeforeStep
<1>2. InUse(ws[w]) /\ ws[w].alive
  BY DEF CloseFrame, Active, InUse
<1>3. PICK r \in {CloseResult(files, w, ws[w]),
                  [files |-> files, stray |-> FALSE, object |-> ws[w]]} :
        /\ files' = r.files
        /\ ws' = [ws EXCEPT ![w] = [r.object EXCEPT !.state = "CLOSING"]]
        /\ stray' = (stray \/ r.stray)
  BY DEF CloseFrame
<1>4. peerEnded' = peerEnded \cup {w} /\ reused' = reused
  BY DEF CloseFrame
<1>5. /\ r.object \in Records /\ r.files \in [Fds -> Owners]
      /\ r.object.alive = ws[w].alive /\ r.object.kq = ws[w].kq
      /\ r.object.errors <= 1 /\ Shrinks(files, r.files)
      /\ ~use_ssl =>
           ~r.stray /\ Spares(w, files, r.files) /\ Holds(w, r.object, r.files)
  <2>1. CASE r = CloseResult(files, w, ws[w])
    <3>1. Keeps(w, r.object, r.files, w \in peerEnded, w \in reused)
      BY <1>1, <2>1, CloseFacts
    <3>2. r.object.errors <= 1
      BY <3>1 DEF Keeps
    <3> QED
      BY <1>1, <2>1, <3>2, CloseFacts
  <2>2. CASE r = [files |-> files, stray |-> FALSE, object |-> ws[w]]
    <3>1. r.files = files /\ ~r.stray /\ r.object = ws[w]
      BY <2>2
    <3>2. Shrinks(files, files) /\ Spares(w, files, files)
      BY DEF Shrinks, Spares
    <3>3. ws[w].errors <= 1
      BY <1>1 DEF Keeps
    <3> QED
      BY <1>1, <3>1, <3>2, <3>3
  <2> QED
    BY <2>1, <2>2
<1> DEFINE o == [r.object EXCEPT !.state = "CLOSING"]
<1>6. /\ o \in Records /\ ~InUse(o) /\ o.errors = r.object.errors
      /\ o.alive = r.object.alive /\ o.fd = r.object.fd
      /\ o.kq = r.object.kq /\ o.ssl = r.object.ssl
  BY <1>5 DEF Records, InUse
<1>7. ws' = [ws EXCEPT ![w] = o]
  BY <1>3
<1> HIDE DEF o
<1>8. ~use_ssl => ~stray'
  BY <1>1, <1>3, <1>5
<1>9. ~use_ssl => Holds(w, o, r.files)
  BY <1>5, <1>6 DEF Holds
<1>10. o.errors <= 1 /\ o.alive /\ o.kq = ws[w].kq
  BY <1>2, <1>5, <1>6
<1> QED
  BY <1>3, <1>4, <1>5, <1>6, <1>7, <1>8, <1>9, <1>10, EndedKeeps

(* The TLS layer reports the end: while connecting it is not acted on.     *)
LEMMA TlsClosedKeeps ==
  ASSUME Inv, NEW w \in Objects, TlsClosed(w), use_ssl' = use_ssl
  PROVE  Inv'
<1>1. /\ ws[w] \in Records /\ files \in [Fds -> Owners]
      /\ Keeps(w, ws[w], files, w \in peerEnded, w \in reused)
  BY BeforeStep
<1>2. /\ use_ssl /\ InUse(ws[w]) /\ ws[w].alive
      /\ files' = files /\ peerEnded' = peerEnded \cup {w} /\ reused' = reused
  BY DEF TlsClosed, Active, InUse
<1>3. ws[w].errors = 0
  BY <1>1, <1>2 DEF Keeps
<1>4. PICK left \in NumberAfterSslRead(ws[w]) :
        LET o == [ws[w] EXCEPT !.ssl = left] IN
        \/ /\ o.state = "CONNECTING"
           /\ ws' = [ws EXCEPT ![w] = o]
        \/ /\ o.state = "CONNECTED"
           /\ \E final \in {"CLOSED"} \cup {f \in {"CLOSING"} : "close_frame" \in Endings} :
                ws' = [ws EXCEPT ![w] = [OnError(o) EXCEPT !.state = final]]
  BY DEF TlsClosed
<1> DEFINE o == [ws[w] EXCEPT !.ssl = left]
<1>5. left \in Fds \cup {-1, -2}
  BY <1>1 DEF NumberAfterSslRead, Records
<1>6. /\ o \in Records /\ o.state = ws[w].state /\ o.fd = ws[w].fd
      /\ o.kq = ws[w].kq /\ o.alive = ws[w].alive /\ o.errors = ws[w].errors
  BY <1>1, <1>5 DEF Records
<1>7. Shrinks(files, files) /\ Adds(w, files, files)
  BY DEF Shrinks, Adds
<1>8. CASE ws' = [ws EXCEPT ![w] = o]
  <2> HIDE DEF o
  <2>1. Keeps(w, o, files', w \in peerEnded', w \in reused')
    BY <1>1, <1>2, <1>6 DEF Keeps, InUse
  <2>2. peerEnded \subseteq peerEnded' /\ reused \subseteq reused'
    BY <1>2
  <2> QED
    BY <1>1, <1>2, <1>6, <1>7, <1>8, <2>1, <2>2, OthersKeep
<1>9. ASSUME NEW final \in {"CLOSED", "CLOSING"},
             ws' = [ws EXCEPT ![w] = [OnError(o) EXCEPT !.state = final]]
      PROVE  Inv'
  <2> DEFINE e == OnError(o)
             p == [e EXCEPT !.state = final]
  <2> HIDE DEF o
  <2>1. e \in Records /\ e.errors = 1 /\ e.alive /\ e.kq = ws[w].kq
    <3>1. /\ e \in Records /\ e.errors = o.errors + 1
          /\ e.alive = o.alive /\ e.kq = o.kq
      BY <1>6, ErrorCounted
    <3> HIDE DEF e
    <3>2. e.errors = 1
      BY <1>3, <1>6, <3>1
    <3>3. e.alive /\ e.kq = ws[w].kq
      BY <1>2, <1>6, <3>1
    <3> QED
      BY <3>1, <3>2, <3>3
  <2>2. ws' = [ws EXCEPT ![w] = p]
    BY <1>9
  <2> HIDE DEF e
  <2>3. /\ p \in Records /\ p.errors = 1 /\ p.alive /\ p.kq = ws[w].kq
        /\ p.state = final
    BY <2>1 DEF Records
  <2>4. ~InUse(p) /\ p.errors <= 1
    BY <2>3 DEF InUse
  <2> HIDE DEF p
  <2> QED
    BY <1>1, <1>2, <1>7, <2>2, <2>3, <2>4, EndedKeeps
<1> QED
  BY <1>4, <1>8, <1>9

(* websocket_destroy: the object's socket is closed if it is in use, and   *)
(* its kqueue in any case.                                                 *)
LEMMA DestroyKeeps ==
  ASSUME Inv, NEW w \in Objects, websocket_destroy(w), use_ssl' = use_ssl
  PROVE  Inv'
<1> DEFINE r == IF ws[w].state \in {"CONNECTED", "CONNECTING"}
                  THEN CloseResult(files, w, ws[w])
                  ELSE [files |-> files, stray |-> FALSE, object |-> ws[w]]
           ssl == r.object.ssl
           kq == r.object.kq
           mid == Closed(r.files, ssl)
<1>1. /\ ws[w] \in Records /\ files \in [Fds -> Owners]
      /\ Keeps(w, ws[w], files, w \in peerEnded, w \in reused)
      /\ ~use_ssl => ~stray /\ Holds(w, ws[w], files)
  BY BeforeStep
<1>2. /\ files' = Closed(mid, kq) /\ ws' = [ws EXCEPT ![w] = Fresh]
      /\ stray' = (stray \/ r.stray \/ ~Owns(r.files, w, ssl))
      /\ peerEnded' = peerEnded /\ reused' = reused
  BY DEF websocket_destroy, io_cleanup, ssl_cleanup
<1>3. /\ r.object \in Records /\ r.files \in [Fds -> Owners] /\ ~InUse(r.object)
      /\ Shrinks(files, r.files)
      /\ Keeps(w, r.object, r.files, w \in peerEnded, w \in reused)
      /\ ~use_ssl =>
           ~r.stray /\ Spares(w, files, r.files) /\ Holds(w, r.object, r.files)
  <2>1. CASE InUse(ws[w])
    <3>1. r = CloseResult(files, w, ws[w])
      BY <2>1 DEF InUse
    <3> HIDE DEF r
    <3> QED
      BY <1>1, <3>1, CloseFacts
  <2>2. CASE ~InUse(ws[w])
    <3>1. r.files = files /\ ~r.stray /\ r.object = ws[w]
      BY <2>2 DEF InUse
    <3> HIDE DEF r
    <3>2. Shrinks(files, files) /\ Spares(w, files, files)
      BY DEF Shrinks, Spares
    <3> QED
      BY <1>1, <2>2, <3>1, <3>2
  <2> QED
    BY <2>1, <2>2
<1> HIDE DEF r
<1>4. ssl \in Fds \cup {-1, -2} /\ kq \in Fds \cup {-1, -2}
  BY <1>3 DEF Records
<1>5. mid \in [Fds -> Owners] /\ Shrinks(r.files, mid)
  BY <1>3, <1>4, ClosingFacts
<1> HIDE DEF mid
<1>6. /\ files' \in [Fds -> Owners] /\ Shrinks(mid, files')
      /\ kq \in Fds => files'[kq] = Nobody
      /\ \A f \in Fds : f # kq => files'[f] = mid[f]
  BY <1>2, <1>4, <1>5, ClosingFacts
<1>7. Nobody # <<w, "socket">> /\ Nobody # <<w, "kqueue">>
  BY NobodyElse
<1>8. \A f \in Fds : files'[f] = r.files[f] \/ files'[f] = Nobody
  BY <1>5, <1>6 DEF Shrinks
<1>9. Keeps(w, Fresh, files', w \in peerEnded', w \in reused')
  <2>1. ASSUME w \notin peerEnded, NEW f \in Fds PROVE files'[f] # <<w, "socket">>
    BY <1>3, <1>7, <1>8, <2>1 DEF Keeps
  <2>2. ASSUME w \notin reused, NEW f \in Fds PROVE files'[f] # <<w, "kqueue">>
    <3>1. r.files[f] = <<w, "kqueue">> => f = kq
      BY <1>3, <2>2 DEF Keeps
    <3> QED
      BY <1>6, <1>7, <1>8, <3>1
  <2>3. ~InUse(Fresh) /\ Fresh.errors <= 1
    BY FreshFacts DEF InUse
  <2> QED
    BY <1>2, <2>1, <2>2, <2>3 DEF Keeps
<1>10. Adds(w, files, files')
  <2>1. Shrinks(files, files')
    BY <1>3, <1>8 DEF Shrinks
  <2> QED
    BY <2>1 DEF Adds, Shrinks, Own
<1>11. ASSUME ~use_ssl
       PROVE  ~stray' /\ Holds(w, Fresh, files') /\ Spares(w, files, files')
  <2>1. ssl = -2 /\ (kq >= 0 => r.files[kq] = <<w, "kqueue">>)
    BY <1>3, <1>11 DEF Holds
  <2>2. mid = r.files
    BY <2>1, ConnectionAssumption DEF mid, Closed, Fds
  <2>3. kq \in Fds => r.files[kq] = <<w, "kqueue">>
    BY <2>1, ConnectionAssumption DEF Fds
  <2>4. Spares(w, files, files')
    <3> SUFFICES ASSUME NEW f \in Fds, files'[f] # files[f] PROVE files[f] \in Own(w)
      BY DEF Spares
    <3>1. CASE r.files[f] # files[f]
      BY <1>3, <1>11, <3>1 DEF Spares
    <3>2. CASE r.files[f] = files[f]
      <4>1. f = kq
        BY <1>6, <2>2, <3>2
      <4> QED
        BY <2>3, <3>2, <4>1 DEF Own
    <3> QED
      BY <3>1, <3>2
  <2>5. Owns(r.files, w, ssl)
    BY <2>1 DEF Owns
  <2>6. ~stray'
    BY <1>1, <1>2, <1>3, <1>11, <2>5
  <2>7. Holds(w, Fresh, files')
    BY FreshFacts DEF Holds, InUse
  <2> QED
    BY <2>4, <2>6, <2>7
<1> QED
  BY <1>2, <1>6, <1>9, <1>10, <1>11, FreshFacts, OthersKeep
-----------------------------------------------------------------------------
(* Before the first object is created nothing is open.                     *)
LEMMA InitInv == Init => Inv
<1> SUFFICES ASSUME Init PROVE Inv
  OBVIOUS
<1>1. /\ use_ssl \in BOOLEAN /\ ws = [w \in Objects |-> Fresh]
      /\ files = [f \in Fds |-> Nobody] /\ ~stray
  BY DEF Init
<1>2. Types
  BY <1>1, FreshFacts DEF Types, Owners
<1>3. ASSUME NEW w \in Objects
      PROVE  /\ Keeps(w, ws[w], files, w \in peerEnded, w \in reused)
             /\ Holds(w, ws[w], files)
  <2>1. Nobody # <<w, "socket">> /\ Nobody # <<w, "kqueue">>
    BY NobodyElse
  <2>2. ws[w] = Fresh /\ \A f \in Fds : files[f] = Nobody
    BY <1>1
  <2>3. ~InUse(Fresh) /\ Fresh.errors <= 1
    BY FreshFacts DEF InUse
  <2>4. Keeps(w, ws[w], files, w \in peerEnded, w \in reused)
    BY <2>1, <2>2, <2>3 DEF Keeps
  <2>5. Holds(w, ws[w], files)
    BY <2>2, <2>3, FreshFacts DEF Holds
  <2> QED
    BY <2>4, <2>5
<1> QED
  BY <1>1, <1>2, <1>3 DEF Inv

(* Every step of every object keeps the invariant.                         *)
LEMMA NextKeeps == Inv /\ [Next]_vars => Inv'
<1> SUFFICES ASSUME Inv, [Next]_vars PROVE Inv'
  OBVIOUS
<1>1. ASSUME Next PROVE Inv'
  <2>1. use_ssl' = use_ssl
    BY <1>1 DEF Next
  <2>2. PICK w \in Objects :
          \/ websocket_create(w) \/ websocket_connect(w)
          \/ ConnectFailsEarly(w) \/ ConnectFails(w) \/ ConnectFailsWithTls(w)
          \/ websocket_close(w) \/ HandshakeComplete(w) \/ HandshakeRejected(w)
          \/ CloseFrame(w) \/ EofEvent(w) \/ TlsClosed(w) \/ websocket_destroy(w)
    BY <1>1 DEF Next
  <2> QED
    BY <2>1, <2>2, CreateKeeps, ConnectKeeps, FailsEarlyKeeps, FailsKeeps,
       FailsWithTlsKeeps, CloseKeeps, CompleteKeeps, RejectedKeeps,
       CloseFrameKeeps, EofKeeps, TlsClosedKeeps, DestroyKeeps
<1>2. CASE UNCHANGED vars
  <2>1. UNCHANGED <<use_ssl, ws, files, stray, peerEnded, reused>>
    BY <1>2 DEF vars
  <2>2. Objects' = Objects /\ Owners' = Owners
    BY <2>1 DEF Objects, Owners
  <2>3. Types'
    BY <2>1, <2>2 DEF Inv, Types, Records, Fds
  <2>4. (\A w \in Objects : Keeps(w, ws[w], files, w \in peerEnded, w \in reused))'
    BY <2>1, <2>2 DEF Inv, Keeps, InUse, Fds
  <2>5. (~use_ssl => ~stray /\ \A w \in Objects : Holds(w, ws[w], files))'
    BY <2>1, <2>2 DEF Inv, Holds, InUse
  <2> QED
    BY <2>3, <2>4, <2>5 DEF Inv
<1> QED
  BY <1>1, <1>2

(* What the invariant says of the kernel's table.                          *)
LEMMA InvLeavesNothing == Inv => NothingLeftOpen /\ ClosedMeansClosed
<1> SUFFICES ASSUME Inv PROVE NothingLeftOpen /\ ClosedMeansClosed
  OBVIOUS
<1>1. NothingLeftOpen
  <2> SUFFICES ASSUME NEW f \in Fds, files[f] # Nobody
               PROVE  LET w == files[f][1] IN
                      \/ ws[w].alive
                      \/ files[f] = <<w, "socket">> /\ w \in peerEnded
                      \/ files[f] = <<w, "kqueue">> /\ w \in reused
    BY DEF NothingLeftOpen
  <2>1. files[f] \in Objects \X {"socket", "kqueue"}
    BY DEF Inv, Types, Owners
  <2>2. PICK w \in Objects, k \in {"socket", "kqueue"} : files[f] = <<w, k>>
    BY <2>1
  <2>3. files[f][1] = w
    BY <2>2
  <2>4. Keeps(w, ws[w], files, w \in peerEnded, w \in reused)
    BY DEF Inv
  <2>5. CASE k = "socket"
    BY <2>2, <2>3, <2>4, <2>5 DEF Keeps
  <2>6. CASE k = "kqueue"
    BY <2>2, <2>3, <2>4, <2>6 DEF Keeps
  <2> QED
    BY <2>2, <2>5, <2>6
<1>2. ClosedMeansClosed
  BY DEF Inv, Keeps, InUse, ClosedMeansClosed
<1> QED
  BY <1>1, <1>2

(* Without TLS, for any number of objects and descriptors: a connection in *)
(* use keeps its own socket and kqueue, whatever the others do.  (With TLS *)
(* the copy of the number in ssl_ctx takes them away.)                     *)
THEOREM PlainConnectionsOwn == Spec => [](~use_ssl => OwnDescriptors)
<1>1. Inv => (~use_ssl => OwnDescriptors)
  BY DEF Inv, Holds, InUse, OwnDescriptors
<1> QED
  BY <1>1, InitInv, NextKeeps, PTL DEF Spec

(* Without TLS websocket_close, websocket_destroy and the cleanup of       *)
(* websocket_connect only ever close numbers of their own object.          *)
THEOREM PlainClosesAreOwn == Spec => []NoStrayClose
<1>1. Inv => NoStrayClose
  BY DEF Inv, NoStrayClose
<1> QED
  BY <1>1, InitInv, NextKeeps, PTL DEF Spec

(* on_error is called at most once per connection, however it ends.        *)
THEOREM OneErrorPerConnection == Spec => []ErrorOnce
<1>1. Inv => ErrorOnce
  BY DEF Inv, Keeps, ErrorOnce
<1> QED
  BY <1>1, InitInv, NextKeeps, PTL DEF Spec

(* websocket_destroy leaves nothing open but sockets of connections the    *)
(* server ended and kqueues of objects that connected again.               *)
THEOREM DestroyLeavesNothing == Spec => []NothingLeftOpen
BY InitInv, NextKeeps, InvLeavesNothing, PTL DEF Spec

(* After websocket_close no socket of the object is open, unless the       *)
(* server ended a connection of it.                                        *)
THEOREM CloseCloses == Spec => []ClosedMeansClosed
BY InitInv, NextKeeps, InvLeavesNothing, PTL DEF Spec
=============================================================================
