--------------------------- MODULE OpeningProofs ---------------------------
(***************************************************************************)
(* What has to hold before a frame is read, for any number of slots and    *)
(* descriptors and for any set of responses: the registrations of IoKqueue *)
(* follow the socket table, so that data is reported for the slot its      *)
(* socket is in; and the response, however it is cut, is decided as the    *)
(* server meant it (Handshake).  The two modules share no variable.        *)
(***************************************************************************)
EXTENDS IoKqueue, Handshake, SequenceTheorems, FiniteSetTheorems, TLAPS
-----------------------------------------------------------------------------
(* The socket table and its registrations.                                 *)

(* The table: no socket twice, none without a kqueue.                      *)
TableInv ==
  /\ sockets \in Seq(Fds) /\ Count <= MaxSockets
  /\ \A i, j \in 1 .. Count : sockets[i] = sockets[j] => i = j
  /\ ready \subseteq Fds
  /\ open \/ sockets = << >>

(* The registrations, slot by slot: slot i - 1 is stored with the socket   *)
(* at place i, and every registration belongs to a socket of the table.    *)
RegistrationInv ==
  /\ udata \in [Fds -> Int]
  /\ \A i \in 1 .. Count : udata[sockets[i]] = i - 1
  /\ \A fd \in Fds : ~InTable(fd) => udata[fd] = -1

Inv == TableInv /\ RegistrationInv

(* A socket is found in the slot it is in, and nowhere else.               *)
LEMMA FoundInSlot ==
  ASSUME TableInv, NEW i \in 1 .. Count
  PROVE  InTable(sockets[i]) /\ SlotOf(sockets[i]) = i - 1
<1>1. Count \in Nat
  BY DEF TableInv, Count
<1>2. i - 1 \in 0 .. Count - 1 /\ sockets[(i - 1) + 1] = sockets[i]
  BY <1>1
<1>3. \A k \in 0 .. Count - 1 : sockets[k + 1] = sockets[i] => k = i - 1
  <2> TAKE k \in 0 .. Count - 1
  <2> HAVE sockets[k + 1] = sockets[i]
  <2>1. k + 1 \in 1 .. Count
    BY <1>1
  <2>2. k + 1 = i
    BY <2>1 DEF TableInv
  <2> QED
    BY <2>2
<1>4. SlotOf(sockets[i]) = i - 1
  BY <1>2, <1>3 DEF SlotOf
<1> QED
  BY <1>4 DEF InTable

(* The invariant says what the two properties say.                         *)
LEMMA InvImplies == Inv => TypeOK /\ RegisteredWithSlot
<1> SUFFICES ASSUME Inv PROVE TypeOK /\ RegisteredWithSlot
  OBVIOUS
<1>1. Count \in Nat /\ Count <= MaxSockets /\ MaxSockets \in Nat \ {0}
  BY IoAssumption DEF Inv, TableInv, Count
<1>2. \A fd \in Fds : InTable(fd) => udata[fd] = SlotOf(fd) /\ udata[fd] \in 0 .. Count - 1
  <2> SUFFICES ASSUME NEW fd \in Fds, InTable(fd)
               PROVE  udata[fd] = SlotOf(fd) /\ udata[fd] \in 0 .. Count - 1
    OBVIOUS
  <2>1. PICK i \in 1 .. Count : sockets[i] = fd
    BY DEF InTable
  <2>2. SlotOf(fd) = i - 1
    BY <2>1, FoundInSlot DEF Inv
  <2>3. udata[fd] = i - 1
    BY <2>1 DEF Inv, RegistrationInv
  <2> QED
    BY <2>2, <2>3, <1>1
<1>3. \A fd \in Fds : ~InTable(fd) => udata[fd] = -1
  BY DEF Inv, RegistrationInv
<1>4. RegisteredWithSlot
  BY <1>2, <1>3 DEF RegisteredWithSlot
<1>5. \A fd \in Fds : udata[fd] \in -1 .. MaxSockets - 1
  <2> TAKE fd \in Fds
  <2>1. CASE InTable(fd)
    BY <1>1, <1>2, <2>1
  <2>2. CASE ~InTable(fd)
    BY <1>1, <1>3, <2>2
  <2> QED
    BY <2>1, <2>2
<1>6. udata \in [Fds -> -1 .. MaxSockets - 1]
  BY <1>5 DEF Inv, RegistrationInv
<1>7. \A i \in 1 .. Count : sockets[i] \in Fds
  BY DEF Inv, TableInv, Count
<1>8. TypeOK
  BY <1>1, <1>6, <1>7 DEF TypeOK, Inv, TableInv
<1> QED
  BY <1>4, <1>8

(* The empty table, at the start and after io_cleanup.                     *)
LEMMA EmptyTable ==
  ASSUME sockets = << >>, udata = [fd \in Fds |-> -1], ready = {}
  PROVE  Inv
<1>1. Count = 0 /\ sockets \in Seq(Fds)
  BY DEF Count
<1>2. TableInv
  BY <1>1, IoAssumption DEF TableInv
<1>3. RegistrationInv
  BY <1>1 DEF RegistrationInv
<1> QED
  BY <1>2, <1>3 DEF Inv

(* A new socket gets the slot behind the others.                           *)
LEMMA AddKeeps ==
  ASSUME Inv, NEW fd \in Fds, io_add_socket(fd)
  PROVE  Inv'
<1>1. /\ sockets \in Seq(Fds) /\ Count \in Nat /\ Count < MaxSockets
      /\ MaxSockets \in Nat /\ ~InTable(fd) /\ Count = Len(sockets)
  BY IoAssumption DEF Inv, TableInv, Count, io_add_socket
<1>2. /\ sockets' \in Seq(Fds) /\ Count' = Count + 1
      /\ \A i \in 1 .. Count : sockets'[i] = sockets[i]
      /\ sockets'[Count + 1] = fd
  BY <1>1, AppendProperties DEF io_add_socket, Count
<1>3. \A i \in 1 .. Count : sockets[i] # fd
  BY <1>1 DEF InTable
<1>4. \A i, j \in 1 .. Count' : sockets'[i] = sockets'[j] => i = j
  <2> TAKE i, j \in 1 .. Count'
  <2>1. CASE i \in 1 .. Count /\ j \in 1 .. Count
    BY <1>2, <2>1 DEF Inv, TableInv
  <2>2. CASE i = Count + 1 /\ j \in 1 .. Count
    BY <1>2, <1>3, <2>2
  <2>3. CASE i \in 1 .. Count /\ j = Count + 1
    BY <1>2, <1>3, <2>3
  <2>4. CASE i = Count + 1 /\ j = Count + 1
    BY <2>4
  <2> QED
    BY <1>1, <1>2, <2>1, <2>2, <2>3, <2>4
<1>5. TableInv'
  BY <1>1, <1>2, <1>4 DEF TableInv, Inv, io_add_socket
<1>6. /\ udata' \in [Fds -> Int] /\ udata'[fd] = Count
      /\ \A g \in Fds : g # fd => udata'[g] = udata[g]
  BY <1>1 DEF Inv, RegistrationInv, io_add_socket
<1>7. \A i \in 1 .. Count' : udata'[sockets'[i]] = i - 1
  <2> TAKE i \in 1 .. Count'
  <2>1. CASE i \in 1 .. Count
    <3>1. sockets'[i] = sockets[i] /\ sockets[i] # fd /\ sockets[i] \in Fds
      BY <1>1, <1>2, <1>3, <2>1
    <3> QED
      BY <1>6, <2>1, <3>1 DEF Inv, RegistrationInv
  <2>2. CASE i = Count + 1
    BY <1>1, <1>2, <1>6, <2>2
  <2> QED
    BY <1>1, <1>2, <2>1, <2>2
<1>8. \A g \in Fds : ~InTable(g)' => udata'[g] = -1
  <2> SUFFICES ASSUME NEW g \in Fds, ~InTable(g)' PROVE udata'[g] = -1
    OBVIOUS
  <2>1. g # fd
    BY <1>1, <1>2 DEF InTable
  <2>2. ~InTable(g)
    BY <1>1, <1>2 DEF InTable
  <2> QED
    BY <1>6, <2>1, <2>2 DEF Inv, RegistrationInv
<1> QED
  BY <1>5, <1>6, <1>7, <1>8 DEF Inv, RegistrationInv

(* The last socket takes the slot of the one removed, and its registration *)
(* is renewed with it.                                                     *)
LEMMA RemoveKeeps ==
  ASSUME Inv, NEW fd \in Fds, io_remove_socket(fd)
  PROVE  Inv'
<1> DEFINE n == Count
<1>1. sockets \in Seq(Fds) /\ n \in Nat /\ n <= MaxSockets /\ n = Len(sockets)
      /\ MaxSockets \in Nat
  BY IoAssumption DEF Inv, TableInv, Count
<1>2. \A i, j \in 1 .. n : sockets[i] = sockets[j] => i = j
  BY DEF Inv, TableInv
<1>3. PICK p \in 1 .. n : sockets[p] = fd
  BY DEF io_remove_socket, InTable
<1>4. SlotOf(fd) = p - 1 /\ n - 1 \in Nat
  BY <1>1, <1>3, FoundInSlot DEF Inv
<1>5. sockets' = [i \in 1 .. n - 1 |-> IF i = p THEN sockets[n] ELSE sockets[i]]
  <2>1. sockets' = SwapRemove(sockets, p - 1)
    BY <1>4 DEF io_remove_socket
  <2>2. (p - 1) + 1 = p
    BY <1>3
  <2> QED
    BY <1>1, <2>1, <2>2 DEF SwapRemove
<1>6. \A i \in 1 .. n : sockets[i] \in Fds
  BY <1>1
<1>7. sockets' \in Seq(Fds) /\ Count' = n - 1
  <2>1. sockets' \in [1 .. n - 1 -> Fds]
    <3>1. n \in 1 .. n /\ 1 .. n - 1 \subseteq 1 .. n
      BY <1>1, <1>3
    <3>2. \A i \in 1 .. n - 1 : (IF i = p THEN sockets[n] ELSE sockets[i]) \in Fds
      BY <1>6, <3>1
    <3> QED
      BY <1>5, <3>2
  <2> QED
    BY <1>4, <2>1 DEF Count
<1>8. \A i \in 1 .. n - 1 : sockets'[i] = IF i = p THEN sockets[n] ELSE sockets[i]
  BY <1>5
<1>9. \A i, j \in 1 .. n - 1 : sockets'[i] = sockets'[j] => i = j
  BY <1>1, <1>2, <1>3, <1>8
<1>10. TableInv'
  <2>1. open' = open /\ ready' \subseteq ready
    BY DEF io_remove_socket
  <2>2. sockets = << >> => FALSE
    BY <1>1, <1>3
  <2> QED
    BY <1>1, <1>7, <1>9, <2>1, <2>2 DEF TableInv, Inv
<1> DEFINE reg == [udata EXCEPT ![fd] = -1]
<1>11. /\ reg \in [Fds -> Int] /\ reg[fd] = -1
       /\ \A g \in Fds : g # fd => reg[g] = udata[g]
  BY DEF Inv, RegistrationInv
<1>12. udata' = IF p < n THEN [reg EXCEPT ![sockets[n]] = p - 1] ELSE reg
  <2>1. udata' = Renewal(reg, sockets, p - 1)
    BY <1>4 DEF io_remove_socket
  <2>2. (p - 1 < Len(sockets) - 1) = (p < n)
    BY <1>1, <1>3
  <2> QED
    BY <1>1, <2>1, <2>2 DEF Renewal
<1> HIDE DEF reg
<1>13. /\ udata' \in [Fds -> Int]
       /\ p < n => udata'[sockets[n]] = p - 1
       /\ \A g \in Fds : (p < n => g # sockets[n]) => udata'[g] = reg[g]
  BY <1>1, <1>6, <1>11, <1>12
<1>14. \A i \in 1 .. n : udata[sockets[i]] = i - 1
  BY DEF Inv, RegistrationInv
<1>15. \A i \in 1 .. n - 1 : udata'[sockets'[i]] = i - 1
  <2> SUFFICES ASSUME NEW i \in 1 .. n - 1 PROVE udata'[sockets'[i]] = i - 1
    OBVIOUS
  <2>1. CASE i = p
    BY <1>1, <1>8, <1>13, <2>1
  <2>2. CASE i # p
    <3>1. sockets'[i] = sockets[i] /\ sockets[i] \in Fds
      BY <1>1, <1>6, <1>8, <2>2
    <3>2. sockets[i] # fd /\ sockets[i] # sockets[n]
      BY <1>1, <1>2, <1>3, <2>2
    <3>3. udata'[sockets[i]] = udata[sockets[i]]
      BY <1>11, <1>13, <3>1, <3>2
    <3> QED
      BY <1>1, <1>14, <3>1, <3>3
  <2> QED
    BY <2>1, <2>2
<1>16. \A g \in Fds : ~InTable(g)' => udata'[g] = -1
  <2> SUFFICES ASSUME NEW g \in Fds, ~InTable(g)' PROVE udata'[g] = -1
    OBVIOUS
  <2>1. \A i \in 1 .. n - 1 : sockets'[i] # g
    BY <1>7 DEF InTable
  <2>2. p < n => g # sockets[n]
    BY <1>1, <1>3, <1>8, <2>1
  <2>3. udata'[g] = reg[g]
    BY <1>13, <2>2
  <2>4. CASE g = fd
    BY <1>11, <2>3, <2>4
  <2>5. CASE g # fd
    <3>1. \A i \in 1 .. n : sockets[i] # g
      <4> TAKE i \in 1 .. n
      <4>1. CASE i = p
        BY <1>3, <2>5, <4>1
      <4>2. CASE i # p /\ i \in 1 .. n - 1
        BY <1>8, <2>1, <4>2
      <4>3. CASE i # p /\ i = n
        BY <1>1, <1>3, <2>2, <4>3
      <4> QED
        BY <1>1, <4>1, <4>2, <4>3
    <3>2. ~InTable(g)
      BY <3>1 DEF InTable
    <3> QED
      BY <1>11, <2>3, <2>5, <3>2 DEF Inv, RegistrationInv
  <2> QED
    BY <2>4, <2>5
<1>17. RegistrationInv'
  BY <1>7, <1>13, <1>15, <1>16 DEF RegistrationInv
<1> QED
  BY <1>10, <1>17 DEF Inv

(* Every registration io_poll returns is renewed with the slot its socket  *)
(* is in, so a poll leaves the registrations as they were.                 *)
LEMMA PollKeeps == Inv /\ io_poll => Inv'
<1> SUFFICES ASSUME Inv, io_poll PROVE Inv'
  OBVIOUS
<1>1. \A fd \in Fds : udata[fd] = IF InTable(fd) THEN SlotOf(fd) ELSE -1
  BY InvImplies DEF RegisteredWithSlot
<1>2. ASSUME NEW fd \in Fds
      PROVE  Rearm(Active)[fd] = udata[fd]
  <2>1. CASE \E s \in {udata[g] : g \in Active} : s < Count /\ sockets[s + 1] = fd
    <3>1. PICK g \in Active : udata[g] < Count /\ sockets[udata[g] + 1] = fd
      BY <2>1
    <3>2. g \in Fds /\ InTable(g)
      BY <3>1 DEF Active, Inv, TableInv, RegistrationInv
    <3>3. PICK i \in 1 .. Count : sockets[i] = g
      BY <3>2 DEF InTable
    <3>4. udata[g] + 1 = i
      BY <3>3 DEF Inv, RegistrationInv
    <3>5. InTable(fd)
      BY <3>1, <3>3, <3>4 DEF InTable
    <3> QED
      BY <1>1, <2>1, <3>5 DEF Rearm
  <2>2. CASE ~\E s \in {udata[g] : g \in Active} : s < Count /\ sockets[s + 1] = fd
    <3>1. fd \notin Active
      <4> SUFFICES ASSUME fd \in Active PROVE FALSE
        OBVIOUS
      <4>1. InTable(fd)
        BY DEF Active, Inv, RegistrationInv
      <4>2. PICK i \in 1 .. Count : sockets[i] = fd
        BY <4>1 DEF InTable
      <4>3. udata[fd] = i - 1 /\ i \in Int /\ Count \in Nat
        BY <4>2 DEF Inv, RegistrationInv, TableInv, Count
      <4>4. udata[fd] < Count /\ sockets[udata[fd] + 1] = fd
        BY <4>2, <4>3
      <4> QED
        BY <2>2, <4>4
    <3> QED
      BY <2>2, <3>1 DEF Rearm
  <2> QED
    BY <2>1, <2>2
<1>3. udata' = udata
  <2>1. udata' = [fd \in Fds |-> Rearm(Active)[fd]]
    BY DEF io_poll, Rearm
  <2>2. udata = [fd \in Fds |-> udata[fd]]
    BY DEF Inv, RegistrationInv
  <2> QED
    BY <1>2, <2>1, <2>2
<1>4. UNCHANGED <<open, sockets, ready>>
  BY DEF io_poll
<1> QED
  BY <1>3, <1>4 DEF Inv, TableInv, RegistrationInv, Count, InTable
-----------------------------------------------------------------------------
(* Every step keeps the table and its registrations together.              *)
LEMMA NextKeeps == Inv /\ [Next]_vars => Inv'
<1> SUFFICES ASSUME Inv, [Next]_vars PROVE Inv'
  OBVIOUS
<1>1. ASSUME NEW fd \in Fds, io_add_socket(fd) PROVE Inv'
  BY <1>1, AddKeeps
<1>2. ASSUME NEW fd \in Fds, io_remove_socket(fd) PROVE Inv'
  BY <1>2, RemoveKeeps
<1>3. CASE io_poll
  BY <1>3, PollKeeps
<1>4. ASSUME UNCHANGED <<open, sockets, udata>>, ready' \subseteq Fds PROVE Inv'
  BY <1>4 DEF Inv, TableInv, RegistrationInv, Count, InTable
<1>5. ASSUME NEW fd \in Fds, Data(fd) PROVE Inv'
  BY <1>4, <1>5 DEF Data, Inv, TableInv
<1>6. CASE io_read
  <2>1. ready' \subseteq ready
    BY <1>6 DEF io_read
  <2> QED
    BY <1>4, <1>6, <2>1 DEF io_read, Inv, TableInv
<1>7. CASE io_cleanup
  <2>1. sockets' = << >> /\ udata' = [fd \in Fds |-> -1] /\ ready' = {}
    BY <1>7 DEF io_cleanup
  <2>2. (sockets = << >> /\ udata = [fd \in Fds |-> -1] /\ ready = {} => Inv)'
    BY EmptyTable, PTL
  <2> QED
    BY <2>1, <2>2
<1>8. CASE io_init
  <2>1. sockets = << >> /\ sockets' = sockets /\ udata' = udata /\ ready' = ready /\ open'
    BY <1>8 DEF io_init, Inv, TableInv
  <2> QED
    BY <2>1 DEF Inv, TableInv, RegistrationInv, Count, InTable
<1>9. CASE UNCHANGED vars
  BY <1>4, <1>9 DEF vars, Inv, TableInv
<1> QED
  BY <1>1, <1>2, <1>3, <1>5, <1>6, <1>7, <1>8, <1>9 DEF Next

(* The table never has two entries for a socket and never overflows, for   *)
(* any IO_MAX_SOCKETS.                                                     *)
THEOREM TableStaysSound == Spec => []TypeOK
<1>1. Init => Inv
  BY EmptyTable DEF Init
<1>2. Inv => TypeOK
  BY InvImplies
<1> QED
  BY <1>1, <1>2, NextKeeps, PTL DEF Spec

(* Whatever is added, removed, moved and polled, every socket of the table *)
(* stays registered with the slot it is in, and no other is registered.    *)
THEOREM RegistrationsFollow == Spec => []RegisteredWithSlot
<1>1. Init => Inv
  BY EmptyTable DEF Init
<1>2. Inv => RegisteredWithSlot
  BY InvImplies
<1> QED
  BY <1>1, <1>2, NextKeeps, PTL DEF Spec
-----------------------------------------------------------------------------
(* A socket that has data is registered, so the next poll returns it: the  *)
(* part of Served that is not about fairness.                              *)
WaitingSeen == ready = Active

(* A poll returns the slot of each socket that has data, each once, and no *)
(* other slot.                                                             *)
PollReports ==
  io_poll =>
    /\ {batch'[i] : i \in DOMAIN batch'} = {SlotOf(fd) : fd \in ready}
    /\ \A i, j \in DOMAIN batch' : batch'[i] = batch'[j] => i = j

(* Only sockets of the table have data.                                    *)
WaitingInv == Inv /\ \A fd \in ready : InTable(fd)

(* A socket leaves the table only without data, or takes it along.         *)
LEMMA WaitingKeeps == WaitingInv /\ [Next]_vars => WaitingInv'
<1> SUFFICES ASSUME WaitingInv, [Next]_vars PROVE \A fd \in ready' : InTable(fd)'
  BY NextKeeps DEF WaitingInv
<1>1. Inv /\ sockets \in Seq(Fds) /\ Count \in Nat /\ \A fd \in ready : InTable(fd)
  BY DEF WaitingInv, Inv, TableInv, Count
<1>2. ASSUME sockets' = sockets, ready' \subseteq ready
      PROVE  \A fd \in ready' : InTable(fd)'
  BY <1>1, <1>2 DEF InTable, Count
<1>3. ASSUME NEW g \in Fds, io_add_socket(g) PROVE \A fd \in ready' : InTable(fd)'
  <2>1. /\ Count' = Count + 1 /\ \A i \in 1 .. Count : sockets'[i] = sockets[i]
        /\ ready' = ready
    BY <1>1, <1>3, AppendProperties DEF io_add_socket, Count
  <2> QED
    BY <1>1, <2>1 DEF InTable
<1>4. ASSUME NEW g \in Fds, io_remove_socket(g) PROVE \A fd \in ready' : InTable(fd)'
  <2> SUFFICES ASSUME NEW fd \in ready' PROVE InTable(fd)'
    OBVIOUS
  <2>1. fd \in ready /\ fd # g
    BY <1>4 DEF io_remove_socket
  <2>2. PICK i \in 1 .. Count : sockets[i] = fd
    BY <1>1, <2>1 DEF InTable
  <2>3. PICK p \in 1 .. Count : sockets[p] = g
    BY <1>4 DEF io_remove_socket, InTable
  <2>4. SlotOf(g) = p - 1
    BY <1>1, <2>3, FoundInSlot DEF Inv
  <2>5. sockets' = [k \in 1 .. Count - 1 |-> IF k = p THEN sockets[Count] ELSE sockets[k]]
    <3>1. sockets' = SwapRemove(sockets, p - 1) /\ (p - 1) + 1 = p
      BY <1>4, <2>3, <2>4 DEF io_remove_socket
    <3> QED
      BY <3>1 DEF SwapRemove, Count
  <2>6. Count' = Count - 1
    <3>1. Count - 1 \in Nat
      BY <1>1, <2>3
    <3>2. sockets' \in Seq(Fds) /\ DOMAIN sockets' = 1 .. Count - 1
      BY <1>1, <1>4, <2>5, RemoveKeeps DEF Inv, TableInv
    <3> QED
      BY <3>1, <3>2 DEF Count
  <2>7. i # p
    BY <2>1, <2>2, <2>3
  <2>8. CASE i < Count
    BY <1>1, <2>2, <2>5, <2>6, <2>7, <2>8 DEF InTable
  <2>9. CASE i = Count
    BY <1>1, <2>2, <2>3, <2>5, <2>6, <2>7, <2>9 DEF InTable
  <2> QED
    BY <1>1, <2>8, <2>9
<1>5. ASSUME NEW g \in Fds, Data(g) PROVE \A fd \in ready' : InTable(fd)'
  BY <1>1, <1>5 DEF Data, InTable, Count
<1>6. CASE io_poll
  BY <1>2, <1>6 DEF io_poll
<1>7. CASE io_read
  BY <1>2, <1>7 DEF io_read
<1>8. CASE io_cleanup
  BY <1>8 DEF io_cleanup
<1>9. CASE io_init
  <2>1. sockets = << >> /\ sockets' = sockets /\ ready' = ready
    BY <1>1, <1>9 DEF io_init, Inv, TableInv
  <2> QED
    BY <1>2, <2>1
<1>10. CASE UNCHANGED vars
  BY <1>2, <1>10 DEF vars
<1> QED
  BY <1>3, <1>4, <1>5, <1>6, <1>7, <1>8, <1>9, <1>10 DEF Next

(* Whoever has data is registered.                                         *)
LEMMA WaitingRegistered == WaitingInv => WaitingSeen
<1> SUFFICES ASSUME WaitingInv, NEW fd \in ready PROVE udata[fd] # -1
  BY DEF WaitingSeen, Active
<1>1. PICK i \in 1 .. Count : sockets[i] = fd
  BY DEF WaitingInv, InTable
<1>2. udata[fd] = i - 1 /\ Count \in Nat
  BY <1>1 DEF WaitingInv, Inv, TableInv, RegistrationInv, Count
<1> QED
  BY <1>2

(* A set of sockets of the table is finite: an order of it lists them all. *)
LEMMA OrdersListAll ==
  ASSUME WaitingInv, NEW q \in Orders(ready)
  PROVE  /\ DOMAIN q = 1 .. Cardinality(ready)
         /\ \A i \in DOMAIN q : q[i] \in ready
         /\ \A i, j \in DOMAIN q : q[i] = q[j] => i = j
         /\ \A fd \in ready : \E i \in DOMAIN q : q[i] = fd
<1> DEFINE n == Cardinality(ready)
<1>1. Count \in Nat /\ \A fd \in ready : InTable(fd)
  BY DEF WaitingInv, Inv, TableInv, Count
<1>2. IsFiniteSet(ready)
  <2> DEFINE used == {i \in 1 .. Count : sockets[i] \in ready}
             at == [i \in used |-> sockets[i]]
  <2>1. IsFiniteSet(used)
    <3>1. IsFiniteSet(1 .. Count)
      BY <1>1, FS_Interval
    <3> QED
      BY <3>1, FS_Subset, Zenon
  <2>2. at \in Surjection(used, ready)
    BY <1>1 DEF Surjection, InTable
  <2> QED
    BY <2>1, <2>2, FS_Surjection
<1>3. n \in Nat
  BY <1>2, FS_CardinalityType
<1>4. q \in [1 .. n -> ready] /\ \A i, j \in 1 .. n : q[i] = q[j] => i = j
  BY DEF Orders
<1>5. q \in Injection(1 .. n, ready)
  BY <1>4 DEF Injection, IsInjective
<1>6. Cardinality(1 .. n) = n
  <2>1. Cardinality(1 .. n) = IF 1 > n THEN 0 ELSE n - 1 + 1
    BY <1>3, FS_Interval
  <2> QED
    BY <1>3, <2>1
<1>7. q \in Surjection(1 .. n, ready)
  BY <1>2, <1>5, <1>6, FS_Injection
<1> QED
  BY <1>4, <1>7 DEF Surjection

(* What a poll returns.                                                    *)
LEMMA PollIsExact == WaitingInv => PollReports
<1> SUFFICES ASSUME WaitingInv, io_poll
             PROVE  /\ {batch'[i] : i \in DOMAIN batch'} = {SlotOf(fd) : fd \in ready}
                    /\ \A i, j \in DOMAIN batch' : batch'[i] = batch'[j] => i = j
  BY DEF PollReports
<1>1. Active = ready
  BY WaitingRegistered DEF WaitingSeen
<1>2. PICK q \in Orders(ready) : batch' = [i \in DOMAIN q |-> udata[q[i]]]
  BY <1>1 DEF io_poll
<1>3. /\ \A i \in DOMAIN q : q[i] \in ready
      /\ \A i, j \in DOMAIN q : q[i] = q[j] => i = j
      /\ \A fd \in ready : \E i \in DOMAIN q : q[i] = fd
  BY OrdersListAll
<1>4. ready \subseteq Fds
  BY DEF WaitingInv, Inv, TableInv
<1>5. \A fd \in ready : udata[fd] = SlotOf(fd)
  BY <1>4, InvImplies DEF WaitingInv, RegisteredWithSlot
<1>6. DOMAIN batch' = DOMAIN q /\ \A i \in DOMAIN q : batch'[i] = SlotOf(q[i])
  BY <1>2, <1>3, <1>5
<1>7. {batch'[i] : i \in DOMAIN batch'} = {SlotOf(fd) : fd \in ready}
  BY <1>3, <1>6
<1>8. \A f, g \in ready : SlotOf(f) = SlotOf(g) => f = g
  <2> SUFFICES ASSUME NEW f \in ready, NEW g \in ready, SlotOf(f) = SlotOf(g) PROVE f = g
    OBVIOUS
  <2>1. PICK i \in 1 .. Count : sockets[i] = f
    BY DEF WaitingInv, InTable
  <2>2. PICK j \in 1 .. Count : sockets[j] = g
    BY DEF WaitingInv, InTable
  <2>3. SlotOf(f) = i - 1 /\ SlotOf(g) = j - 1
    BY <2>1, <2>2, FoundInSlot DEF WaitingInv, Inv
  <2>4. i = j
    <3>1. i \in Int /\ j \in Int
      BY DEF WaitingInv, Inv, TableInv, Count
    <3>2. i - 1 = j - 1
      BY <2>3, Zenon
    <3> QED
      BY <3>1, <3>2
  <2> QED
    BY <2>1, <2>2, <2>4
<1> QED
  BY <1>3, <1>6, <1>7, <1>8

(* The empty table has no data.                                            *)
LEMMA NothingWaitsAtFirst == Init => WaitingInv
<1>1. Init => Inv
  BY EmptyTable DEF Init
<1> QED
  BY <1>1 DEF Init, WaitingInv

(* No socket with data goes unseen, whatever was added, removed and moved  *)
(* since it was registered.                                                *)
THEOREM NoSocketUnseen == Spec => []WaitingSeen
  BY NothingWaitsAtFirst, WaitingKeeps, WaitingRegistered, PTL DEF Spec

(* io_poll reports each socket that has data once, by the slot that        *)
(* io_read finds it in, and reports nothing else.                          *)
THEOREM PollsReportWaiting == Spec => [][PollReports]_vars
<1>1. WaitingInv /\ [Next]_vars => [PollReports]_vars
  BY PollIsExact
<1> QED
  BY <1>1, NothingWaitsAtFirst, WaitingKeeps, PTL DEF Spec
-----------------------------------------------------------------------------
(* The decision on the response.                                           *)

(* What the code is made for: nothing precedes "HTTP", the header fits     *)
(* into the buffer that takes it from the ring, and no read ends between   *)
(* the headers and the blank line.                                         *)
Orderly ==
  /\ ~CutInBlank
  /\ \A r \in Responses : r.junk = 0 /\ r.blank <= DummyLen

(* As in the code, where they are 100, 12 and 200.                         *)
Thresholds == SearchLimit + StatusLen <= Substantial

Opened == state \in {"CONNECTED", "CLOSING"}

(* A read left the response undecided.                                     *)
Undecided(n) ==
  \/ parse_handshake_response(n) = "more"
  \/ parse_handshake_response(n) = "bad" /\ ~Bad(n)

(* The response gave a reason to end the attempt.                          *)
Faulty == ~Acceptable \/ resp.junk >= SearchLimit \/ ~Thresholds

(* While connecting, the ring holds what the last read left undecided.     *)
DecisionInv ==
  /\ resp \in Responses /\ len \in Nat /\ len <= resp.total
  /\ state \in {"CONNECTING", "CONNECTED", "CLOSING", "CLOSED"}
  /\ errors = IF state = "CLOSED" THEN 1 ELSE 0
  /\ state = "CONNECTING" /\ len > 0 => Undecided(len)
  /\ Opened => Acceptable /\ len >= resp.junk + HeadersEnd
  /\ Opened /\ Orderly => consumed = FramesBegin
  /\ Opened /\ resp.junk = 0 /\ resp.blank <= DummyLen => consumed \in {0, FramesBegin}
  /\ state = "CLOSED" => fin \/ Faulty

(* Max and Min of two numbers.                                             *)
LEMMA TwoNumbers ==
  ASSUME NEW a \in Nat, NEW b \in Nat
  PROVE  /\ Max({a, b}) = IF a >= b THEN a ELSE b
         /\ Min({a, b}) = IF a <= b THEN a ELSE b
<1>1. ASSUME NEW x \in {a, b}, \A y \in {a, b} : x >= y
      PROVE  x = IF a >= b THEN a ELSE b
  BY <1>1
<1>2. ASSUME NEW x \in {a, b}, \A y \in {a, b} : x =< y
      PROVE  x = IF a <= b THEN a ELSE b
  BY <1>2
<1>3. \E x \in {a, b} : \A y \in {a, b} : x >= y
  BY DEF Max
<1>4. \E x \in {a, b} : \A y \in {a, b} : x =< y
  BY DEF Min
<1>5. Max({a, b}) \in {a, b} /\ \A y \in {a, b} : Max({a, b}) >= y
  BY <1>3 DEF Max
<1>6. Min({a, b}) \in {a, b} /\ \A y \in {a, b} : Min({a, b}) =< y
  BY <1>4 DEF Min
<1> QED
  BY <1>1, <1>2, <1>5, <1>6

(* A response and the limits are numbers.                                  *)
LEMMA ResponseFacts ==
  ASSUME NEW r \in Responses
  PROVE  /\ {r.junk, r.upgrade, r.connection, r.blank, r.total} \subseteq Nat
         /\ r.http \in BOOLEAN /\ r.ok \in BOOLEAN
         /\ r.total >= r.junk + r.blank
         /\ {StatusLen, SearchLimit, Substantial, CopyLen, DummyLen} \subseteq Nat
  BY HandshakeAssumption DEF Response

(* The response is accepted only when both headers are in what was read.   *)
LEMMA GoodIsAccepted ==
  ASSUME resp \in Responses, NEW n \in Nat, parse_handshake_response(n) = "good"
  PROVE  /\ Acceptable /\ n >= resp.junk + HeadersEnd
<1>1. HttpFound(n) /\ resp.ok /\ Seen(n, resp.upgrade) /\ Seen(n, resp.connection)
  BY DEF parse_handshake_response
<1>2. /\ resp.junk \in Nat /\ resp.upgrade \in Nat /\ resp.connection \in Nat
      /\ CopyLen \in Nat /\ StatusLen \in Nat
  BY ResponseFacts
<1>3. n - resp.junk \in Nat
  BY <1>1, <1>2 DEF HttpFound
<1>4. /\ resp.upgrade <= n - resp.junk /\ resp.connection <= n - resp.junk
      /\ resp.upgrade > 0 /\ resp.connection > 0
  <2>1. Min({n - resp.junk, CopyLen}) = IF n - resp.junk <= CopyLen THEN n - resp.junk ELSE CopyLen
    BY <1>2, <1>3, TwoNumbers, Zenon
  <2> QED
    BY <1>1, <1>2, <1>3, <2>1 DEF Seen
<1>5. Acceptable
  BY <1>1, <1>4 DEF Acceptable, HttpFound
<1>6. n >= resp.junk + HeadersEnd
  BY <1>2, <1>4, TwoNumbers DEF HeadersEnd
<1> QED
  BY <1>5, <1>6

(* What is found bad is no acceptable response, or one that begins too far *)
(* behind: enough bytes for an error are enough to see its status.         *)
LEMMA BadIsFaulty ==
  ASSUME resp \in Responses, NEW n \in Nat, parse_handshake_response(n) = "bad"
  PROVE  Faulty
<1>1. /\ resp.junk \in Nat /\ SearchLimit \in Nat /\ StatusLen \in Nat /\ Substantial \in Nat
  BY ResponseFacts
<1>2. CASE HttpFound(n)
  BY <1>2 DEF parse_handshake_response, Faulty, Acceptable
<1>3. CASE ~HttpFound(n)
  <2>1. n > Substantial
    BY <1>3 DEF parse_handshake_response
  <2>2. ~resp.http \/ resp.junk >= SearchLimit \/ n < resp.junk + StatusLen
    BY <1>1, <1>3 DEF HttpFound
  <2> QED
    BY <1>1, <2>1, <2>2 DEF Faulty, Acceptable, Thresholds
<1> QED
  BY <1>2, <1>3

(* parse_handshake_response has three results.                             *)
LEMMA VerdictCases ==
  ASSUME NEW n
  PROVE  parse_handshake_response(n) \in {"good", "bad", "more"}
  BY DEF parse_handshake_response

(* What a successful read consumes: the text with its blank line, or       *)
(* nothing when that is not there yet.                                     *)
LEMMA ConsumesHeader ==
  ASSUME resp \in Responses, resp.junk = 0, resp.blank <= DummyLen, NEW n \in Nat
  PROVE  Consume(n) = IF n >= FramesBegin THEN FramesBegin ELSE 0
<1>1. resp.blank \in Nat /\ DummyLen \in Nat
  BY ResponseFacts
<1>2. Min({resp.blank, DummyLen}) = resp.blank
  BY <1>1, TwoNumbers, Zenon
<1>3. FramesBegin = resp.blank
  BY <1>1 DEF FramesBegin
<1> QED
  BY <1>1, <1>2, <1>3 DEF Consume, FramesBegin

(* Before the first byte.                                                  *)
LEMMA HandshakeStarts == HandshakeInit => DecisionInv
<1> SUFFICES ASSUME HandshakeInit PROVE DecisionInv
  OBVIOUS
<1>1. resp.total \in Nat
  BY ResponseFacts DEF HandshakeInit
<1> QED
  BY <1>1 DEF HandshakeInit, DecisionInv, Opened

(* One event while connecting.                                             *)
LEMMA ReadDecides ==
  ASSUME DecisionInv, NEW n \in 1 .. resp.total, websocket_process(n)
  PROVE  DecisionInv'
<1>1. /\ resp \in Responses /\ resp' = resp /\ fin' = fin
      /\ n \in Nat /\ n > 0 /\ n <= resp.total /\ resp.total \in Nat
      /\ state = "CONNECTING" /\ errors = 0
  BY ResponseFacts DEF DecisionInv, websocket_process
<1>2. CASE parse_handshake_response(n) = "good"
  <2>1. PICK m \in n .. resp.total :
          /\ len' = m /\ state' \in FirstFrames(Consume(n), m)
          /\ consumed' = Consume(n) /\ errors' = errors
    BY <1>2 DEF websocket_process
  <2>2. state' \in {"CONNECTED", "CLOSING"}
    BY <2>1 DEF FirstFrames
  <2>3. Acceptable /\ n >= resp.junk + HeadersEnd
    BY <1>1, <1>2, GoodIsAccepted
  <2>4. m \in Nat /\ m >= n /\ m <= resp.total /\ resp.junk + HeadersEnd \in Nat
    <3>1. resp.junk \in Nat /\ resp.upgrade \in Nat /\ resp.connection \in Nat
      BY <1>1, ResponseFacts
    <3>2. HeadersEnd \in Nat
      BY <3>1, TwoNumbers DEF HeadersEnd
    <3> QED
      BY <1>1, <2>1, <3>1, <3>2
  <2>5. Acceptable' /\ len' >= (resp.junk + HeadersEnd)'
    <3>1. len' >= resp.junk + HeadersEnd
      BY <1>1, <2>1, <2>3, <2>4
    <3> QED
      BY <1>1, <2>3, <3>1 DEF Acceptable, HeadersEnd
  <2>6. Orderly => consumed' = FramesBegin'
    <3> SUFFICES ASSUME Orderly PROVE consumed' = FramesBegin'
      OBVIOUS
    <3>1. n >= FramesBegin
      <4>1. n < resp.junk + HeadersEnd \/ n >= FramesBegin
        BY <2>3 DEF websocket_process, Orderly
      <4> QED
        BY <1>1, <2>3, <2>4, <4>1
    <3>2. resp.junk = 0 /\ resp.blank <= DummyLen
      BY <1>1 DEF Orderly
    <3> QED
      BY <1>1, <2>1, <3>1, <3>2, ConsumesHeader DEF FramesBegin
  <2>7. resp.junk = 0 /\ resp.blank <= DummyLen => consumed' \in {0, FramesBegin'}
    BY <1>1, <2>1, ConsumesHeader DEF FramesBegin
  <2> QED
    BY <1>1, <2>1, <2>2, <2>4, <2>5, <2>6, <2>7 DEF DecisionInv, Opened
<1>3. CASE parse_handshake_response(n) = "bad" /\ Bad(n)
  <2>1. errors' = errors + 1 /\ state' = "CLOSED" /\ len' = n
    BY <1>3 DEF websocket_process, Undecided
  <2>2. Faulty'
    <3>1. Faulty
      BY <1>1, <1>3, BadIsFaulty
    <3> QED
      BY <1>1, <3>1 DEF Faulty, Acceptable
  <2> QED
    BY <1>1, <2>1, <2>2 DEF DecisionInv, Opened
<1>4. CASE Undecided(n)
  <2>1. UNCHANGED <<consumed, state, errors>> /\ len' = n
    BY <1>4 DEF websocket_process, Undecided
  <2>2. Undecided(n)'
    BY <1>1, <1>4 DEF Undecided, parse_handshake_response, Bad, HttpFound, Seen
  <2> QED
    BY <1>1, <2>1, <2>2 DEF DecisionInv, Opened
<1> QED
  BY <1>2, <1>3, <1>4, VerdictCases DEF Undecided

(* Reads, the server's close and its event keep the invariant.             *)
LEMMA HandshakeKeeps == DecisionInv /\ [HandshakeNext]_handshakeVars => DecisionInv'
<1> SUFFICES ASSUME DecisionInv, [HandshakeNext]_handshakeVars PROVE DecisionInv'
  OBVIOUS
<1>1. ASSUME UNCHANGED <<resp, len, consumed, state, errors>>, fin => fin'
      PROVE  DecisionInv'
  <2>1. Undecided(len)' = Undecided(len)
    BY <1>1 DEF Undecided, parse_handshake_response, Bad, HttpFound, Seen
  <2>2. Faulty' = Faulty /\ Acceptable' = Acceptable /\ HeadersEnd' = HeadersEnd
        /\ FramesBegin' = FramesBegin /\ Opened' = Opened
    BY <1>1 DEF Faulty, Acceptable, HeadersEnd, FramesBegin, Opened
  <2> QED
    BY <1>1, <2>1, <2>2 DEF DecisionInv
<1>2. CASE Read
  BY <1>2, ReadDecides DEF Read
<1>3. CASE PeerClose
  BY <1>1, <1>3 DEF PeerClose
<1>4. CASE EofEvent
  <2>1. /\ errors = 0 /\ errors' = 1 /\ state' = "CLOSED" /\ fin'
        /\ UNCHANGED <<resp, len>>
    BY <1>4 DEF EofEvent, DecisionInv
  <2> QED
    BY <2>1 DEF DecisionInv, Opened
<1>5. CASE UNCHANGED handshakeVars
  BY <1>1, <1>5 DEF handshakeVars
<1> QED
  BY <1>2, <1>3, <1>4, <1>5 DEF HandshakeNext

(* A connection is used only after status 101 and both headers, however    *)
(* the response was cut.                                                   *)
THEOREM OpensOnlyIfAccepted == HandshakeSpec => []ConnectedOnlyIfAccepted
<1>1. DecisionInv => ConnectedOnlyIfAccepted
  BY DEF DecisionInv, Opened, ConnectedOnlyIfAccepted
<1> QED
  BY <1>1, HandshakeStarts, HandshakeKeeps, PTL DEF HandshakeSpec

(* Frames are read from the first byte behind the blank line.              *)
THEOREM FramesFollowHeaders ==
  ASSUME Orderly PROVE HandshakeSpec => []FramesAfterHeaders
<1>1. DecisionInv => FramesAfterHeaders
  BY DEF DecisionInv, Opened, FramesAfterHeaders
<1> QED
  BY <1>1, HandshakeStarts, HandshakeKeeps, PTL DEF HandshakeSpec

(* Wherever the response is cut, the read pointer is either behind its     *)
(* blank line or still in front of its text when the connection is open:   *)
(* never within it.                                                        *)
THEOREM TextIsTakenWhole ==
  HandshakeSpec =>
    [](Opened /\ resp.junk = 0 /\ resp.blank <= DummyLen => consumed \in {0, FramesBegin})
<1>1. DecisionInv =>
        (Opened /\ resp.junk = 0 /\ resp.blank <= DummyLen => consumed \in {0, FramesBegin})
  BY DEF DecisionInv
<1> QED
  BY <1>1, HandshakeStarts, HandshakeKeeps, PTL DEF HandshakeSpec

(* on_error has been called once when the attempt has ended, and a reason  *)
(* was there: the server closed, or its response was faulty.               *)
RejectedRightly ==
  /\ errors = IF state = "CLOSED" THEN 1 ELSE 0
  /\ state = "CLOSED" => fin \/ Faulty

(* A server that accepts is not turned down because of where its response  *)
(* was cut, and no attempt is reported as failed twice.                    *)
THEOREM NoFalseRejection == HandshakeSpec => []RejectedRightly
<1>1. DecisionInv => RejectedRightly
  BY DEF DecisionInv, RejectedRightly
<1> QED
  BY <1>1, HandshakeStarts, HandshakeKeeps, PTL DEF HandshakeSpec

(* Everything has been read and the decision is taken: for a server that   *)
(* accepts, if the headers are where they are looked for; for one that     *)
(* refuses, if it says much.                                               *)
DecidedWhenRead ==
  len = resp.total =>
    /\ Acceptable /\ resp.junk < SearchLimit /\ HeadersEnd <= CopyLen
       /\ resp.junk + HeadersEnd <= len /\ resp.junk + StatusLen <= len
         => state # "CONNECTING"
    /\ resp.http /\ ~resp.ok /\ len > Substantial /\ resp.junk + 4 <= len
         => state = "CLOSED"

(* What was left undecided is not the whole of such a response.            *)
LEMMA NothingUndecided == DecisionInv => DecidedWhenRead
<1> SUFFICES ASSUME DecisionInv, len = resp.total PROVE DecidedWhenRead
  BY DEF DecidedWhenRead
<1>1. /\ resp \in Responses /\ len \in Nat
      /\ resp.junk \in Nat /\ resp.upgrade \in Nat /\ resp.connection \in Nat
      /\ CopyLen \in Nat /\ StatusLen \in Nat /\ Substantial \in Nat
  BY ResponseFacts DEF DecisionInv
<1>2. ASSUME Acceptable, resp.junk < SearchLimit, HeadersEnd <= CopyLen,
             resp.junk + HeadersEnd <= len, resp.junk + StatusLen <= len
      PROVE  state # "CONNECTING"
  <2>1. HttpFound(len) /\ resp.ok
    BY <1>1, <1>2 DEF HttpFound, Acceptable
  <2>2. /\ resp.upgrade <= HeadersEnd /\ resp.connection <= HeadersEnd
        /\ resp.upgrade > 0 /\ resp.connection > 0 /\ HeadersEnd \in Nat
    BY <1>1, <1>2, TwoNumbers DEF HeadersEnd, Acceptable
  <2>3. len - resp.junk \in Nat /\ HeadersEnd <= len - resp.junk /\ len > 0
    BY <1>1, <1>2, <2>2
  <2>4. HeadersEnd <= Min({len - resp.junk, CopyLen}) /\ Min({len - resp.junk, CopyLen}) \in Nat
    <3>1. Min({len - resp.junk, CopyLen}) =
            IF len - resp.junk <= CopyLen THEN len - resp.junk ELSE CopyLen
      BY <1>1, <2>3, TwoNumbers, Zenon
    <3> QED
      BY <1>1, <1>2, <2>3, <3>1
  <2>5. Seen(len, resp.upgrade) /\ Seen(len, resp.connection)
    BY <1>1, <2>2, <2>4 DEF Seen
  <2>6. parse_handshake_response(len) = "good"
    BY <2>1, <2>5 DEF parse_handshake_response
  <2>7. ~Undecided(len)
    BY <2>6 DEF Undecided
  <2> QED
    BY <2>3, <2>7 DEF DecisionInv
<1>3. ASSUME resp.http, ~resp.ok, len > Substantial, resp.junk + 4 <= len
      PROVE  state = "CLOSED"
  <2>1. parse_handshake_response(len) = "bad"
    BY <1>3 DEF parse_handshake_response
  <2>2. Bad(len) /\ len > 0
    BY <1>1, <1>3 DEF Bad
  <2>3. ~Undecided(len) /\ ~Acceptable
    BY <1>3, <2>1, <2>2 DEF Undecided, Acceptable
  <2> QED
    BY <2>2, <2>3 DEF DecisionInv, Opened
<1> QED
  BY <1>2, <1>3 DEF DecidedWhenRead

(* websocket_process does not wait for more of a response that is all      *)
(* there, however it was cut, if the server accepts or refuses at length:  *)
(* the part of Decided that is not about fairness.  (After a short refusal *)
(* it does wait, see RefusalReported.)                                     *)
THEOREM NoResponseForgotten == HandshakeSpec => []DecidedWhenRead
  BY HandshakeStarts, HandshakeKeeps, NothingUndecided, PTL DEF HandshakeSpec
=============================================================================
