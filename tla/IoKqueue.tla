------------------------------ MODULE IoKqueue ------------------------------
(***************************************************************************)
(* The socket table of io_kqueue.c and its kqueue registrations, driven by *)
(* one thread: sockets are added and removed, also between two events of   *)
(* one poll; io_poll returns the slot index stored with each registration  *)
(* and renews the one-shot registration; the caller reads the slot it was  *)
(* given.  Slots are numbered from 0 as in the code.                       *)
(*                                                                         *)
(* A kqueue registration is active when it is present and its socket has   *)
(* data (EV_ADD looks at what already waits); EV_ONESHOT removes it when   *)
(* it is returned.                                                         *)
(***************************************************************************)
EXTENDS Integers, Sequences, FiniteSets

CONSTANTS
  Fds,          \* the descriptors of the sockets
  MaxSockets,   \* IO_MAX_SOCKETS
  MaxAdds       \* bound: calls of io_add_socket

ASSUME IoAssumption == MaxSockets \in Nat \ {0} /\ MaxAdds \in Nat

VARIABLES
  open,     \* ctx->kq is a kqueue
  sockets,  \* ctx->sockets[0 .. socket_count - 1].fd
  udata,    \* the kqueue: the slot stored with the registration, -1 if none
  ready,    \* sockets with data to read
  batch,    \* the events of the last io_poll still to handle: slot indices
  held,     \* what io_add_socket returned for each socket
  adds      \* history: calls of io_add_socket

vars == <<open, sockets, udata, ready, batch, held, adds>>

Count == Len(sockets)
InTable(fd) == \E i \in 1 .. Count : sockets[i] = fd
SlotOf(fd) == CHOOSE i \in 0 .. Count - 1 : sockets[i + 1] = fd

Init ==
  /\ open = TRUE
  /\ sockets = << >> /\ udata = [fd \in Fds |-> -1]
  /\ ready = {} /\ batch = << >>
  /\ held = [fd \in Fds |-> -1] /\ adds = 0
-----------------------------------------------------------------------------
(* Variant: off by one at the limit of the table.                          *)
OverfullAdd(fd) ==
  /\ open /\ ~InTable(fd) /\ Count <= MaxSockets
  /\ adds < MaxAdds
  /\ sockets' = Append(sockets, fd)
  /\ udata' = [udata EXCEPT ![fd] = Count]
  /\ held' = [held EXCEPT ![fd] = Count]
  /\ adds' = adds + 1
  /\ UNCHANGED <<open, ready, batch>>

(* A new socket is put behind the others and registered with its slot.     *)
(* Without a kqueue the registration fails and the entry is taken back.    *)
(* That the socket is not in the table yet is not tested: its caller has   *)
(* just opened it.                                                         *)
io_add_socket(fd) ==
  /\ open /\ ~InTable(fd) /\ Count < MaxSockets
  /\ adds < MaxAdds
  /\ sockets' = Append(sockets, fd)
  /\ udata' = [udata EXCEPT ![fd] = Count]
  /\ held' = [held EXCEPT ![fd] = Count]
  /\ adds' = adds + 1
  /\ UNCHANGED <<open, ready, batch>>

(* The table without the socket in slot idx: the last one takes its place. *)
SwapRemove(table, idx) ==
  [i \in 1 .. Len(table) - 1 |-> IF i = idx + 1 THEN table[Len(table)] ELSE table[i]]

(* Variant: the registration of the socket that moved keeps its old slot.  *)
StaleRenewal(reg, table, idx) == reg

(* The registration of the socket that moved is renewed with its new slot. *)
Renewal(reg, table, idx) ==
  IF idx < Len(table) - 1 THEN [reg EXCEPT ![table[Len(table)]] = idx] ELSE reg

io_remove_socket(fd) ==
  /\ InTable(fd)
  /\ LET idx == SlotOf(fd) IN
       /\ udata' = Renewal([udata EXCEPT ![fd] = -1], sockets, idx)
       /\ sockets' = SwapRemove(sockets, idx)
  /\ ready' = ready \ {fd}
  /\ UNCHANGED <<open, batch, held, adds>>

(* Data arrives; the socket is open as long as it is in the table.         *)
Data(fd) ==
  /\ InTable(fd) /\ fd \notin ready
  /\ ready' = ready \cup {fd}
  /\ UNCHANGED <<open, sockets, udata, batch, held, adds>>

Active == {fd \in ready : udata[fd] # -1}
Orders(S) == {q \in [1 .. Cardinality(S) -> S] :
                \A i, j \in 1 .. Cardinality(S) : q[i] = q[j] => i = j}

(* Variant: one-shot registrations are not renewed.                        *)
NoRearm(fired) == [fd \in Fds |-> IF fd \in fired THEN -1 ELSE udata[fd]]

(* Every returned event with a valid slot has its slot's socket registered *)
(* again.                                                                  *)
Rearm(fired) ==
  LET slots == {udata[fd] : fd \in fired} IN
  [fd \in Fds |-> IF \E s \in slots : s < Count /\ sockets[s + 1] = fd
                    THEN SlotOf(fd)
                    ELSE IF fd \in fired THEN -1 ELSE udata[fd]]

(* io_poll: all active registrations, in any order (the event array has    *)
(* room for every socket).                                                 *)
io_poll ==
  /\ batch = << >> /\ Active # {}
  /\ \E q \in Orders(Active) : batch' = [i \in DOMAIN q |-> udata[q[i]]]
  /\ udata' = Rearm(Active)
  /\ UNCHANGED <<open, sockets, ready, held, adds>>

(* The caller handles the next event: io_read on the slot it carries.  An  *)
(* index beyond the table is refused; a socket without data gives EAGAIN;  *)
(* what waits fits into the receive ring.                                  *)
io_read ==
  /\ batch # << >>
  /\ batch' = Tail(batch)
  /\ ready' = IF Head(batch) < Count THEN ready \ {sockets[Head(batch) + 1]} ELSE ready
  /\ UNCHANGED <<open, sockets, udata, held, adds>>

(* The kqueue is closed and with it every registration is gone.  (The loop *)
(* that removes the sockets first passes over the one that moves into the  *)
(* slot just emptied; closing the kqueue covers for it.)  The owner closes *)
(* or has closed the sockets.                                              *)
io_cleanup ==
  /\ open /\ batch = << >>
  /\ open' = FALSE
  /\ sockets' = << >> /\ udata' = [fd \in Fds |-> -1]
  /\ ready' = {}
  /\ UNCHANGED <<batch, held, adds>>

io_init ==
  /\ ~open
  /\ open' = TRUE
  /\ sockets' = << >>
  /\ UNCHANGED <<udata, ready, batch, held, adds>>

Next ==
  \/ \E fd \in Fds : io_add_socket(fd) \/ io_remove_socket(fd) \/ Data(fd)
  \/ io_poll \/ io_read \/ io_cleanup \/ io_init

Spec == Init /\ [][Next]_vars

(* Fairness: the event loop polls and handles what it is given.            *)
FairSpec == Spec /\ WF_vars(io_poll) /\ WF_vars(io_read)
-----------------------------------------------------------------------------
(* A socket is in one slot.                                                *)
TypeOK ==
  /\ Count <= MaxSockets
  /\ \A i \in 1 .. Count : sockets[i] \in Fds
  /\ \A i, j \in 1 .. Count : sockets[i] = sockets[j] => i = j
  /\ udata \in [Fds -> -1 .. MaxSockets - 1] /\ ready \subseteq Fds

(* Every socket in the table is registered with the slot it is in, and no  *)
(* other socket is registered: whatever was added, removed, moved and      *)
(* polled, no socket goes deaf and no event names a wrong slot when it is  *)
(* returned.                                                               *)
RegisteredWithSlot ==
  \A fd \in Fds : IF InTable(fd) THEN udata[fd] = SlotOf(fd) ELSE udata[fd] = -1

(* Data that waits is read, or the socket is removed, also when sockets    *)
(* are removed between two events of one poll.                             *)
Served == \A fd \in Fds : fd \in ready ~> fd \notin ready

(* "Returns socket index on success" (io_kqueue.h): the index io_read and  *)
(* io_write take for this socket.                                          *)
HeldIndexIsSlot == \A fd \in Fds : InTable(fd) => held[fd] = SlotOf(fd)
=============================================================================
