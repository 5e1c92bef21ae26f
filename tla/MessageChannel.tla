--------------------------- MODULE MessageChannel ---------------------------
(***************************************************************************)
(* What the receive path promises the application: messages 1, 2, ... come *)
(* in, and are handed out in that order, each once.  While the channel is  *)
(* open every message that came in is handed out; once it is closed, those *)
(* that are left may or may not be.                                        *)
(***************************************************************************)
EXTENDS Naturals, Sequences

CONSTANT Messages  \* how many messages are sent

VARIABLES
  in,   \* the messages that have come in
  out,  \* the messages handed out, in order
  open  \* the channel is open

vars == <<in, out, open>>

Init == in \subseteq 1 .. Messages /\ out = << >> /\ open = TRUE

Arrive ==
  /\ in \subseteq in' /\ in' # in /\ in' \subseteq 1 .. Messages
  /\ UNCHANGED <<out, open>>

(* The message handed out may itself be what closes the channel.           *)
HandOut ==
  /\ Len(out) + 1 \in in
  /\ out' = Append(out, Len(out) + 1)
  /\ open' \in {open, FALSE}
  /\ UNCHANGED in

Close ==
  /\ open /\ open' = FALSE
  /\ UNCHANGED <<in, out>>

Next == Arrive \/ HandOut \/ Close

Spec == Init /\ [][Next]_vars

(* The channel owes its messages while it is open.                         *)
Delivers == WF_vars(open /\ HandOut)
=============================================================================
