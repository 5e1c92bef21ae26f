----------------------------- MODULE MCHandshake -----------------------------
(* Instances of Handshake: thresholds scaled to StatusLen 2, SearchLimit   *)
(* 4, Substantial 8, responses of up to 13 bytes.                          *)
EXTENDS Handshake

Reply(junk, ok, upgrade, connection, blank, total) ==
  [junk |-> junk, http |-> TRUE, ok |-> ok, upgrade |-> upgrade,
   connection |-> connection, blank |-> blank, total |-> total]

(* Accepting, in both header orders, with and without frames behind.       *)
Accepting ==
  UNION {{Reply(0, TRUE, 4, 7, b, b + extra), Reply(0, TRUE, 7, 4, b, b + extra)} :
           b \in {9, 10}, extra \in {0, 3}}
(* A header missing, and refusals of a short and a long text.              *)
Refusing ==
  {Reply(0, TRUE, u, c, 10, 12) : u \in {0, 5}, c \in {0}}
    \cup {Reply(0, FALSE, 0, 0, b, b) : b \in {9, 12}}
(* Something that is not HTTP.                                             *)
Foreign == {[Reply(0, FALSE, 0, 0, 12, 12) EXCEPT !.http = FALSE]}

Usual == Accepting \cup Refusing \cup Foreign
Refused == {Reply(0, FALSE, 0, 0, 6, 6)}
Prefixed == {Reply(2, TRUE, 4, 7, 9, 12)}
=============================================================================
