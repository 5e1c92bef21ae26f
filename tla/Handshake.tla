------------------------------ MODULE Handshake ------------------------------
(***************************************************************************)
(* The CONNECTING state of websocket_process: the server's HTTP response   *)
(* arrives in pieces, parse_handshake_response looks at all that is in the *)
(* receive ring after each piece, and on success the connection starts to  *)
(* read WebSocket frames from wherever the ring's read pointer then is.    *)
(*                                                                         *)
(* With TLS one event leads to up to 22 calls of ssl_read before the       *)
(* response is parsed, and the drain loop reads on before the first frames *)
(* are; an error of ssl_read is ignored while connecting, and an event for *)
(* half a record parses again what is there, with the same result.         *)
(*                                                                         *)
(* A response is known by where its parts end.  The thresholds of the code *)
(* (12, 100, 200 and 4096 bytes) are constants, scaled down for TLC.       *)
(***************************************************************************)
EXTENDS Naturals, FiniteSetsExt

CONSTANTS
  Responses,    \* what servers send, see Response
  StatusLen,    \* 12: "HTTP/1.1 101"
  SearchLimit,  \* 100: "HTTP" is looked for in so many bytes
  Substantial,  \* 200: beyond this a bad response is an error
  CopyLen,      \* WS_MAX_HEADER_SIZE - 1: bytes searched for headers
  DummyLen,     \* 4096: bytes consumed at most
  Lookalike,    \* 86: size of the CLOSE frame that "HT..." looks like
  CutInBlank    \* may a read end between the headers and the blank line?

(* A response: junk bytes before "HTTP"; whether it is HTTP at all and its *)
(* status is 101; where, counted from "HTTP", the Upgrade and Connection   *)
(* headers end (0: absent) and the blank line ends; all bytes, with those  *)
(* of the frames that follow.                                              *)
Response == [junk : Nat, http : BOOLEAN, ok : BOOLEAN, upgrade : Nat,
             connection : Nat, blank : Nat, total : Nat]

ASSUME HandshakeAssumption ==
  /\ \A r \in Responses : r \in Response /\ r.total >= r.junk + r.blank
  /\ {StatusLen, SearchLimit, Substantial, CopyLen, DummyLen, Lookalike} \subseteq Nat
  /\ CutInBlank \in BOOLEAN

VARIABLES
  use_ssl,   \* ws->use_ssl
  resp,      \* the response of this server
  len,       \* bytes of it that reached the receive ring
  consumed,  \* bytes of it the read pointer has passed
  state,     \* ws->state
  errors,    \* calls of on_error
  fin        \* the server has closed its side

handshakeVars == <<use_ssl, resp, len, consumed, state, errors, fin>>

HeadersEnd == Max({resp.upgrade, resp.connection})
FramesBegin == resp.junk + resp.blank
Acceptable == resp.http /\ resp.ok /\ resp.upgrade > 0 /\ resp.connection > 0

HandshakeInit ==
  /\ use_ssl \in BOOLEAN /\ resp \in Responses
  /\ len = 0 /\ consumed = 0 /\ errors = 0 /\ fin = FALSE
  /\ state = "CONNECTING"
-----------------------------------------------------------------------------
(* "HTTP/1.x" with at least a status code behind it, near enough.          *)
HttpFound(n) == resp.http /\ resp.junk < SearchLimit /\ n >= resp.junk + StatusLen

(* The headers are looked for in a bounded copy.                           *)
Seen(n, header) == header > 0 /\ header <= Min({n - resp.junk, CopyLen})

(* Variant: one of the two headers is enough.                              *)
HastyVerdict(n) ==
  IF ~HttpFound(n) THEN IF n > Substantial THEN "bad" ELSE "more"
  ELSE IF ~resp.ok THEN "bad"
  ELSE IF Seen(n, resp.upgrade) \/ Seen(n, resp.connection) THEN "good" ELSE "more"

(* What parse_handshake_response returns with n bytes in the ring.         *)
parse_handshake_response(n) ==
  IF ~HttpFound(n) THEN IF n > Substantial THEN "bad" ELSE "more"
  ELSE IF ~resp.ok THEN "bad"
  ELSE IF Seen(n, resp.upgrade) /\ Seen(n, resp.connection) THEN "good" ELSE "more"

(* Variant: the blank line itself is left in the ring.                     *)
ShortConsume(n) == IF resp.junk + resp.blank <= n THEN resp.blank - 1 ELSE 0

(* What it consumes on success: nothing when the blank line is not there   *)
(* yet, and nothing when there is something to skip before "HTTP", because *)
(* ringbuffer_read into NULL reads 0 bytes.                                *)
Consume(n) ==
  IF resp.junk + resp.blank <= n /\ resp.junk = 0
    THEN Min({resp.blank, DummyLen}) ELSE 0

(* process_frames, called at the end of websocket_process once connected.  *)
(* Frames are read from their beginning (module Receiver); the text of the *)
(* response read as a frame has the opcode of CLOSE ('H') and a length of  *)
(* 84 ('T'); other bytes may look like anything.                           *)
FirstFrames(pos, n) ==
  CASE pos = FramesBegin                 -> {"CONNECTED"}
    [] pos = 0 /\ resp.junk = 0          -> IF n >= Lookalike THEN {"CLOSING"} ELSE {"CONNECTED"}
    [] OTHER                             -> {"CONNECTED", "CLOSING"}

(* Variant: every bad response is waited out.                              *)
PatientBad(n) == FALSE

(* A bad response is an error only when there is much of it and it has     *)
(* "HTTP" in it.                                                           *)
Bad(n) == n > Substantial /\ resp.http /\ n >= resp.junk + 4

(* A read event with the response incomplete: io_read or ssl_read brings   *)
(* the ring to n bytes, the response is parsed, the state changes.  On     *)
(* success the frames behind the response are looked at, with TLS after    *)
(* further reads.                                                          *)
websocket_process(n) ==
  /\ state = "CONNECTING" /\ ~fin
  /\ n > len /\ n <= resp.total
  /\ CutInBlank \/ n < resp.junk + HeadersEnd \/ n >= FramesBegin \/ ~Acceptable
  /\ LET result == parse_handshake_response(n) IN
       \/ /\ result = "good"
          /\ consumed' = Consume(n)
          /\ \E m \in n .. resp.total :
               /\ ~use_ssl => m = n
               /\ len' = m
               /\ state' \in FirstFrames(Consume(n), m)
          /\ UNCHANGED errors
       \/ /\ result = "bad" /\ Bad(n)
          /\ errors' = errors + 1
          /\ state' = "CLOSED"
          /\ len' = n
          /\ UNCHANGED consumed
       \/ /\ result = "more" \/ (result = "bad" /\ ~Bad(n))
          /\ len' = n
          /\ UNCHANGED <<consumed, state, errors>>
  /\ UNCHANGED <<use_ssl, resp, fin>>

(* The server closes its side.                                             *)
PeerClose ==
  /\ ~fin /\ state = "CONNECTING"
  /\ fin' = TRUE
  /\ UNCHANGED <<use_ssl, resp, len, consumed, state, errors>>

(* The event then carries EV_EOF, and is answered without reading.         *)
EofEvent ==
  /\ fin /\ state = "CONNECTING"
  /\ state' = "CLOSED"
  /\ errors' = errors + 1
  /\ UNCHANGED <<use_ssl, resp, len, consumed, fin>>

Read == \E n \in 1 .. resp.total : websocket_process(n)

HandshakeNext == Read \/ PeerClose \/ EofEvent

HandshakeSpec == HandshakeInit /\ [][HandshakeNext]_handshakeVars

(* Fairness: the loop calls websocket_process, and what the server sent    *)
(* arrives.                                                                *)
FairHandshakeSpec == HandshakeSpec /\ WF_handshakeVars(Read) /\ WF_handshakeVars(EofEvent)
-----------------------------------------------------------------------------
(* The connection is used only after a response that accepts it: status    *)
(* 101 and both headers were received, however the response was cut.       *)
ConnectedOnlyIfAccepted ==
  state \in {"CONNECTED", "CLOSING"} => Acceptable /\ len >= resp.junk + HeadersEnd

(* When the connection is open the read pointer is behind the blank line:  *)
(* the first byte taken for a frame is the first byte of a frame.          *)
FramesAfterHeaders == state \in {"CONNECTED", "CLOSING"} => consumed = FramesBegin

(* Every server that accepts gets a connection or is seen to close, and a  *)
(* long response that is HTTP and does not accept is reported.             *)
Decided ==
  /\ Acceptable ~> state # "CONNECTING"
  /\ (resp.http /\ ~resp.ok /\ resp.total > Substantial) ~> (state = "CLOSED" /\ errors = 1)

(* "HTTP status not 101 - handshake failed": a complete refusal, short or  *)
(* long, ends the attempt.                                                 *)
RefusalReported == (resp.http /\ ~resp.ok) ~> state = "CLOSED"
=============================================================================
