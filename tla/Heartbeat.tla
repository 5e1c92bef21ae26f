----------------------------- MODULE Heartbeat ------------------------------
(***************************************************************************)
(* The heartbeat of a connected WebSocket: check_heartbeat at the end of   *)
(* websocket_process, the pongs process_frames records before it, and      *)
(* websocket_set_heartbeat_config.  Time is a number of ticks and starts   *)
(* at 1, because the code uses 0 for "never".                              *)
(*                                                                         *)
(* The application calls websocket_process at least once per tick: the     *)
(* clock only moves when a call has ended since it last moved.             *)
(***************************************************************************)
EXTENDS Integers, Sequences

CONSTANTS
  Configs,     \* heartbeat configurations: [enable, interval, timeout], in ticks
  TxMayBeFull, \* whether tx_ring may lack the room for a ping
  MaxNow,      \* bound: the clock stops here
  MaxPings     \* bound: no new configuration while so many pings are out

ASSUME HeartbeatAssumption ==
  /\ Configs \subseteq [enable : BOOLEAN, interval : Nat \ {0}, timeout : Nat \ {0}]
  /\ TxMayBeFull \in BOOLEAN /\ MaxNow \in Nat /\ MaxPings \in Nat

VARIABLES
  now,         \* get_time_ns()
  config,      \* ws->heartbeat_config
  last_ping,   \* ws->last_ping_sent_ns
  last_pong,   \* ws->last_pong_received_ns
  processed,   \* websocket_process has run since the clock last moved
  unanswered,  \* pings on their way or at the server: when they were sent
  heard,       \* history: when the last pong was received
  silentSince, \* history: the first ping after the last pong, alarm or config
  alarm        \* history: the last call of on_heartbeat_timeout

vars == <<now, config, last_ping, last_pong, processed, unanswered, heard,
          silentSince, alarm>>

NoAlarm == [at |-> 0, heard |-> 0, timeout |-> 0, waited |-> 0]

Init ==
  /\ now = 1 /\ config \in Configs
  /\ last_ping = 0 /\ last_pong = 0
  /\ processed = FALSE /\ unanswered = << >>
  /\ heard = 0 /\ silentSince = 0 /\ alarm = NoAlarm
-----------------------------------------------------------------------------
(* The clock.  The server answers when it likes, or never.                 *)
Tick ==
  /\ processed /\ now < MaxNow
  /\ now' = now + 1 /\ processed' = FALSE
  /\ UNCHANGED <<config, last_ping, last_pong, unanswered, heard, silentSince, alarm>>

(* check_heartbeat's first half: is it time for a ping?                    *)
PingDue == last_ping = 0 \/ now - last_ping >= config.interval

(* Variant: the timeout is taken one tick short.                           *)
OffByOneExpired(ping, pong) ==
  ping > 0 /\ pong < ping /\ now - ping >= config.timeout - 1

(* Variant: the comparison with the last pong is missing.                  *)
DeafExpired(ping, pong) == ping > 0 /\ now - ping >= config.timeout

(* Variant: a pong ever received counts as the answer.                     *)
TrustingExpired(ping, pong) ==
  ping > 0 /\ pong = 0 /\ now - ping >= config.timeout

(* check_heartbeat's second half: no pong since the ping, for too long.    *)
Expired(ping, pong) ==
  ping > 0 /\ pong < ping /\ now - ping >= config.timeout

(* One websocket_process, with a pong or without, with room for a ping in  *)
(* tx_ring or without: process_frames records the pong, then               *)
(* check_heartbeat, if enabled, sends a ping if it is due and tests for    *)
(* the timeout.  A pong is the answer to the oldest ping, or unsolicited:  *)
(* the code records either.                                                *)
PongAt(pong) == IF pong THEN now ELSE last_pong
Sends(room) == config.enable /\ PingDue /\ room
PingAt(room) == IF Sends(room) THEN now ELSE last_ping
Fires(pong, room) == config.enable /\ Expired(PingAt(room), PongAt(pong))
Left(answer) == IF answer THEN Tail(unanswered) ELSE unanswered

(* The history of silence: it starts with a ping after which nothing was   *)
(* heard, and ends with a pong or an alarm.                                *)
Silence(pong, room) ==
  LET quiet == IF pong THEN 0 ELSE silentSince IN
  CASE Fires(pong, room) -> 0
    [] ~Fires(pong, room) /\ Sends(room) /\ quiet = 0 /\ ~pong /\ heard < now -> now
    [] OTHER -> quiet

(* A timeout is reported, and reset with it.                               *)
check_heartbeat(pong, answer, room) ==
  /\ last_pong' = PongAt(pong)
  /\ last_ping' = IF Fires(pong, room) THEN 0 ELSE PingAt(room)
  /\ unanswered' = IF Sends(room) THEN Append(Left(answer), now) ELSE Left(answer)
  /\ heard' = IF pong THEN now ELSE heard
  /\ silentSince' = Silence(pong, room)
  /\ alarm' =
       IF Fires(pong, room)
         THEN [at |-> now, heard |-> IF pong THEN now ELSE heard,
               timeout |-> config.timeout,
               waited |-> IF Left(answer) = << >> THEN 0 ELSE now - Head(Left(answer))]
         ELSE alarm
  /\ processed' = TRUE
  /\ UNCHANGED <<now, config>>

websocket_process ==
  \E pong \in BOOLEAN, answer \in BOOLEAN, room \in BOOLEAN :
    /\ answer => pong /\ unanswered # << >>
    /\ TxMayBeFull \/ room
    /\ check_heartbeat(pong, answer, room)

(* Variant: the first ping is put off by one interval.                     *)
PostponingConfig ==
  /\ Len(unanswered) < MaxPings
  /\ config' \in Configs \ {config}
  /\ last_ping' = now + config'.interval /\ last_pong' = 0
  /\ silentSince' = 0
  /\ UNCHANGED <<now, processed, unanswered, heard, alarm>>

(* A new configuration forgets the pings and pongs of the old one.         *)
websocket_set_heartbeat_config ==
  /\ Len(unanswered) < MaxPings
  /\ config' \in Configs \ {config}
  /\ last_ping' = 0 /\ last_pong' = 0
  /\ silentSince' = 0
  /\ UNCHANGED <<now, processed, unanswered, heard, alarm>>

Next == Tick \/ websocket_process \/ websocket_set_heartbeat_config

Spec == Init /\ [][Next]_vars
-----------------------------------------------------------------------------
(* Types of the state; no time lies in the future.                         *)
TypeOK ==
  /\ now \in Nat \ {0} /\ config \in Configs
  /\ last_ping \in 0 .. now /\ last_pong \in 0 .. now
  /\ processed \in BOOLEAN /\ unanswered \in Seq(1 .. now)
  /\ heard \in 0 .. now /\ silentSince \in 0 .. now
  /\ alarm \in [at : 0 .. now, heard : 0 .. now, timeout : Nat, waited : 0 .. now]

(* on_heartbeat_timeout is only called when no pong at all came in during  *)
(* the timeout before it, also right after a new configuration or when     *)
(* the pong answers an earlier ping than the last.                         *)
AlarmJustified ==
  alarm.at > 0 => alarm.at - alarm.heard >= alarm.timeout

(* An alarm means that a ping has gone unanswered for the timeout: a       *)
(* server that answers every ping sooner never causes one, whatever the    *)
(* interval and however configurations change.                             *)
NoFalseAlarm == alarm.at > 0 => alarm.waited >= alarm.timeout

(* "Expect pong within N ms" (websocket.h): when websocket_process         *)
(* returns, no silence has lasted as long as the timeout without an alarm. *)
SilenceDetected ==
  processed /\ silentSince > 0 => now - silentSince < config.timeout
=============================================================================
