--------------------------- MODULE HeartbeatProofs ---------------------------
(***************************************************************************)
(* Proofs about Heartbeat for every set of configurations and every bound: *)
(* alarms are justified, and no silence goes unnoticed if timeouts are     *)
(* shorter than the interval between pings.                                *)
(***************************************************************************)
EXTENDS Heartbeat, SequenceTheorems, TLAPS

(* A ping the code still waits for (no later pong) is no older than the    *)
(* last pong received, and some ping at least as old as it is unanswered:  *)
(* the resets of the two times by a new configuration or an alarm lose     *)
(* sight of neither.                                                       *)
PingInv ==
  /\ TypeOK
  /\ last_pong <= heard
  /\ last_ping > 0 /\ last_pong < last_ping =>
       heard <= last_ping /\ unanswered # << >> /\ Head(unanswered) <= last_ping

(* While a silence lasts, its first ping is the last one sent and the      *)
(* timeout has not passed; just after a call it has not even been reached. *)
SilenceInv ==
  silentSince > 0 =>
    /\ last_ping = silentSince /\ last_pong < last_ping
    /\ config.enable
    /\ now - silentSince <= config.timeout
    /\ processed => now - silentSince < config.timeout

(* Timeouts shorter than the interval, where the heartbeat is enabled.     *)
ShorterTimeouts == \A c \in Configs : c.enable => c.timeout < c.interval
-----------------------------------------------------------------------------
(* What is in a sequence of times stays there as time goes by.             *)
LEMMA TimesStay ==
  ASSUME NEW n \in Nat, NEW s \in Seq(1 .. n)
  PROVE  s \in Seq(1 .. n + 1)
<1>1. \A i \in 1 .. Len(s) : s[i] \in 1 .. n
  OBVIOUS
<1>2. \A i \in 1 .. Len(s) : s[i] \in 1 .. n + 1
  BY <1>1
<1>3. s = [i \in 1 .. Len(s) |-> s[i]] /\ Len(s) \in Nat
  OBVIOUS
<1> QED
  BY <1>2, <1>3

(* A tick of the clock leaves every time in the past.                      *)
LEMMA TickKeepsPings == PingInv /\ Tick => PingInv'
<1> SUFFICES ASSUME PingInv, Tick PROVE PingInv'
  OBVIOUS
<1>1. now \in Nat \ {0} /\ unanswered \in Seq(1 .. now)
  BY DEF PingInv, TypeOK
<1>2. unanswered' \in Seq(1 .. now')
  BY <1>1, TimesStay DEF Tick
<1>3. alarm' \in [at : 0 .. now', heard : 0 .. now', timeout : Nat, waited : 0 .. now']
  BY <1>1 DEF PingInv, TypeOK, Tick
<1>4. now' \in Nat \ {0} /\ config' \in Configs
  BY <1>1 DEF PingInv, TypeOK, Tick
<1>5. processed' \in BOOLEAN
  BY DEF Tick
<1>6. /\ last_ping' \in 0 .. now' /\ last_pong' \in 0 .. now'
      /\ heard' \in 0 .. now' /\ silentSince' \in 0 .. now'
  BY <1>1 DEF PingInv, TypeOK, Tick
<1>7. TypeOK'
  BY <1>2, <1>3, <1>4, <1>5, <1>6 DEF TypeOK
<1> QED
  BY <1>7 DEF PingInv, Tick

(* A new configuration waits for no ping.                                  *)
LEMMA ConfigKeepsPings == PingInv /\ websocket_set_heartbeat_config => PingInv'
BY DEF PingInv, TypeOK, websocket_set_heartbeat_config

(* The times one call of websocket_process works with, and what it means   *)
(* that it finds a timeout: neither a pong nor a ping in this call, and    *)
(* the oldest unanswered ping and the last pong are at least as old.       *)
LEMMA CallFacts ==
  ASSUME PingInv, NEW pong \in BOOLEAN, NEW answer \in BOOLEAN,
         NEW room \in BOOLEAN, answer => pong /\ unanswered # << >>
  PROVE  /\ PongAt(pong) \in 0 .. now /\ PingAt(room) \in 0 .. now
         /\ Left(answer) \in Seq(1 .. now)
         /\ Sends(room) \in BOOLEAN /\ Fires(pong, room) \in BOOLEAN
         /\ Fires(pong, room) =>
              /\ ~pong /\ ~Sends(room)
              /\ now - heard >= config.timeout
              /\ Left(answer) # << >>
              /\ Head(Left(answer)) \in 1 .. now
              /\ now - Head(Left(answer)) >= config.timeout
<1>1. /\ now \in Nat \ {0} /\ last_ping \in 0 .. now /\ last_pong \in 0 .. now
      /\ heard \in 0 .. now /\ unanswered \in Seq(1 .. now)
  BY DEF PingInv, TypeOK
<1>2. config.enable \in BOOLEAN /\ config.timeout \in Nat \ {0}
  BY HeartbeatAssumption DEF PingInv, TypeOK
<1>3. PongAt(pong) \in 0 .. now /\ PingAt(room) \in 0 .. now
  BY <1>1 DEF PongAt, PingAt
<1>4. Left(answer) \in Seq(1 .. now)
  <2>1. CASE answer
    <3>1. Tail(unanswered) \in Seq(1 .. now)
      BY <1>1, <2>1, HeadTailProperties
    <3> QED
      BY <2>1, <3>1 DEF Left
  <2>2. CASE ~answer
    BY <1>1, <2>2 DEF Left
  <2> QED
    BY <2>1, <2>2
<1>5. Sends(room) \in BOOLEAN /\ Fires(pong, room) \in BOOLEAN
  BY <1>2 DEF Sends, Fires, PingDue, Expired
<1>6. ASSUME Fires(pong, room)
      PROVE  /\ ~pong /\ ~Sends(room)
             /\ now - heard >= config.timeout
             /\ Left(answer) # << >>
             /\ Head(Left(answer)) \in 1 .. now
             /\ now - Head(Left(answer)) >= config.timeout
  <2>1. /\ PingAt(room) > 0 /\ PongAt(pong) < PingAt(room)
        /\ now - PingAt(room) >= config.timeout
    BY <1>6 DEF Fires, Expired
  <2>2. ~pong
    BY <2>1, <1>1, <1>3 DEF PongAt
  <2>3. ~Sends(room)
    BY <2>1, <1>1, <1>2 DEF PingAt
  <2>4. PingAt(room) = last_ping /\ PongAt(pong) = last_pong /\ Left(answer) = unanswered
    BY <2>2, <2>3 DEF PingAt, PongAt, Left
  <2>5. heard <= last_ping /\ unanswered # << >> /\ Head(unanswered) <= last_ping
    BY <2>1, <2>4 DEF PingInv
  <2>6. Head(unanswered) \in 1 .. now
    BY <2>5, <1>1
  <2> QED
    BY <2>1, <2>2, <2>3, <2>4, <2>5, <2>6, <1>1, <1>2
<1> QED
  BY <1>3, <1>4, <1>5, <1>6

(* After a call with a pong the code waits for nothing; after one without  *)
(* it waits for a ping of this call, or for the same as before.            *)
LEMMA ProcessKeepsPings == PingInv /\ websocket_process => PingInv'
<1> SUFFICES ASSUME PingInv, websocket_process PROVE PingInv'
  OBVIOUS
<1>1. PICK pong \in BOOLEAN, answer \in BOOLEAN, room \in BOOLEAN :
        /\ answer => pong /\ unanswered # << >>
        /\ check_heartbeat(pong, answer, room)
  BY DEF websocket_process
<1>2. /\ PongAt(pong) \in 0 .. now /\ PingAt(room) \in 0 .. now
      /\ Left(answer) \in Seq(1 .. now)
      /\ Fires(pong, room) =>
           Left(answer) # << >> /\ Head(Left(answer)) \in 1 .. now
  BY <1>1, CallFacts
<1>3. /\ now \in Nat \ {0} /\ last_ping \in 0 .. now /\ last_pong \in 0 .. now
      /\ heard \in 0 .. now /\ silentSince \in 0 .. now
  BY DEF PingInv, TypeOK
<1>4. now' = now /\ config' = config /\ config \in Configs /\ config.timeout \in Nat
  BY <1>1, HeartbeatAssumption DEF check_heartbeat, PingInv, TypeOK
<1>5. processed' \in BOOLEAN
  BY <1>1 DEF check_heartbeat
<1>6. unanswered' \in Seq(1 .. now)
  <2>1. now \in 1 .. now
    BY <1>3
  <2>2. Append(Left(answer), now) \in Seq(1 .. now)
    BY <1>2, <2>1, AppendProperties
  <2> QED
    BY <1>1, <1>2, <2>2 DEF check_heartbeat
<1>7. last_ping' \in 0 .. now /\ last_pong' \in 0 .. now /\ heard' \in 0 .. now
  BY <1>1, <1>2, <1>3 DEF check_heartbeat
<1>8. silentSince' \in 0 .. now
  <2>1. silentSince' = 0 \/ silentSince' = now \/ silentSince' = silentSince
    BY <1>1 DEF check_heartbeat, Silence
  <2> QED
    BY <2>1, <1>3
<1>9. alarm' \in [at : 0 .. now, heard : 0 .. now, timeout : Nat, waited : 0 .. now]
  <2>1. CASE Fires(pong, room)
    <3>1. alarm' = [at |-> now, heard |-> heard', timeout |-> config.timeout,
                    waited |-> now - Head(Left(answer))]
      BY <1>1, <1>2, <2>1 DEF check_heartbeat
    <3>2. now - Head(Left(answer)) \in 0 .. now
      BY <1>2, <1>3, <2>1
    <3> QED
      BY <3>1, <3>2, <1>3, <1>4, <1>7
  <2>2. CASE ~Fires(pong, room)
    <3>1. alarm' = alarm
      BY <1>1, <2>2 DEF check_heartbeat
    <3> QED
      BY <3>1 DEF PingInv, TypeOK
  <2> QED
    BY <2>1, <2>2
<1>10. TypeOK'
  BY <1>3, <1>4, <1>5, <1>6, <1>7, <1>8, <1>9 DEF TypeOK
<1>11. last_pong' <= heard'
  <2>1. CASE pong
    BY <1>1, <1>3, <2>1 DEF check_heartbeat, PongAt
  <2>2. CASE ~pong
    BY <1>1, <2>2 DEF check_heartbeat, PongAt, PingInv
  <2> QED
    BY <2>1, <2>2
<1>12. ASSUME last_ping' > 0, last_pong' < last_ping'
       PROVE  /\ heard' <= last_ping' /\ unanswered' # << >>
              /\ Head(unanswered') <= last_ping'
  <2>1. last_ping' = PingAt(room) /\ ~Fires(pong, room)
    BY <1>1, <1>12 DEF check_heartbeat
  <2>2. ~pong
    BY <1>1, <1>2, <1>3, <1>12, <2>1 DEF check_heartbeat, PongAt
  <2>3. heard' = heard /\ last_pong' = last_pong /\ Left(answer) = unanswered
    BY <1>1, <2>2 DEF check_heartbeat, PongAt, Left
  <2>4. CASE Sends(room)
    <3>1. last_ping' = now /\ unanswered' = Append(Left(answer), now)
      BY <1>1, <2>1, <2>4 DEF check_heartbeat, PingAt
    <3>2. unanswered' # << >>
      BY <3>1, <1>2, <1>3, AppendProperties
    <3>3. Head(unanswered') \in 1 .. now
      BY <3>2, <1>6, HeadTailProperties
    <3> QED
      BY <3>1, <3>2, <3>3, <2>3, <1>3
  <2>5. CASE ~Sends(room)
    <3>1. last_ping' = last_ping /\ unanswered' = unanswered
      BY <1>1, <2>1, <2>3, <2>5 DEF check_heartbeat, PingAt
    <3> QED
      BY <3>1, <2>3, <1>12 DEF PingInv
  <2> QED
    BY <2>4, <2>5
<1> QED
  BY <1>10, <1>11, <1>12 DEF PingInv
-----------------------------------------------------------------------------
(* The first configuration waits for no ping.                              *)
LEMMA InitPings == Init => PingInv
<1> SUFFICES ASSUME Init PROVE PingInv
  OBVIOUS
<1>1. unanswered \in Seq(1 .. now)
  BY DEF Init
<1>2. processed \in BOOLEAN
  BY DEF Init
<1>3. alarm \in [at : 0 .. now, heard : 0 .. now, timeout : Nat, waited : 0 .. now]
  BY DEF Init, NoAlarm
<1> QED
  BY <1>1, <1>2, <1>3 DEF Init, PingInv, TypeOK

(* Every step of the heartbeat keeps the invariant of the pings.           *)
LEMMA NextKeepsPings == PingInv /\ [Next]_vars => PingInv'
<1> SUFFICES ASSUME PingInv, [Next]_vars PROVE PingInv'
  OBVIOUS
<1>1. CASE Tick
  BY <1>1, TickKeepsPings
<1>2. CASE websocket_process
  BY <1>2, ProcessKeepsPings
<1>3. CASE websocket_set_heartbeat_config
  BY <1>3, ConfigKeepsPings
<1>4. CASE UNCHANGED vars
  BY <1>4 DEF vars, PingInv, TypeOK
<1> QED
  BY <1>1, <1>2, <1>3, <1>4 DEF Next

(* An alarm raised in this step has both its reasons; an older one keeps   *)
(* them.                                                                   *)
LEMMA NextKeepsAlarms ==
  PingInv /\ AlarmJustified /\ NoFalseAlarm /\ [Next]_vars
    => AlarmJustified' /\ NoFalseAlarm'
<1> SUFFICES ASSUME PingInv, AlarmJustified, NoFalseAlarm, [Next]_vars
             PROVE  AlarmJustified' /\ NoFalseAlarm'
  OBVIOUS
<1>1. CASE alarm' = alarm
  BY <1>1 DEF AlarmJustified, NoFalseAlarm
<1>2. CASE websocket_process
  <2>1. PICK pong \in BOOLEAN, answer \in BOOLEAN, room \in BOOLEAN :
          /\ answer => pong /\ unanswered # << >>
          /\ check_heartbeat(pong, answer, room)
    BY <1>2 DEF websocket_process
  <2>2. CASE Fires(pong, room)
    <3>1. /\ ~pong /\ Left(answer) # << >>
          /\ now - heard >= config.timeout
          /\ now - Head(Left(answer)) >= config.timeout
      BY <2>1, <2>2, CallFacts
    <3>2. alarm' = [at |-> now, heard |-> heard, timeout |-> config.timeout,
                    waited |-> now - Head(Left(answer))]
      BY <2>1, <2>2, <3>1 DEF check_heartbeat
    <3> QED
      BY <3>1, <3>2 DEF AlarmJustified, NoFalseAlarm
  <2>3. CASE ~Fires(pong, room)
    BY <1>1, <2>1, <2>3 DEF check_heartbeat
  <2> QED
    BY <2>2, <2>3
<1> QED
  BY <1>1, <1>2 DEF Next, Tick, websocket_set_heartbeat_config, vars

(* A tick brings a silence at most to its timeout: websocket_process has   *)
(* run in the tick before and found it shorter.                            *)
LEMMA TickKeepsSilence == PingInv /\ SilenceInv /\ Tick => SilenceInv'
<1> SUFFICES ASSUME PingInv, SilenceInv, Tick, silentSince' > 0 PROVE SilenceInv'
  BY DEF SilenceInv
<1>1. now \in Nat /\ silentSince \in 0 .. now /\ config.timeout \in Nat
  BY HeartbeatAssumption DEF PingInv, TypeOK
<1>2. processed /\ silentSince' = silentSince /\ now' = now + 1 /\ ~processed'
      /\ last_ping' = last_ping /\ last_pong' = last_pong /\ config' = config
  BY DEF Tick
<1>3. now - silentSince < config.timeout
  BY <1>2 DEF SilenceInv
<1> QED
  BY <1>1, <1>2, <1>3 DEF SilenceInv

(* A call of websocket_process does not send another ping while a silence  *)
(* lasts, for the timeout comes first; and it ends one of that length.     *)
LEMMA ProcessKeepsSilence ==
  ASSUME ShorterTimeouts, PingInv, SilenceInv, websocket_process
  PROVE  SilenceInv'
<1>1. PICK pong \in BOOLEAN, answer \in BOOLEAN, room \in BOOLEAN :
        /\ answer => pong /\ unanswered # << >>
        /\ check_heartbeat(pong, answer, room)
  BY DEF websocket_process
<1>2. /\ now \in Nat \ {0} /\ last_ping \in 0 .. now /\ last_pong \in 0 .. now
      /\ heard \in 0 .. now /\ silentSince \in 0 .. now
      /\ config \in Configs
  BY DEF PingInv, TypeOK
<1>3. config.timeout \in Nat \ {0} /\ config.interval \in Nat
  BY <1>2, HeartbeatAssumption
<1>4. now' = now /\ config' = config
  BY <1>1 DEF check_heartbeat
<1>5. SUFFICES ASSUME silentSince' > 0 PROVE SilenceInv'
  BY DEF SilenceInv
<1>6. silentSince' = Silence(pong, room)
  BY <1>1 DEF check_heartbeat
<1>7. ~Fires(pong, room) /\ ~pong
  BY <1>2, <1>5, <1>6 DEF Silence
<1>8. last_ping' = PingAt(room) /\ last_pong' = last_pong
  BY <1>1, <1>7 DEF check_heartbeat, PongAt
<1>9. CASE silentSince > 0
  <2>1. /\ last_ping = silentSince /\ last_pong < last_ping /\ config.enable
        /\ now - silentSince <= config.timeout
    BY <1>9 DEF SilenceInv
  <2>2. config.timeout < config.interval
    BY <1>2, <2>1 DEF ShorterTimeouts
  <2>3. ~PingDue
    BY <1>2, <1>3, <1>9, <2>1, <2>2 DEF PingDue
  <2>4. last_ping' = last_ping
    BY <1>8, <2>3 DEF PingAt, Sends
  <2>5. silentSince' = silentSince
    BY <1>6, <1>7, <2>3 DEF Silence, Sends
  <2>6. ~(now - last_ping >= config.timeout)
    <3>1. PingAt(room) = last_ping /\ PongAt(pong) = last_pong
      BY <1>7, <2>3 DEF PingAt, PongAt, Sends
    <3> QED
      BY <1>7, <1>9, <2>1, <3>1 DEF Fires, Expired
  <2> QED
    BY <1>2, <1>3, <1>4, <1>8, <2>1, <2>4, <2>5, <2>6 DEF SilenceInv
<1>10. CASE silentSince = 0
  <2>1. Sends(room) /\ heard < now /\ silentSince' = now
    BY <1>2, <1>5, <1>6, <1>7, <1>10 DEF Silence
  <2>2. last_ping' = now /\ config.enable
    BY <1>8, <2>1 DEF PingAt, Sends
  <2>3. last_pong <= heard
    BY DEF PingInv
  <2> QED
    BY <1>2, <1>3, <1>4, <1>8, <2>1, <2>2, <2>3 DEF SilenceInv
<1> QED
  BY <1>2, <1>9, <1>10

(* Every step of the heartbeat keeps the invariant of the silence.         *)
LEMMA NextKeepsSilence ==
  ASSUME ShorterTimeouts, PingInv, SilenceInv, [Next]_vars
  PROVE  SilenceInv'
<1>1. CASE Tick
  BY <1>1, TickKeepsSilence
<1>2. CASE websocket_process
  BY <1>2, ProcessKeepsSilence
<1>3. CASE websocket_set_heartbeat_config
  BY <1>3 DEF websocket_set_heartbeat_config, SilenceInv
<1>4. CASE UNCHANGED vars
  BY <1>4 DEF vars, SilenceInv
<1> QED
  BY <1>1, <1>2, <1>3, <1>4 DEF Next
-----------------------------------------------------------------------------
(* No time of the heartbeat ever lies in the future, so none of            *)
(* check_heartbeat's unsigned differences wraps around.                    *)
THEOREM TimesArePast == Spec => []TypeOK
<1>1. PingInv => TypeOK
  BY DEF PingInv
<1> QED
  BY <1>1, InitPings, NextKeepsPings, PTL DEF Spec

(* on_heartbeat_timeout is only called when no pong came in for the whole  *)
(* timeout, whatever the intervals and timeouts and however they change.   *)
THEOREM AlarmsAreJustified == Spec => []AlarmJustified
<1>1. Init => AlarmJustified /\ NoFalseAlarm
  BY DEF Init, NoAlarm, AlarmJustified, NoFalseAlarm
<1> QED
  BY <1>1, InitPings, NextKeepsPings, NextKeepsAlarms, PTL DEF Spec

(* A server that answers every ping within the timeout never causes an     *)
(* alarm of check_heartbeat.                                               *)
THEOREM NoAlarmIsFalse == Spec => []NoFalseAlarm
<1>1. Init => AlarmJustified /\ NoFalseAlarm
  BY DEF Init, NoAlarm, AlarmJustified, NoFalseAlarm
<1> QED
  BY <1>1, InitPings, NextKeepsPings, NextKeepsAlarms, PTL DEF Spec

(* With timeouts shorter than the interval check_heartbeat reports every   *)
(* silence within its timeout.                                             *)
THEOREM EverySilenceIsDetected ==
  ASSUME ShorterTimeouts
  PROVE  Spec => []SilenceDetected
<1>1. Init => SilenceInv
  BY DEF Init, SilenceInv
<1>2. PingInv /\ SilenceInv /\ [Next]_vars => SilenceInv'
  BY NextKeepsSilence
<1>3. SilenceInv => SilenceDetected
  BY DEF SilenceInv, SilenceDetected
<1> QED
  BY <1>1, <1>2, <1>3, InitPings, NextKeepsPings, PTL DEF Spec
=============================================================================
