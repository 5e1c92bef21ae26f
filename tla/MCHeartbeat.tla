---------------------------- MODULE MCHeartbeat -----------------------------
(***************************************************************************)
(* Configurations for model checking Heartbeat.                            *)
(***************************************************************************)
EXTENDS Heartbeat

HeartbeatConfig(interval, timeout) ==
  [enable |-> TRUE, interval |-> interval, timeout |-> timeout]
Disabled == [HeartbeatConfig(1, 1) EXCEPT !.enable = FALSE]

(* The timeout is shorter than the interval; and no heartbeat at all.      *)
ShortTimeouts ==
  {HeartbeatConfig(4, 2), HeartbeatConfig(3, 2), HeartbeatConfig(5, 3), Disabled}

(* The next ping goes out before the timeout of the last has passed.       *)
LongTimeout == {HeartbeatConfig(2, 2)}
=============================================================================
