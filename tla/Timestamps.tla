----------------------------- MODULE Timestamps -----------------------------
(***************************************************************************)
(* When a message arrived: the kernel's timestamp, kept in nanoseconds and *)
(* converted to ticks of mach_absolute_time, and the latency taken from it *)
(* when the message is dispatched.  A tick is numer / denom nanoseconds.   *)
(***************************************************************************)
EXTENDS Integers

CONSTANTS numer, denom,  \* mach_timebase_info
          Micro          \* 1000 ns: what a struct timeval can express

ASSUME TimebaseAssumption == {numer, denom, Micro} \subseteq Nat \ {0}

(* get_time_ns, at a given tick.                                           *)
get_time_ns(ticks) == (ticks * numer) \div denom

(* Variant: numer and denom are swapped.                                   *)
SwappedTicks(nic_ns, now_ticks) ==
  LET diff_ticks == ((get_time_ns(now_ticks) - nic_ns) * numer) \div denom
  IN  IF nic_ns > get_time_ns(now_ticks) THEN now_ticks
      ELSE IF now_ticks > diff_ticks THEN now_ticks - diff_ticks ELSE 0

(* The ticks for a timestamp, seen from now.                               *)
NicTicks(nic_ns, now_ticks) ==
  LET now_ns == get_time_ns(now_ticks)
      diff_ticks == ((now_ns - nic_ns) * denom) \div numer
  IN  IF nic_ns <= now_ns /\ now_ns > 0
        THEN IF now_ticks > diff_ticks THEN now_ticks - diff_ticks ELSE 0
        ELSE now_ticks

(* What recvmsg brings along: SCM_TIMESTAMPNS, SCM_TIMESTAMP or nothing.   *)
NicNs(kind, arrival_ns) ==
  IF kind = "timespec" THEN arrival_ns ELSE arrival_ns - (arrival_ns % Micro)

(* io_read keeps the earlier timestamp if there is none; ssl_read_func     *)
(* takes the time of the call.                                             *)
IoStamp(kind, arrival_ns, now_ticks, old) ==
  IF kind = "none" THEN old
  ELSE LET ns == NicNs(kind, arrival_ns) IN [ns |-> ns, ticks |-> NicTicks(ns, now_ticks)]
SslStamp(kind, arrival_ns, now_ticks) ==
  IF kind = "none" THEN [ns |-> get_time_ns(now_ticks), ticks |-> now_ticks]
  ELSE LET ns == NicNs(kind, arrival_ns) IN [ns |-> ns, ticks |-> NicTicks(ns, now_ticks)]

(* The latency sample of a message dispatched at a tick; none without a    *)
(* timestamp.                                                              *)
Latency(nic_ns, ticks) ==
  LET now_ns == get_time_ns(ticks) IN IF now_ns > nic_ns THEN now_ns - nic_ns ELSE 0
=============================================================================
