------------------------------- MODULE Metrics -------------------------------
(***************************************************************************)
(* Metrics and health of a WebSocket: the counters, the rolling window of  *)
(* latency samples, the percentiles taken from it, websocket_get_metrics,  *)
(* websocket_reset_metrics, websocket_get_health, and the two periodic     *)
(* reports at the end of websocket_process, check_health before            *)
(* report_metrics_if_needed.                                               *)
(*                                                                         *)
(* Of the metrics, p50, p99 and the utilization are computed only when     *)
(* somebody asks for metrics; websocket_get_health reads what the last     *)
(* such call left.  Byte counts, throughput and uptime are left out.       *)
(* Utilization is kept as the number of unread bytes in the two rings.     *)
(*                                                                         *)
(* The code compares times only with one second, so the model keeps, in    *)
(* ticks, how long ago the last report and the last check were, and counts *)
(* no further than it takes.  The clock moves on only after a call of      *)
(* websocket_process, the call that an event loop repeats.                 *)
(***************************************************************************)
EXTENDS Percentiles, Sequences, FiniteSets

CONSTANTS
  on_metrics, on_health,  \* whether the application has set the callbacks
  Capacity,    \* latency_sample_capacity
  Latencies,   \* latencies that are measured
  MaxP99,      \* 100000 ns
  ErrorShare,  \* 10: more than one error in so many operations is too much
  Backlogs,    \* unread bytes in the receive and the transmit ring together
  MaxBacklog,  \* 0.8 of the two rings
  Second,      \* 1000000000 ns
  MaxOps       \* bound: messages and errors counted

ASSUME MetricsAssumption ==
  /\ Capacity \in Nat \ {0} /\ Latencies \subseteq Nat /\ Backlogs \subseteq Nat
  /\ {on_metrics, on_health} \subseteq BOOLEAN
  /\ {MaxP99, ErrorShare, MaxBacklog, MaxOps} \subseteq Nat /\ Second \in Nat \ {0}

VARIABLES
  state,           \* ws->state
  metrics,         \* ws->metrics
  latency_samples, latency_sample_count, latency_sample_idx,
  report_age, check_age,   \* now - metrics_last_report_ns, - last_health_check_ns
  current_health,
  backlog,         \* unread bytes in the two rings
  processed,       \* websocket_process ran since the clock moved
  history,         \* history: the latencies since the last reset
  steady           \* history: for how long the true health has been what it
                   \* is, since the last reset

window == <<latency_samples, latency_sample_count, latency_sample_idx>>
reports == <<report_age, check_age, current_health>>
vars == <<state, metrics, window, reports, backlog, processed, history, steady>>

NoMetrics == [received |-> 0, sent |-> 0, errors |-> 0, p50 |-> 0, p99 |-> 0, unread |-> 0]

(* A connection that has just opened, at a time when a report is due.      *)
Init ==
  /\ state = "CONNECTED"
  /\ metrics = NoMetrics
  /\ latency_samples = [i \in 0 .. Capacity - 1 |-> 0]
  /\ latency_sample_count = 0 /\ latency_sample_idx = 0
  /\ report_age = Second /\ check_age = Second
  /\ current_health = "OK"
  /\ backlog = 0
  /\ processed = FALSE
  /\ history = << >>
  /\ steady = 0
-----------------------------------------------------------------------------
(* Variant: metrics are handed out as the last call left them.             *)
UnrefreshedMetrics(m) == m

(* websocket_get_metrics: what it makes of the metrics.                    *)
Refreshed(m) ==
  LET p == calculate_latency_percentiles(latency_samples', latency_sample_count')
  IN  [m EXCEPT !.p50 = p.p50, !.p99 = p.p99, !.unread = backlog']

(* websocket_get_health, of given metrics.                                 *)
ErrorProne(m) ==
  LET total == m.received + m.sent IN total > 0 /\ m.errors * ErrorShare > total
Strained(m) == m.p99 > MaxP99 \/ m.unread > MaxBacklog
Health(st, m) ==
  IF st # "CONNECTED" \/ ErrorProne(m) THEN "UNHEALTHY"
  ELSE IF Strained(m) THEN "DEGRADED" ELSE "OK"

(* The health that fresh metrics would give.                               *)
TrueHealth ==
  LET p == calculate_latency_percentiles(latency_samples, latency_sample_count)
  IN  Health(state, [metrics EXCEPT !.p50 = p.p50, !.p99 = p.p99, !.unread = backlog])

Settled == 2 * Second + 1
Older(age, limit) == IF age < limit THEN age + 1 ELSE age

(* Every action ends with this: the history of the true health.            *)
Observe(ticks) ==
  steady' = CASE TrueHealth' # TrueHealth -> 0
              [] TrueHealth' = TrueHealth /\ ticks -> Older(steady, Settled)
              [] TrueHealth' = TrueHealth /\ ~ticks -> steady

(* update_latency_sample overwrites the oldest sample.                     *)
update_latency_sample(latency) ==
  /\ latency_samples' = [latency_samples EXCEPT ![latency_sample_idx] = latency]
  /\ latency_sample_idx' = (latency_sample_idx + 1) % Capacity
  /\ latency_sample_count' =
       IF latency_sample_count < Capacity THEN latency_sample_count + 1
                                          ELSE latency_sample_count
  /\ history' = Append(history, latency)

(* What websocket_process counts before the reports: a message with a      *)
(* kernel timestamp, a message without, a parse error, or nothing.         *)
Counted == metrics.received + metrics.sent + metrics.errors
Receive(m) ==
  \/ /\ Counted < MaxOps /\ m = [metrics EXCEPT !.received = @ + 1]
     /\ \/ \E latency \in Latencies : update_latency_sample(latency)
        \/ UNCHANGED <<window, history>>
  \/ /\ Counted < MaxOps /\ m = [metrics EXCEPT !.errors = @ + 1]
     /\ UNCHANGED <<window, history>>
  \/ m = metrics /\ UNCHANGED <<window, history>>

(* Variant: the time is noted even if no check is due.                     *)
PostponingCheck(m) ==
  /\ check_age' = 0
  /\ current_health' = IF on_health /\ check_age >= Second
                         THEN Health(state, m) ELSE current_health

(* on_health is called if the health has changed.                          *)
check_health(m) ==
  IF on_health /\ check_age >= Second
    THEN check_age' = 0 /\ current_health' = Health(state, m)
    ELSE UNCHANGED <<check_age, current_health>>

report_metrics_if_needed(m) ==
  IF on_metrics /\ report_age >= Second
    THEN report_age' = 0 /\ metrics' = Refreshed(m)
    ELSE report_age' = report_age /\ metrics' = m

(* The two reports come last, and only while connected.                    *)
websocket_process ==
  /\ state = "CONNECTED"
  /\ backlog' \in Backlogs
  /\ \E m \in {metrics, [metrics EXCEPT !.received = @ + 1],
                 [metrics EXCEPT !.errors = @ + 1]} :
       Receive(m) /\ check_health(m) /\ report_metrics_if_needed(m)
  /\ processed' = TRUE
  /\ UNCHANGED state
  /\ Observe(FALSE)
-----------------------------------------------------------------------------
(* The calls of the application.                                           *)

websocket_send ==
  /\ state = "CONNECTED" /\ Counted < MaxOps
  /\ metrics' = [metrics EXCEPT !.sent = @ + 1]
  /\ backlog' \in Backlogs
  /\ UNCHANGED <<state, window, reports, processed, history>>
  /\ Observe(FALSE)

websocket_get_metrics ==
  /\ UNCHANGED <<state, window, reports, backlog, processed, history>>
  /\ metrics' = Refreshed(metrics)
  /\ Observe(FALSE)

(* Variant: the index of the window is not reset.                          *)
PartialReset ==
  /\ metrics' = NoMetrics
  /\ latency_sample_count' = 0 /\ report_age' = Second
  /\ history' = << >>
  /\ UNCHANGED <<state, latency_samples, latency_sample_idx,
                 check_age, current_health, backlog, processed>>
  /\ steady' = 0

websocket_reset_metrics ==
  /\ metrics' = NoMetrics
  /\ latency_sample_count' = 0 /\ latency_sample_idx' = 0
  /\ report_age' = Second
  /\ history' = << >>
  /\ UNCHANGED <<state, latency_samples,
                 check_age, current_health, backlog, processed>>
  /\ steady' = 0

websocket_close ==
  /\ state = "CONNECTED" /\ state' = "CLOSED"
  /\ UNCHANGED <<metrics, window, reports, backlog, processed, history>>
  /\ Observe(FALSE)

(* The clock.                                                              *)
Tick ==
  /\ processed \/ state # "CONNECTED"
  /\ processed' = FALSE
  /\ report_age' = Older(report_age, Second) /\ check_age' = Older(check_age, Second)
  /\ UNCHANGED <<state, metrics, window, current_health, backlog, history>>
  /\ Observe(TRUE)

Next ==
  \/ websocket_process \/ websocket_send \/ websocket_get_metrics
  \/ websocket_reset_metrics \/ websocket_close \/ Tick

Spec == Init /\ [][Next]_vars
-----------------------------------------------------------------------------
(* "Use rolling window - overwrite oldest sample" (websocket.c): the       *)
(* window holds the latest samples since the last reset, as many as fit,   *)
(* and nothing from before: slot i the sample that was stored there last.  *)
StoredIn(i) ==
  LET first == Len(history) - latency_sample_idx + 1
  IN  IF i < latency_sample_idx THEN first + i ELSE first + i - Capacity
WindowIsRecent ==
  /\ latency_sample_count =
       IF Len(history) < Capacity THEN Len(history) ELSE Capacity
  /\ \A i \in 0 .. latency_sample_count - 1 :
       StoredIn(i) \in DOMAIN history /\ latency_samples[i] = history[StoredIn(i)]

(* check_health and report_metrics_if_needed "called periodically": with   *)
(* both callbacks set, a health that has lasted for more than two periods  *)
(* since the last reset has been reported.  (One period until the metrics  *)
(* are refreshed, one until they are looked at.)                           *)
HealthFollows ==
  on_metrics /\ on_health /\ state = "CONNECTED" /\ steady = Settled =>
    current_health = TrueHealth

(* "WS_HEALTH_UNHEALTHY  // Connection issues, errors" (websocket.h): the  *)
(* end of the connection is reported too.                                  *)
LossReported ==
  state # "CONNECTED" /\ steady = Settled => current_health = "UNHEALTHY"
=============================================================================
