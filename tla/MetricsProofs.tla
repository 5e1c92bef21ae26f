---------------------------- MODULE MetricsProofs ----------------------------
(***************************************************************************)
(* Proofs about Metrics for every capacity of the window, every period and *)
(* every threshold: the window holds the latest samples, and a health that *)
(* lasts is reported.  Nothing is used of calculate_latency_percentiles    *)
(* but that it is a function of the window.                                *)
(***************************************************************************)
EXTENDS Metrics, TLAPS

(* The window: its types, and where the next sample goes until it is full. *)
WindowInv ==
  /\ latency_samples \in [0 .. Capacity - 1 -> Nat]
  /\ latency_sample_idx \in 0 .. Capacity - 1
  /\ latency_sample_count \in 0 .. Capacity
  /\ history \in Seq(Nat)
  /\ Len(history) < Capacity => latency_sample_idx = Len(history)
  /\ WindowIsRecent

(* The modulo of update_latency_sample is a comparison.                    *)
LEMMA NextIndex ==
  ASSUME NEW i \in 0 .. Capacity - 1
  PROVE  (i + 1) % Capacity = IF i + 1 < Capacity THEN i + 1 ELSE 0
<1> USE MetricsAssumption
<1>1. CASE i + 1 < Capacity
  BY <1>1
<1>2. CASE i + 1 = Capacity
  <2>1. i + 1 = Capacity * 1 + 0
    BY <1>2
  <2> QED
    BY <2>1, <1>2
<1> QED
  BY <1>1, <1>2

(* update_latency_sample keeps the window the latest samples: the slot it  *)
(* overwrites held the oldest, and the others keep their samples.          *)
LEMMA SampleKeepsWindow ==
  ASSUME WindowInv, NEW latency \in Nat, update_latency_sample(latency)
  PROVE  WindowInv'
<1> USE MetricsAssumption
<1> DEFINE idx == latency_sample_idx
           n == Len(history)
<1>1. idx' = IF idx + 1 < Capacity THEN idx + 1 ELSE 0
  BY NextIndex DEF WindowInv, update_latency_sample
<1>2. /\ history' \in Seq(Nat) /\ Len(history') = n + 1 /\ n \in Nat
      /\ \A k \in 1 .. n : history'[k] = history[k]
      /\ history'[n + 1] = latency
  <2>1. history \in Seq(Nat) /\ history' = Append(history, latency)
    BY DEF WindowInv, update_latency_sample
  <2> QED
    BY <2>1
<1>3. /\ latency_samples' \in [0 .. Capacity - 1 -> Nat]
      /\ latency_samples'[idx] = latency
      /\ \A i \in 0 .. Capacity - 1 : i # idx => latency_samples'[i] = latency_samples[i]
  BY DEF WindowInv, update_latency_sample
<1>4. latency_sample_count = (IF n < Capacity THEN n ELSE Capacity)
  BY DEF WindowInv, WindowIsRecent
<1>5. latency_sample_count' = (IF n + 1 < Capacity THEN n + 1 ELSE Capacity)
  BY <1>2, <1>4 DEF update_latency_sample
<1>6. n + 1 < Capacity => idx' = n + 1
  <2>1. n < Capacity => idx = n
    BY DEF WindowInv
  <2> QED
    BY <2>1, <1>1, <1>2
<1>7. ASSUME NEW i \in 0 .. latency_sample_count' - 1
      PROVE  StoredIn(i)' \in DOMAIN history' /\ latency_samples'[i] = history'[StoredIn(i)']
  <2>1. i \in 0 .. Capacity - 1
    BY <1>2, <1>5
  <2>2. CASE i = idx
    <3>1. StoredIn(i)' = n + 1
      BY <2>2, <1>1, <1>2 DEF StoredIn, WindowInv
    <3> QED
      BY <3>1, <2>2, <1>2, <1>3
  <2>3. CASE i # idx
    <3>1. i \in 0 .. latency_sample_count - 1
      <4>1. n < Capacity => idx = n
        BY DEF WindowInv
      <4> QED
        BY <4>1, <2>3, <2>1, <1>2, <1>4, <1>5
    <3>2. StoredIn(i)' = StoredIn(i)
      <4>1. idx \in 0 .. Capacity - 1 /\ n \in Nat /\ Len(history') = n + 1
        BY <1>2 DEF WindowInv
      <4>2. CASE idx + 1 < Capacity
        BY <4>1, <4>2, <2>1, <2>3, <1>1 DEF StoredIn
      <4>3. CASE idx + 1 = Capacity
        BY <4>1, <4>3, <2>1, <2>3, <1>1 DEF StoredIn
      <4> QED
        BY <4>1, <4>2, <4>3
    <3>3. StoredIn(i) \in DOMAIN history /\ latency_samples[i] = history[StoredIn(i)]
      BY <3>1 DEF WindowInv, WindowIsRecent
    <3>4. DOMAIN history = 1 .. n
      BY DEF WindowInv
    <3>5. DOMAIN history' = 1 .. n + 1
      BY <1>2
    <3>6. StoredIn(i) \in 1 .. n /\ history'[StoredIn(i)] = history[StoredIn(i)]
      BY <3>3, <3>4, <1>2
    <3>7. latency_samples'[i] = latency_samples[i]
      BY <2>1, <2>3, <1>3
    <3>8. StoredIn(i) \in 1 .. n + 1
      BY <3>6, <1>2
    <3> QED
      BY <3>2, <3>3, <3>5, <3>6, <3>7, <3>8
  <2> QED
    BY <2>2, <2>3
<1>8. latency_sample_idx' \in 0 .. Capacity - 1 /\ latency_sample_count' \in 0 .. Capacity
  <2>1. idx \in 0 .. Capacity - 1
    BY DEF WindowInv
  <2>2. idx' \in 0 .. Capacity - 1
    BY <2>1, <1>1
  <2> QED
    BY <2>2, <1>2, <1>5
<1>9. WindowIsRecent'
  BY <1>2, <1>5, <1>7 DEF WindowIsRecent
<1> QED
  BY <1>2, <1>3, <1>6, <1>8, <1>9 DEF WindowInv

(* The other actions leave the window alone or empty it.                   *)
LEMMA StepKeepsWindow == WindowInv /\ [Next]_vars => WindowInv'
<1> SUFFICES ASSUME WindowInv, [Next]_vars PROVE WindowInv'
  OBVIOUS
<1>1. CASE UNCHANGED <<window, history>>
  BY <1>1 DEF window, WindowInv, WindowIsRecent, StoredIn
<1>2. CASE websocket_process
  <2>1. PICK m : Receive(m)
    BY <1>2 DEF websocket_process
  <2>2. CASE \E latency \in Latencies : update_latency_sample(latency)
    BY <2>2, SampleKeepsWindow, MetricsAssumption
  <2> QED
    BY <2>1, <2>2, <1>1 DEF Receive
<1>3. CASE websocket_reset_metrics
  <2> USE <1>3, MetricsAssumption DEF websocket_reset_metrics
  <2>1. history' \in Seq(Nat) /\ Len(history') = 0
    OBVIOUS
  <2>2. WindowIsRecent'
    BY <2>1 DEF WindowIsRecent
  <2> QED
    BY <2>1, <2>2 DEF WindowInv
<1>4. CASE websocket_send \/ websocket_get_metrics \/ websocket_close \/ Tick
  BY <1>4, <1>1 DEF websocket_send, websocket_get_metrics, websocket_close, Tick
<1>5. CASE UNCHANGED vars
  BY <1>5, <1>1 DEF vars
<1> QED
  BY <1>2, <1>3, <1>4, <1>5 DEF Next

(* The window is always the latest samples since the last reset, however   *)
(* large it is and wherever a reset falls: update_latency_sample's rolling *)
(* index never leaves it and never overwrites any but the oldest sample.   *)
THEOREM WindowStaysRecent == Spec => []WindowIsRecent
<1>1. Init => WindowInv
  <2> SUFFICES ASSUME Init PROVE WindowInv
    OBVIOUS
  <2> USE MetricsAssumption DEF Init
  <2>1. history \in Seq(Nat) /\ Len(history) = 0
    OBVIOUS
  <2>2. WindowIsRecent
    BY <2>1 DEF WindowIsRecent
  <2> QED
    BY <2>1, <2>2 DEF WindowInv
<1>2. WindowInv => WindowIsRecent
  BY DEF WindowInv
<1> QED
  BY <1>1, <1>2, StepKeepsWindow, PTL DEF Spec
-----------------------------------------------------------------------------
(* Health.                                                                 *)

(* The health that the metrics give as they are, without being refreshed.  *)
Known == Health(state, metrics)

(* Types, and the two delays: what is known is the true health once that   *)
(* has outlasted the last report, and what was reported is once it has     *)
(* outlasted the last check by a period.  Both reports are renewed before  *)
(* the clock moves on, unless a reset has just started everything anew.    *)
HealthInv ==
  /\ DOMAIN metrics = DOMAIN NoMetrics
  /\ report_age \in 0 .. Second /\ check_age \in 0 .. Second
  /\ steady \in 0 .. Settled /\ processed \in BOOLEAN
  /\ on_metrics /\ on_health /\ state = "CONNECTED" =>
       /\ processed => report_age < Second \/ steady = 0
       /\ processed => check_age < Second
       /\ steady > report_age => Known = TrueHealth
       /\ steady > check_age + Second => current_health = TrueHealth

(* The grades of a connection, given whether it is strained.               *)
Grade(m, strained) ==
  IF ErrorProne(m) THEN "UNHEALTHY" ELSE IF strained THEN "DEGRADED" ELSE "OK"
TrulyStrained ==
  \/ calculate_latency_percentiles(latency_samples, latency_sample_count).p99 > MaxP99
  \/ backlog > MaxBacklog

(* Refreshing the metrics changes the strain and nothing else.             *)
LEMMA RefreshedHealth ==
  ASSUME NEW m, DOMAIN m = DOMAIN NoMetrics, NEW p, NEW unread
  PROVE  LET f == [m EXCEPT !.p50 = p.p50, !.p99 = p.p99, !.unread = unread]
         IN  /\ Health("CONNECTED", f) = Grade(m, p.p99 > MaxP99 \/ unread > MaxBacklog)
             /\ ErrorProne(f) = ErrorProne(m)
             /\ DOMAIN f = DOMAIN NoMetrics
<1> DEFINE f == [m EXCEPT !.p50 = p.p50, !.p99 = p.p99, !.unread = unread]
<1>1. /\ f.received = m.received /\ f.sent = m.sent /\ f.errors = m.errors
      /\ f.p99 = p.p99 /\ f.unread = unread /\ DOMAIN f = DOMAIN m
  BY DEF NoMetrics
<1>2. ErrorProne(f) = ErrorProne(m)
  BY <1>1 DEF ErrorProne
<1>3. Strained(f) = (p.p99 > MaxP99 \/ unread > MaxBacklog)
  BY <1>1 DEF Strained
<1> QED
  BY <1>1, <1>2, <1>3 DEF Health, Grade

(* Counting leaves what is known of the strain: if the true health stays,  *)
(* the known one stays with it.                                            *)
LEMMA KnownStaysTrue ==
  ASSUME NEW m, NEW n, n.p99 = m.p99, n.unread = m.unread,
         NEW s \in BOOLEAN, NEW t \in BOOLEAN,
         Health("CONNECTED", m) = Grade(m, s), Grade(n, t) = Grade(m, s)
  PROVE  Health("CONNECTED", n) = Grade(n, t)
BY DEF Health, Grade, Strained

(* The true health, before and after a step.                               *)
LEMMA TrueGrade ==
  ASSUME HealthInv, state = "CONNECTED"
  PROVE  TrueHealth = Grade(metrics, TrulyStrained)
BY RefreshedHealth DEF TrueHealth, TrulyStrained, HealthInv

LEMMA TrueGradeAfter ==
  ASSUME DOMAIN metrics' = DOMAIN NoMetrics, state' = "CONNECTED"
  PROVE  TrueHealth' = Grade(metrics', TrulyStrained')
BY RefreshedHealth DEF TrueHealth, TrulyStrained

(* What every action does to steady, without the clock.                    *)
LEMMA SteadyAfter ==
  ASSUME HealthInv, Observe(FALSE)
  PROVE  steady' = (IF TrueHealth' = TrueHealth THEN steady ELSE 0)
BY DEF Observe

(* A step that leaves the ages, the reports and the clock alone, and of    *)
(* the metrics at most counts: what is known stays true.                   *)
LEMMA CountingKeepsHealth ==
  ASSUME HealthInv, Observe(FALSE), state' = state,
         UNCHANGED <<report_age, check_age, current_health, processed>>,
         DOMAIN metrics' = DOMAIN NoMetrics,
         metrics'.p99 = metrics.p99, metrics'.unread = metrics.unread
  PROVE  HealthInv'
<1>1. steady' = IF TrueHealth' = TrueHealth THEN steady ELSE 0
  BY SteadyAfter
<1>2. steady' \in 0 .. Settled /\ report_age' \in 0 .. Second /\ check_age' \in 0 .. Second
  BY <1>1, MetricsAssumption DEF HealthInv, Settled
<1>3. ASSUME state = "CONNECTED", steady > report_age, Known = TrueHealth,
             TrueHealth' = TrueHealth
      PROVE  Known' = TrueHealth'
  <2>1. TrueHealth = Grade(metrics, TrulyStrained)
    BY <1>3, TrueGrade
  <2>2. TrueHealth' = Grade(metrics', TrulyStrained')
    BY <1>3, TrueGradeAfter
  <2>3. TrulyStrained \in BOOLEAN /\ TrulyStrained' \in BOOLEAN
    BY DEF TrulyStrained
  <2> QED
    <3>1. Health("CONNECTED", metrics) = Grade(metrics, TrulyStrained)
      BY <1>3, <2>1 DEF Known
    <3>2. Health("CONNECTED", metrics') = Grade(metrics', TrulyStrained')
      BY <3>1, <2>1, <2>2, <2>3, <1>3, KnownStaysTrue
    <3> QED
      BY <3>2, <2>2, <1>3 DEF Known
<1>4. CASE on_metrics /\ on_health /\ state' = "CONNECTED"
  <2>1. steady' > report_age' => Known' = TrueHealth'
    BY <1>1, <1>2, <1>3, <1>4, MetricsAssumption DEF HealthInv
  <2>2. steady' > check_age' + Second => current_health' = TrueHealth'
    BY <1>1, <1>2, <1>4, MetricsAssumption DEF HealthInv
  <2>3. processed' => (report_age' < Second \/ steady' = 0) /\ check_age' < Second
    BY <1>1, <1>4 DEF HealthInv
  <2> QED
    BY <1>2, <2>1, <2>2, <2>3 DEF HealthInv
<1> QED
  BY <1>2, <1>4 DEF HealthInv

(* Once the metrics have been refreshed, the true health is known.         *)
LEMMA RefreshedIsTrue ==
  ASSUME NEW m, DOMAIN m = DOMAIN NoMetrics, metrics' = Refreshed(m)
  PROVE  /\ DOMAIN metrics' = DOMAIN NoMetrics
         /\ ErrorProne(metrics') = ErrorProne(m)
         /\ state' = "CONNECTED" => Known' = TrueHealth'
<1> DEFINE p == calculate_latency_percentiles(latency_samples', latency_sample_count')
<1>1. metrics' = [m EXCEPT !.p50 = p.p50, !.p99 = p.p99, !.unread = backlog']
  BY DEF Refreshed
<1>2. TrulyStrained' = (p.p99 > MaxP99 \/ backlog' > MaxBacklog)
  BY DEF TrulyStrained
<1> HIDE DEF p
<1>3. /\ Health("CONNECTED", metrics') = Grade(m, TrulyStrained')
      /\ ErrorProne(metrics') = ErrorProne(m)
      /\ DOMAIN metrics' = DOMAIN NoMetrics
  <2> DEFINE f == [m EXCEPT !.p50 = p.p50, !.p99 = p.p99, !.unread = backlog']
  <2>1. /\ Health("CONNECTED", f) = Grade(m, p.p99 > MaxP99 \/ backlog' > MaxBacklog)
        /\ ErrorProne(f) = ErrorProne(m)
        /\ DOMAIN f = DOMAIN NoMetrics
    BY RefreshedHealth
  <2>2. metrics' = f
    BY <1>1
  <2> HIDE DEF f
  <2> QED
    BY <2>1, <2>2, <1>2
<1>4. Grade(metrics', TrulyStrained') = Grade(m, TrulyStrained')
  BY <1>3 DEF Grade
<1> QED
  BY <1>3, <1>4, TrueGradeAfter DEF Known

LEMMA SendKeepsHealth == HealthInv /\ websocket_send => HealthInv'
<1> SUFFICES ASSUME HealthInv, websocket_send PROVE HealthInv'
  OBVIOUS
<1>1. /\ DOMAIN metrics' = DOMAIN NoMetrics
      /\ metrics'.p99 = metrics.p99 /\ metrics'.unread = metrics.unread
  BY DEF websocket_send, HealthInv, NoMetrics
<1> QED
  BY <1>1, CountingKeepsHealth DEF websocket_send, reports

(* websocket_get_metrics: now the true health is known.                    *)
LEMMA GetMetricsKeepsHealth == HealthInv /\ websocket_get_metrics => HealthInv'
<1> SUFFICES ASSUME HealthInv, websocket_get_metrics PROVE HealthInv'
  OBVIOUS
<1>1. /\ UNCHANGED <<state, report_age, check_age, current_health, processed>>
      /\ metrics' = Refreshed(metrics) /\ Observe(FALSE)
  BY DEF websocket_get_metrics, reports
<1>2. steady' = IF TrueHealth' = TrueHealth THEN steady ELSE 0
  BY <1>1, SteadyAfter
<1>3. DOMAIN metrics' = DOMAIN NoMetrics
  BY <1>1, RefreshedIsTrue DEF HealthInv
<1>4. state = "CONNECTED" => Known' = TrueHealth'
  BY <1>1, RefreshedIsTrue DEF HealthInv
<1>5. steady' \in 0 .. Settled
  BY <1>2, MetricsAssumption DEF HealthInv, Settled
<1>6. CASE on_metrics /\ on_health /\ state = "CONNECTED"
  <2>1. steady' > check_age' + Second => current_health' = TrueHealth'
    BY <1>1, <1>2, <1>6, MetricsAssumption DEF HealthInv
  <2>2. processed' => (report_age' < Second \/ steady' = 0) /\ check_age' < Second
    BY <1>1, <1>2, <1>6 DEF HealthInv
  <2> QED
    BY <1>1, <1>3, <1>4, <1>5, <1>6, <2>1, <2>2 DEF HealthInv
<1> QED
  BY <1>1, <1>3, <1>5, <1>6 DEF HealthInv

(* websocket_reset_metrics starts everything anew.                         *)
LEMMA ResetKeepsHealth == HealthInv /\ websocket_reset_metrics => HealthInv'
BY MetricsAssumption DEF HealthInv, websocket_reset_metrics, Settled

(* A closed connection makes no promise.                                   *)
LEMMA CloseKeepsHealth == HealthInv /\ websocket_close => HealthInv'
<1> SUFFICES ASSUME HealthInv, websocket_close PROVE HealthInv'
  OBVIOUS
<1>1. steady' \in 0 .. Settled
  BY SteadyAfter, MetricsAssumption DEF websocket_close, HealthInv, Settled
<1> QED
  BY <1>1 DEF HealthInv, websocket_close, reports

(* The clock moves on only after both reports were due or have been made.  *)
LEMMA TickKeepsHealth == HealthInv /\ Tick => HealthInv'
<1> SUFFICES ASSUME HealthInv, Tick PROVE HealthInv'
  OBVIOUS
<1> USE MetricsAssumption
<1>1. /\ UNCHANGED <<state, metrics, window, current_health, backlog>>
      /\ processed' = FALSE
  BY DEF Tick
<1>2. TrueHealth' = TrueHealth /\ Known' = Known
  BY <1>1 DEF TrueHealth, Known, window
<1>3. /\ steady' = Older(steady, Settled)
      /\ report_age' = Older(report_age, Second) /\ check_age' = Older(check_age, Second)
  BY <1>2 DEF Tick, Observe
<1>4. /\ steady' \in 0 .. Settled
      /\ report_age' \in 0 .. Second /\ check_age' \in 0 .. Second
  BY <1>3 DEF HealthInv, Older, Settled
<1>5. CASE on_metrics /\ on_health /\ state = "CONNECTED"
  <2>1. processed
    BY <1>5 DEF Tick
  <2>2. steady' > report_age' => steady > report_age
    BY <2>1, <1>3, <1>5 DEF HealthInv, Older, Settled
  <2>3. steady' > check_age' + Second => steady > check_age + Second
    BY <2>1, <1>3, <1>5 DEF HealthInv, Older, Settled
  <2> QED
    BY <1>1, <1>2, <1>4, <1>5, <2>2, <2>3 DEF HealthInv
<1> QED
  BY <1>1, <1>4, <1>5 DEF HealthInv

(* websocket_process: first check_health, with what was known before, then *)
(* report_metrics_if_needed, which makes the true health known.            *)
LEMMA ProcessKeepsHealth == HealthInv /\ websocket_process => HealthInv'
<1> SUFFICES ASSUME HealthInv, websocket_process PROVE HealthInv'
  OBVIOUS
<1> USE MetricsAssumption
<1>1. PICK m \in {metrics, [metrics EXCEPT !.received = @ + 1],
                  [metrics EXCEPT !.errors = @ + 1]} :
        check_health(m) /\ report_metrics_if_needed(m)
  BY DEF websocket_process
<1>2. /\ state = "CONNECTED" /\ state' = "CONNECTED" /\ processed' = TRUE
      /\ Observe(FALSE)
  BY DEF websocket_process
<1>3. DOMAIN m = DOMAIN NoMetrics /\ m.p99 = metrics.p99 /\ m.unread = metrics.unread
  BY DEF HealthInv, NoMetrics
<1>4. steady' = IF TrueHealth' = TrueHealth THEN steady ELSE 0
  BY <1>2, SteadyAfter
<1>5. /\ DOMAIN metrics' = DOMAIN NoMetrics
      /\ ErrorProne(metrics') = ErrorProne(m)
      /\ metrics' = m \/ Known' = TrueHealth'
  BY <1>1, <1>2, <1>3, RefreshedIsTrue DEF report_metrics_if_needed
<1>6. /\ report_age' = IF on_metrics /\ report_age >= Second THEN 0 ELSE report_age
      /\ check_age' = IF on_health /\ check_age >= Second THEN 0 ELSE check_age
  BY <1>1 DEF check_health, report_metrics_if_needed
<1>7. /\ steady' \in 0 .. Settled
      /\ report_age' \in 0 .. Second /\ check_age' \in 0 .. Second
  BY <1>4, <1>6 DEF HealthInv, Settled
<1>8. CASE on_metrics /\ on_health
  <2>1. ASSUME TrueHealth' = TrueHealth, steady > report_age
        PROVE  Health("CONNECTED", m) = TrueHealth'
    <3>1. TrueHealth = Grade(metrics, TrulyStrained)
      BY <1>2, TrueGrade
    <3>2. TrueHealth' = Grade(m, TrulyStrained')
      BY <1>2, <1>5, TrueGradeAfter DEF Grade
    <3>3. Health("CONNECTED", metrics) = TrueHealth
      BY <1>2, <1>8, <2>1 DEF HealthInv, Known
    <3>4. TrulyStrained \in BOOLEAN /\ TrulyStrained' \in BOOLEAN
      BY DEF TrulyStrained
    <3> QED
      BY <3>1, <3>2, <3>3, <3>4, <2>1, <1>3, KnownStaysTrue
  <2>2. report_age' < Second /\ check_age' < Second
    BY <1>6, <1>8 DEF HealthInv
  <2>3. ASSUME steady' > report_age' PROVE Known' = TrueHealth'
    <3>1. CASE report_age >= Second
      BY <3>1, <1>1, <1>2, <1>3, <1>8, RefreshedIsTrue DEF report_metrics_if_needed
    <3>2. CASE ~(report_age >= Second)
      <4>1. report_age' = report_age /\ metrics' = m
        BY <3>2, <1>1 DEF report_metrics_if_needed
      <4>2. TrueHealth' = TrueHealth /\ steady > report_age
        BY <4>1, <2>3, <1>4 DEF HealthInv
      <4> QED
        BY <4>1, <4>2, <2>1, <1>2 DEF Known
    <3> QED
      BY <3>1, <3>2
  <2>4. ASSUME steady' > check_age' + Second PROVE current_health' = TrueHealth'
    <3>1. TrueHealth' = TrueHealth /\ steady' = steady
      BY <2>4, <1>4, <1>7
    <3>2. CASE check_age >= Second
      <4>1. current_health' = Health("CONNECTED", m)
        BY <3>2, <1>1, <1>2, <1>8 DEF check_health
      <4>2. steady > report_age
        BY <2>4, <3>1, <1>7 DEF HealthInv
      <4> QED
        BY <4>1, <4>2, <3>1, <2>1
    <3>3. CASE ~(check_age >= Second)
      <4>1. current_health' = current_health /\ check_age' = check_age
        BY <3>3, <1>1 DEF check_health
      <4> QED
        BY <4>1, <3>1, <2>4, <1>2, <1>8 DEF HealthInv
    <3> QED
      BY <3>2, <3>3
  <2> QED
    BY <1>2, <1>5, <1>7, <2>2, <2>3, <2>4 DEF HealthInv
<1> QED
  BY <1>2, <1>5, <1>7, <1>8 DEF HealthInv

(* With both callbacks set, a health that has lasted for two periods is    *)
(* the one last reported to on_health: check_health lags behind            *)
(* report_metrics_if_needed by at most one period, and that behind the     *)
(* truth by at most one, whatever the application calls in between.        *)
THEOREM HealthIsReported == Spec => []HealthFollows
<1>1. Init => HealthInv
  <2> SUFFICES ASSUME Init PROVE HealthInv
    OBVIOUS
  <2>1. /\ steady = 0 /\ 0 \in 0 .. Settled /\ processed = FALSE
        /\ report_age = Second /\ check_age = Second /\ Second \in 0 .. Second
        /\ ~(0 > Second) /\ ~(0 > Second + Second)
    BY MetricsAssumption DEF Init, Settled
  <2>2. DOMAIN metrics = DOMAIN NoMetrics
    BY DEF Init
  <2> QED
    BY <2>1, <2>2 DEF HealthInv
<1>2. HealthInv /\ [Next]_vars => HealthInv'
  <2> SUFFICES ASSUME HealthInv, [Next]_vars PROVE HealthInv'
    OBVIOUS
  <2>1. CASE UNCHANGED vars
    BY <2>1 DEF vars, reports, window, HealthInv, Known, TrueHealth
  <2> QED
    BY <2>1, ProcessKeepsHealth, SendKeepsHealth, GetMetricsKeepsHealth,
       ResetKeepsHealth, CloseKeepsHealth, TickKeepsHealth DEF Next
<1>3. HealthInv => HealthFollows
  BY MetricsAssumption DEF HealthInv, HealthFollows, Settled
<1> QED
  BY <1>1, <1>2, <1>3, PTL DEF Spec
=============================================================================
