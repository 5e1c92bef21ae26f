SPECIFICATION Spec
CONSTANTS
  on_metrics = TRUE
  on_health = TRUE
  P99Num = 99
  P99Den = 100
  Capacity = 2
  Latencies = {1, 9}
  MaxP99 = 5
  ErrorShare = 2
  Backlogs = {0, 7}
  MaxBacklog = 6
  Second = 2
  MaxOps = 3
INVARIANTS
  WindowIsRecent
  HealthFollows
