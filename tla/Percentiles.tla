----------------------------- MODULE Percentiles -----------------------------
(***************************************************************************)
(* calculate_latency_percentiles: a bubble sort of a copy of the first     *)
(* count samples, and the two indices taken from it.  Samples are a        *)
(* function on 0 .. n - 1 with n >= count.                                 *)
(***************************************************************************)
EXTENDS Integers

CONSTANTS P99Num, P99Den  \* 0.99 as a fraction

ASSUME PercentileAssumption ==
  P99Num \in Nat /\ P99Den \in Nat /\ P99Num < P99Den

Swap(s, j) ==
  IF s[j] > s[j + 1] THEN [s EXCEPT ![j] = s[j + 1], ![j + 1] = s[j]] ELSE s

(* One run of the inner loop, over the first n pairs.                      *)
Pass(s, n) ==
  LET bubble[j \in 0 .. n] == IF j = 0 THEN s ELSE Swap(bubble[j - 1], j - 1)
  IN  bubble[n]

(* Variant: the inner loop always stops one pair early.                    *)
ShortSort(s, count) ==
  LET pass[i \in 0 .. count - 1] ==
        IF i = 0 THEN s ELSE Pass(pass[i - 1], count - i - 1)
  IN  pass[count - 1]

BubbleSort(s, count) ==
  LET pass[i \in 0 .. count - 1] ==
        IF i = 0 THEN s ELSE Pass(pass[i - 1], count - i)
  IN  pass[count - 1]

P50Idx(count) == count \div 2
P99Idx(count) ==
  LET i == (count * P99Num) \div P99Den IN IF i >= count THEN count - 1 ELSE i

calculate_latency_percentiles(samples, count) ==
  IF count = 0 THEN [p50 |-> 0, p99 |-> 0]
  ELSE LET sorted == BubbleSort(samples, count)
       IN  [p50 |-> sorted[P50Idx(count)], p99 |-> sorted[P99Idx(count)]]
=============================================================================
