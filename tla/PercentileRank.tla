--------------------------- MODULE PercentileRank ---------------------------
(***************************************************************************)
(* The percentile indices of LatencyStats::percentile() for every sample   *)
(* count up to MaxCount, compared with the specification's nearest rank.  *)
(* The state is the sample count computeStats() sorts.                     *)
(***************************************************************************)
EXTENDS Percentile

CONSTANT MaxCount   \* largest sample count checked

VARIABLE n

Init == n \in 1 .. MaxCount

Next == UNCHANGED n

Spec == Init /\ [][Next]_n

(* The specification (section 4.5, step 6, and acceptance scenario 6):    *)
(* percentile() reports sorted[min(n, max(1, ceil(p * n / 100))) - 1] for *)
(* each of p50, p95, p99, p99.9 and p99.99.                                 *)
RankIsNearestRank ==
  \A i \in DOMAIN Levels : RankIndex(Levels[i], n) = NearestRank(Levels[i], n)
====
