------------------------------- MODULE Report -------------------------------
(***************************************************************************)
(* What harvest/report.py and harvest/compare.py compute from the rows of  *)
(* a jobs file.  A row has an id, the phase of its job in the shared       *)
(* schema, ok, bytes, wall, the platform's execution time or None and the  *)
(* sum of the handler's breakdown or None; times are whole seconds.        *)
(* Medians are doubled, so that they stay whole.  Only the numbers are     *)
(* modelled, not the Markdown around them.                                 *)
(***************************************************************************)
EXTENDS Integers, FiniteSets, Sequences, SequencesExt

CONSTANT None   \* a value that is absent

Phases == {"baseline", "populate", "warm"}

\* schema_phase: the shim's driver says cold.
schema_phase(phase) == IF phase = "cold" THEN "populate" ELSE phase

\* Python's round of n / 100: a tie goes to the even neighbour.
Round(n) ==
    LET q == n \div 100
        r == n % 100
    IN  IF r > 50 \/ (r = 50 /\ q % 2 = 1) THEN q + 1 ELSE q

\* The k-th smallest value, from 1, of a bucket (a function of its rows): what
\* the sorted list has at that place.
Nth(bucket, k) ==
    CHOOSE v \in Range(bucket) :
        /\ Cardinality({ r \in DOMAIN bucket : bucket[r] < v }) < k
        /\ k <= Cardinality({ r \in DOMAIN bucket : bucket[r] <= v })

\* statistics.median, doubled.
Median2(bucket) ==
    LET n == Cardinality(DOMAIN bucket)
    IN  IF n % 2 = 1 THEN 2 * Nth(bucket, (n + 1) \div 2)
        ELSE Nth(bucket, n \div 2) + Nth(bucket, n \div 2 + 1)

\* The index, from 1, that stands for the 95th percentile of n values.
P95Index(n) == LET i == Round(95 * n) - 1 IN (IF i > 0 THEN i ELSE 0) + 1

TotalBytes(rows) == FoldSet(LAMBDA r, sum : sum + r.bytes, 0, rows)

\* _stats of a nonempty bucket.
Stats(bucket) ==
    LET n == Cardinality(DOMAIN bucket)
    IN  [n |-> n, median2 |-> Median2(bucket), p95 |-> Nth(bucket, P95Index(n)),
         total_bytes |-> TotalBytes(DOMAIN bucket)]

\* The rows of one phase that count: those of jobs that succeeded.
OkRows(rows, phase) == { r \in rows : r.ok /\ r.phase = phase }

\* latency_by_schema_phase: a bucket for each phase that has such a row.
Latency(rows) ==
    [p \in { q \in Phases : OkRows(rows, q) # {} } |-> Stats([r \in OkRows(rows, p) |-> r.wall])]

\* _steady_seconds: the platform's execution time, or the breakdown.
Steady(r) == IF r.exec # None THEN r.exec ELSE r.breakdown

\* steady_state_by_schema_phase: rows with neither are passed over.
TimedRows(rows, phase) == { r \in OkRows(rows, phase) : Steady(r) # None }
SteadyState(rows) ==
    [p \in { q \in Phases : TimedRows(rows, q) # {} } |->
        Stats([r \in TimedRows(rows, p) |-> Steady(r)])]

\* _ratio: a fraction, or None.
Ratio(num, den) ==
    IF num = None \/ den = None \/ den = 0 THEN None ELSE <<num, den>>

\* _median_s of a phase's bucket; None when there is none.
MedianOf(stats, phase) == IF phase \in DOMAIN stats THEN stats[phase].median2 ELSE None

\* headline_vs_baseline.
Headline(rows) ==
    [n_ok |-> Cardinality({ r \in rows : r.ok }),
     total_bytes |-> TotalBytes({ r \in rows : r.ok }),
     speedup |-> Ratio(MedianOf(Latency(rows), "baseline"), MedianOf(Latency(rows), "warm"))]

\* _pick_bucket over _WARM_PHASE_PRIORITY.
WarmPhase(stats) ==
    IF "warm" \in DOMAIN stats THEN "warm"
    ELSE IF "populate" \in DOMAIN stats THEN "populate" ELSE None

\* mechanism_stats: the phase each view takes for warm, and the two speedups.
MechanismStats(rows) ==
    LET wall == Latency(rows)
        exec == SteadyState(rows)
    IN  [wall_phase |-> WarmPhase(wall),
         exec_phase |-> WarmPhase(exec),
         coldstart_speedup |-> Ratio(MedianOf(wall, "baseline"), MedianOf(wall, WarmPhase(wall))),
         steadystate_speedup |-> Ratio(MedianOf(exec, "baseline"), MedianOf(exec, WarmPhase(exec)))]

\* _final_by_pod: the latest sample of each pod, added up; a pod without one is
\* passed over.
FinalByPod(latest) ==
    FoldSet(LAMBDA g, sum : sum + latest[g], 0, { g \in DOMAIN latest : latest[g] # None })
=============================================================================
