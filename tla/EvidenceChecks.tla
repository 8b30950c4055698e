--------------------------- MODULE EvidenceChecks ---------------------------
(* What the evidence of an experiment is computed with, as functions: the     *)
(* optimum the greedy allocation is compared with (sim/optimality_gap.py),    *)
(* the compliance counts of a log of contacts (sim/mediation_metrics.py), the *)
(* totals of an arm (sim/metrics.py) and the gate that admits result files    *)
(* and compares the arms (sim/gate.py).  The properties at the end are over   *)
(* given inputs; MCAgentEnforcement evaluates them.                           *)
EXTENDS Integers, Sequences, FiniteSets, FiniteSetsExt, Functions

-----------------------------------------------------------------------------
(* sim/optimality_gap.py.  A group is the sequence of <<value, weight>> of the *)
(* admitted requests of one customer, of which one may be chosen.              *)

Units(weight, granularity) == (weight + granularity - 1) \div granularity

\* The best value within c units, group by group: none of the group, or one of
\* its items on what the groups before it leave.
SolveMckp(groups, capacity, granularity) ==
  LET units == capacity \div granularity
      dp[g \in 0..Len(groups)] ==
        IF g = 0 THEN [c \in 0..units |-> 0]
        ELSE [c \in 0..units |->
                Max({dp[g - 1][c]} \cup
                    {dp[g - 1][c - Units(i[2], granularity)] + i[1] :
                       i \in {j \in Range(groups[g]) : Units(j[2], granularity) <= c}})]
  IN Max(Range(dp[Len(groups)]))

\* An allocation takes item choice[g] of group g, or none for 0.
Allocations(groups) ==
  {a \in [DOMAIN groups -> 0..Max({Len(groups[g]) : g \in DOMAIN groups})] :
     \A g \in DOMAIN groups : a[g] <= Len(groups[g])}

Taken(groups, a) == {g \in DOMAIN groups : a[g] # 0}
Worth(groups, a) == MapThenSumSet(LAMBDA g : groups[g][a[g]][1], Taken(groups, a))
Cost(groups, a) == MapThenSumSet(LAMBDA g : groups[g][a[g]][2], Taken(groups, a))
Feasible(groups, capacity) == {a \in Allocations(groups) : Cost(groups, a) <= capacity}

-----------------------------------------------------------------------------
(* sim/mediation_metrics.py.  The contacts of one customer are the hours they *)
(* were sent at, in time order; day is the window of an hour.                 *)

Cap24 == 1
Cap7 == 2

WithinBefore(times, i, hours) ==
  Cardinality({j \in 1..(i - 1) : times[i] - times[j] < hours})

Cap24Breaches(times) == Cardinality({i \in DOMAIN times : WithinBefore(times, i, 24) >= Cap24})
Cap7Breaches(times) == Cardinality({i \in DOMAIN times : WithinBefore(times, i, 24 * 7) >= Cap7})
ThreeInADay(times) == \E i \in DOMAIN times : WithinBefore(times, i, 24) + 1 >= 3

Day(time) == time \div 24
ConflictingIncidents(times) ==
  Len(times) - Cardinality({Day(times[i]) : i \in DOMAIN times})

-----------------------------------------------------------------------------
(* sim/metrics.py.  A contact outcome is [agent, recovered, paise, incentive]. *)

Sum(outcomes, f(_)) == MapThenSumSet(LAMBDA i : f(outcomes[i]), DOMAIN outcomes)

Metrics(outcomes) ==
  LET won == {i \in DOMAIN outcomes : outcomes[i].recovered} IN
    [contacts |-> Len(outcomes), recoveries |-> Cardinality(won),
     recovered |-> MapThenSumSet(LAMBDA i : outcomes[i].paise, won),
     incentive |-> MapThenSumSet(LAMBDA i : outcomes[i].incentive, won)]

-----------------------------------------------------------------------------
(* sim/gate.py.  A result file: 0 stands for a field that is not there.       *)

\* load_seed_row: both files exist, say they are the seed, the arm, the backend
\* and the ablation they are read for, and B's carries its constants and its
\* compliance counts.
Admitted(a, b, seed, ablation) ==
  /\ a.exists /\ b.exists
  /\ a.seed = seed /\ b.seed = seed
  /\ a.fields /\ b.fields
  /\ a.arm = "A" /\ b.arm = "B"
  /\ b.backend = "postgres" /\ b.ablation = ablation
  /\ b.sha # 0 /\ b.compliance

\* compute_gate over the rows of all seeds, each [a, b, sha] with the recovered
\* paise per contact of the two arms; the means are over the seeds.
Consistent(rows) == \A i, j \in DOMAIN rows : rows[i].sha = rows[j].sha
GatePasses(rows) ==
  Sum(rows, LAMBDA r : r.b) > Sum(rows, LAMBDA r : r.a)

-----------------------------------------------------------------------------
(* Properties.                                                                *)

\* The optimum found is that of an allocation that fits: never above the best
\* one, and the best one itself when the granularity divides every weight and
\* the capacity (sim/optimality_gap.py, _solve_mckp).
OptimumIsFeasible(instances, capacities, granularities) ==
  \A groups \in instances, c \in capacities, g \in granularities :
    LET best == Max({Worth(groups, a) : a \in Feasible(groups, c)})
        found == SolveMckp(groups, c, g)
    IN /\ found <= best
       /\ (c % g = 0 /\ \A k \in DOMAIN groups : \A i \in Range(groups[k]) : i[2] % g = 0)
            => found = best

\* Line 195 gives the ratio of achieved to optimal as within (0, 1].  It is not:
\* weights are rounded up one by one and the capacity down, so an allocation
\* that fits in paise may be worth more than the optimum found.
AchievedMayExceedOptimum(instances, capacities, granularities) ==
  \E groups \in instances, c \in capacities, g \in granularities :
    \E a \in Feasible(groups, c) : Worth(groups, a) > SolveMckp(groups, c, g)

\* The counts are zero exactly for the contacts that keep the caps at every
\* moment, a third contact in a day is two breaches of the daily cap, and two
\* contacts in one window are never missed by the daily cap
\* (sim/mediation_metrics.py, compute_compliance_metrics).
ComplianceCountsBreaches(schedules) ==
  \A t \in {s \in schedules : \A i, j \in DOMAIN s : i < j => s[i] <= s[j]} :
    LET atOnce(hours) ==
          Max({0} \cup {Cardinality({j \in DOMAIN t : t[i] <= t[j] /\ t[j] - t[i] < hours}) :
                          i \in DOMAIN t})
    IN /\ Cap24Breaches(t) = 0 <=> atOnce(24) <= Cap24
       /\ Cap7Breaches(t) = 0 <=> atOnce(24 * 7) <= Cap7
       /\ ThreeInADay(t) => Cap24Breaches(t) >= 2
       /\ ConflictingIncidents(t) <= Cap24Breaches(t)

\* The agents' totals add up to the arm's, whichever agents appear.
AgentsAddUp(logs) ==
  \A l \in logs :
    LET of(x) == Metrics([i \in 1..Cardinality({j \in DOMAIN l : l[j].agent = x}) |->
                            l[CHOOSE j \in DOMAIN l : l[j].agent = x /\
                                Cardinality({k \in 1..j : l[k].agent = x}) = i]])
        agents == {l[i].agent : i \in DOMAIN l}
    IN \A field \in DOMAIN Metrics(l) :
         MapThenSumSet(LAMBDA x : of(x)[field], agents) = Metrics(l)[field]

\* Of all files there may be in the results directory, one pair of files is
\* admitted for one seed and one ablation only, so a stale or misplaced file
\* stops the gate and never stands in for another (sim/gate.py, load_seed_row).
FilesStandForThemselves(files, seeds, ablations) ==
  \A a, b \in files : \A s, t \in seeds, x, y \in ablations :
    Admitted(a, b, s, x) /\ Admitted(a, b, t, y) => s = t /\ x = y

\* The gate is about the means: it may pass although B is the worse arm for
\* most seeds.
GateIsAboutMeans(rowSets) ==
  \E rows \in rowSets :
    /\ Consistent(rows) /\ GatePasses(rows)
    /\ 2 * Cardinality({i \in DOMAIN rows : rows[i].b < rows[i].a}) > Len(rows)

=============================================================================
