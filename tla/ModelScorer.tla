---------------------------- MODULE ModelScorer ----------------------------
(* The trained models and the scorer that ranks with them, as functions: when *)
(* the uplift and the fatigue models are available, what the committed        *)
(* artifact makes of the scorer (sampark/models), and the calibrated fallback *)
(* table (sim/calibration.py).  A training log counts the contacts and the    *)
(* held-out items of each source, root cause and contact index.  Rates are    *)
(* pairs <<successes, observations>>.  The properties at the end are over     *)
(* given inputs; MCContactLedger evaluates them.                              *)
EXTENDS Integers, Sequences, FiniteSets, FiniteSetsExt

-----------------------------------------------------------------------------
(* Training counts.  A cell is [source, cause, n, held, hit]: hit is the       *)
(* opt-out of a contact, the recovery of a held-out item.                      *)

CellsOf(log, P(_)) == {k \in DOMAIN log : P(k)}
Total(log, cells) == MapThenSumSet(LAMBDA k : log[k], cells)

Rate(log, cells) == <<Total(log, {k \in cells : k.hit}), Total(log, cells)>>

Bucket(k) == <<k.source, k.cause>>
Treated(log) == CellsOf(log, LAMBDA k : ~k.held)
Held(log) == CellsOf(log, LAMBDA k : k.held)
BucketsIn(log, cells) == {Bucket(k) : k \in {j \in cells : log[j] > 0}}

-----------------------------------------------------------------------------
(* sampark/models/uplift.py: the T-learner of the holdout arm.                *)

MinObsPerArm == 200

UpliftBuckets(log) == BucketsIn(log, DOMAIN log)

Enough(log, arm, b) == Total(log, {k \in arm : Bucket(k) = b}) >= MinObsPerArm

Degenerate(log, b) ==
  LET r == Rate(log, {k \in Held(log) : Bucket(k) = b}) IN r[1] \in {0, r[2]}

UpliftAvailable(log) ==
  /\ Total(log, Held(log)) > 0
  /\ \A b \in UpliftBuckets(log) : Enough(log, Treated(log), b) /\ Enough(log, Held(log), b)
  /\ \A b \in UpliftBuckets(log) : ~Degenerate(log, b)

-----------------------------------------------------------------------------
(* sampark/models/fatigue_hazard.py: the hierarchical, shrunk hazard.         *)

MinObsPerBucket == 200
MinPositivesPerBucket == 20
ShrinkageAlpha == 30
QueryableContactIndices == {0, 1}

Floored(r) == r[2] >= MinObsPerBucket /\ r[1] >= MinPositivesPerBucket

AtIndex(log, n) == Rate(log, CellsOf(log, LAMBDA k : ~k.held /\ k.n = n))
AtSource(log, s, n) == Rate(log, CellsOf(log, LAMBDA k : ~k.held /\ k.source = s /\ k.n = n))
AtBucket(log, b, n) == Rate(log, CellsOf(log, LAMBDA k : ~k.held /\ Bucket(k) = b /\ k.n = n))

\* (hits + alpha * parent) / (observations + alpha), over the parent's count.
Shrunk(r, parent) ==
  <<r[1] * parent[2] + ShrinkageAlpha * parent[1], (r[2] + ShrinkageAlpha) * parent[2]>>

HazardAvailable(log) == \A n \in QueryableContactIndices : Floored(AtIndex(log, n))

HazardKeys(log) == BucketsIn(log, Treated(log)) \X QueryableContactIndices

HazardAt(log, b, n) ==
  LET own == AtBucket(log, b, n)
      source == AtSource(log, b[1], n)
      index == AtIndex(log, n)
  IN IF Floored(own) THEN Shrunk(own, source)
     ELSE IF Floored(source) THEN Shrunk(source, index)
     ELSE index

-----------------------------------------------------------------------------
(* sampark/models/artifact.py and scorer.py.  An artifact is whether the      *)
(* generated module has every field, and which of the two models it carries.  *)

\* build_scorer: anything short of both models falls back to the heuristic.
BuildScorer(artifact) ==
  IF artifact.complete /\ artifact.uplift /\ artifact.hazard THEN "model" ELSE "heuristic"

\* ModelBackedScorer.score: a bucket without a rate is a KeyError, never a zero.
Scores(log, b, n) ==
  /\ b \in BucketsIn(log, Treated(log))
  /\ <<b, n>> \in HazardKeys(log)

\* contacts_made of sampark/budget/store.py, the n of a score: every contact so
\* far, of any age, while admission counts those of the last day and week.
ContactsBefore(times, i) == i - 1

AdmittedByCaps(times, cap24, cap7) ==
  \A i \in DOMAIN times :
    /\ Cardinality({j \in 1..(i - 1) : times[i] - times[j] < 24}) < cap24
    /\ Cardinality({j \in 1..(i - 1) : times[i] - times[j] < 24 * 7}) < cap7

-----------------------------------------------------------------------------
(* sim/calibration.py: the table of first-contact rates and its lookup.       *)

BucketFloor == 100
SourceFloor == 30

FirstContacts(log) == CellsOf(log, LAMBDA k : ~k.held /\ k.n = 0)
MeanRate(log) == Rate(log, FirstContacts(log))

SourceRate(log, s) ==
  LET r == Rate(log, {k \in FirstContacts(log) : k.source = s})
  IN IF r[2] >= SourceFloor THEN r ELSE MeanRate(log)

BucketRate(log, b) ==
  LET r == Rate(log, {k \in FirstContacts(log) : Bucket(k) = b})
  IN IF r[2] >= BucketFloor THEN r ELSE SourceRate(log, b[1])

\* p_base of the generated table, for any source and root cause.
PBase(log, s, c) ==
  IF <<s, c>> \in BucketsIn(log, FirstContacts(log)) THEN BucketRate(log, <<s, c>>)
  ELSE IF \E b \in BucketsIn(log, FirstContacts(log)) : b[1] = s THEN SourceRate(log, s)
  ELSE MeanRate(log)

-----------------------------------------------------------------------------
(* Properties.                                                                *)

Below(r, q) == r[1] * q[2] <= q[1] * r[2]

\* When both models are available from one log, the scorer built on them scores
\* every bucket of that log at both contact indices the hazard is fitted for
\* (scorer.py: score reads both tables without a default).
AvailableModelsScore(logs) ==
  \A l \in logs : UpliftAvailable(l) /\ HazardAvailable(l) =>
    /\ BuildScorer([complete |-> TRUE, uplift |-> TRUE, hazard |-> TRUE]) = "model"
    /\ \A b \in UpliftBuckets(l), n \in QueryableContactIndices : Scores(l, b, n)

\* A hazard that is available rests on at least the floor of observations, is a
\* probability, and lies between the rates it was shrunk from.
HazardBetweenItsRates(logs) ==
  \A l \in logs : HazardAvailable(l) =>
    \A key \in HazardKeys(l) :
      LET h == HazardAt(l, key[1], key[2])
          own == AtBucket(l, key[1], key[2])
          source == AtSource(l, key[1][1], key[2])
          index == AtIndex(l, key[2])
          between(a, b) == (Below(a, h) /\ Below(h, b)) \/ (Below(b, h) /\ Below(h, a))
      IN /\ 0 <= h[1] /\ h[1] <= h[2] /\ h[2] >= MinObsPerBucket
         /\ CASE Floored(own) -> between(own, source)
              [] ~Floored(own) /\ Floored(source) -> between(source, index)
              [] OTHER -> h = index

\* The comment of fatigue_hazard.py:220 has the allocator ask for no more than
\* the second contact under the frozen caps.  The caps admit any number of
\* contacts given time: here are schedules they admit whose last contact asks
\* for an index no available hazard has, which score meets with a KeyError.
CapsAdmitUnfittedIndices(schedules, cap24, cap7) ==
  \E t \in schedules :
    /\ AdmittedByCaps(t, cap24, cap7)
    /\ ContactsBefore(t, Len(t)) \notin QueryableContactIndices

\* Every source and root cause, seen or not, has a calibrated rate that is the
\* rate of at least the floor of first contacts or the rate of all of them
\* (sim/calibration.py and the p_base it generates).
CalibrationTotal(logs) ==
  \A l \in logs : MeanRate(l)[2] > 0 =>
    \A s \in {k.source : k \in DOMAIN l}, c \in {k.cause : k \in DOMAIN l} :
      LET r == PBase(l, s, c) IN r = MeanRate(l) \/ r[2] >= SourceFloor

=============================================================================
