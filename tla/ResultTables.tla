---------------------------- MODULE ResultTables ----------------------------
(* How the reported results are made of runs and result files, as functions:  *)
(* the sensitivity sweep with its anchor, its aggregate, the crossing it      *)
(* looks for and the precommitted predictions (sim/sensitivity.py), and the   *)
(* table of the three arms with its intervals (sim/abh_table.py).  The        *)
(* properties at the end are over given inputs; MCAgentEnforcement evaluates  *)
(* them.  A quotient is a pair <<n, d>>.                                      *)
EXTENDS Integers, Sequences, FiniteSets, FiniteSetsExt

\* A quotient is 0 where it would divide by nothing.
Quotient(n, d) == IF d = 0 THEN <<0, 1>> ELSE <<n, d>>
AtMost(x, y) == x[1] * y[2] <= y[1] * x[2]

Total(f(_), S) == MapThenSumSet(f, S)

-----------------------------------------------------------------------------
(* The sweep.  run[beta_fatigue, beta_incentive, seed] is what is measured of *)
(* both arms: recovered paise, contacts and paise per contact of A and B.     *)

\* Exactly one coefficient moves.
BetasFor(dimension, value, frozen) == [frozen EXCEPT ![dimension] = value]

Uplift(point) == Quotient(point.bPer, point.aPer)

\* A point at the frozen value must be what the committed files of its seed say.
Reproduces(point, committed) ==
  \A field \in {"aContacts", "bContacts", "aPaise", "bPaise"} :
    point[field] = committed[field]

\* One dimension, all values and seeds; nothing is written if an anchor is missed.
RunDimension(dimension, values, seeds, frozen, run, committed) ==
  LET points == [v \in values, s \in seeds |->
                   LET betas == BetasFor(dimension, v, frozen)
                   IN run[betas.beta_fatigue, betas.beta_incentive, s]]
      anchored == frozen[dimension] \in values
  IN IF anchored /\ \E s \in seeds : ~Reproduces(points[frozen[dimension], s], committed[s])
     THEN [error |-> "AnchorReproductionError"]
     ELSE [error |-> "none", points |-> points, checked |-> IF anchored THEN seeds ELSE {}]

\* Per value: the mean of each arm over the seeds, and the ratio of the means.
Aggregate(points, values, seeds) ==
  [v \in values |->
     LET sum(field) == Total(LAMBDA s : points[v, s][field], seeds) IN
       [uplift |-> Quotient(sum("bPer"), sum("aPer")),
        total |-> Quotient(sum("bPaise"), sum("aPaise")),
        wins |-> sum("bPer") > sum("aPer")]]

\* Neighbours among the tested values, and those between which the winner changes.
Neighbours(values) ==
  {<<x, y>> \in values \X values : x < y /\ ~\E z \in values : x < z /\ z < y}
Changes(agg) == {p \in Neighbours(DOMAIN agg) : agg[p[1]].wins # agg[p[2]].wins}

FindCrossing(agg) ==
  LET losing == {v \in DOMAIN agg : ~agg[v].wins}
      brackets == Changes(agg)
  IN [exists |-> losing # {}, losing |-> losing,
      bracket |-> IF losing = {} \/ brackets = {} THEN <<>>
                  ELSE CHOOSE p \in brackets : \A q \in brackets : p[1] <= q[1]]

NonDecreasing(f) == \A p \in Neighbours(DOMAIN f) : AtMost(f[p[1]], f[p[2]])
NonIncreasing(f) == \A p \in Neighbours(DOMAIN f) : AtMost(f[p[2]], f[p[1]])

\* The six predictions; zero is the least value of beta_fatigue.
Predictions(fatigue, incentive, points, seeds) ==
  LET uplifts(agg) == [v \in DOMAIN agg |-> agg[v].uplift]
      shortfalls == [v \in DOMAIN fatigue |->
                       <<fatigue[v].total[2] - fatigue[v].total[1], fatigue[v].total[2]>>]
  IN [P1 |-> NonDecreasing(uplifts(fatigue)),
      P2 |-> AtMost(<<13, 10>>, fatigue[0].uplift) /\ AtMost(fatigue[0].uplift, <<17, 10>>),
      P3 |-> \A v \in DOMAIN fatigue : fatigue[v].wins,
      P4 |-> /\ \A v \in DOMAIN fatigue : ~AtMost(<<1, 1>>, fatigue[v].total)
             /\ NonIncreasing(shortfalls),
      P5 |-> \A s \in seeds, arm \in {"aContacts", "bContacts"} :
               Cardinality({points[v, s][arm] : v \in DOMAIN fatigue}) = 1,
      P6 |-> NonIncreasing(uplifts(incentive))]

-----------------------------------------------------------------------------
(* The table of the three arms.  results maps the name <<arm, seed, fraction>> *)
(* of a file to its content, which may not be JSON.                           *)

\* The square of the 1.96 of the 95% interval, nearly.
ZSquared == <<96, 25>>

\* wilson_interval(k, n) raises for other arguments.
HasInterval(k, n) == n > 0 /\ k \in 0..n

\* The rate t/m lies in the interval of k out of n: its distance from the centre is
\* at most the half width, squared and freed of denominators.
InWilson(t, m, k, n) ==
  LET z == ZSquared[1]
      u == ZSquared[2]
      distance == 2 * t * (n * u + z) - m * (2 * k * u + z)
  IN n * distance * distance <= m * m * z * (4 * u * k * (n - k) + n * z)

Readable(results, name) == name \in DOMAIN results /\ results[name].json

\* holdout_validity: the holdout's natural rate against arm H's.
TruthInside(results, seed, fraction) ==
  LET a == results[<<"A", seed, fraction>>]
      h == results[<<"H", seed, 0>>]
  IN InWilson(h.won, h.items, a.won, a.items)

HoldoutValidity(results, seeds, fractions) ==
  LET cells == seeds \X fractions IN
    IF \E c \in cells : ~Readable(results, <<"A", c[1], c[2]>>)
                        \/ ~Readable(results, <<"H", c[1], 0>>)
    THEN [error |-> "MissingEvidenceError"]
    ELSE [error |-> "none", cells |-> Cardinality(cells),
          inside |-> Cardinality({c \in cells : TruthInside(results, c[1], c[2])})]

\* build_abh_row: three readable files, and one holdout set for both arms.
RowBuilds(results, seed, fraction) ==
  LET A == <<"A", seed, fraction>>
      B == <<"B", seed, fraction>>
  IN /\ Readable(results, A) /\ Readable(results, B) /\ Readable(results, <<"H", seed, 0>>)
     /\ results[A].held = results[B].held

\* build_table: the cells whose B file exists are built, and the headline is one of
\* them.
CellsAsked(results, seeds, fractions) ==
  {c \in seeds \X fractions : <<"B", c[1], c[2]>> \in DOMAIN results}

BuildTable(results, seeds, fractions, headline) ==
  LET asked == CellsAsked(results, seeds, fractions) IN
    IF \E c \in asked : ~RowBuilds(results, c[1], c[2])
    THEN [error |-> "MissingEvidenceError"]
    ELSE IF headline \notin asked THEN [error |-> "StopIteration"]
    ELSE [error |-> "none", cells |-> asked,
          rows |-> {c[1] : c \in {d \in asked : d[2] = headline[2]}}]

\* _aggregate_rows over the seeds of the rows.
AggregateRows(results, rows, fraction) ==
  LET sum(arm, field) == Total(LAMBDA s : results[<<arm, s, fraction>>][field], rows)
  IN [aContacts |-> sum("A", "contacts"), bContacts |-> sum("B", "contacts"),
      perContact |-> Quotient(sum("B", "per"), sum("A", "per"))]

PctDelta(new, base) == Quotient(100 * (new - base), base)

ContactsDelta(row) == PctDelta(row.bContacts, row.aContacts)

\* attribution_block: credits are <<observed, expected>>, one per grant.
AttributionBlock(credits) ==
  LET credited(i) == credits[i][1] - credits[i][2]
      negative == {i \in DOMAIN credits : credited(i) < 0}
  IN [observed |-> Total(LAMBDA i : credits[i][1], DOMAIN credits),
      natural |-> Total(LAMBDA i : credits[i][2], DOMAIN credits),
      credited |-> Total(credited, DOMAIN credits),
      negative |-> Cardinality(negative), tail |-> Total(credited, negative)]

\* model_availability_block: a cell says which of the two models are available.
TableSaysAvailable(cells) ==
  [uplift |-> \E c \in DOMAIN cells : cells[c].uplift,
   fatigue |-> \A c \in DOMAIN cells : cells[c].fatigue]

-----------------------------------------------------------------------------
(* Properties.                                                                *)

\* Every seed of a dimension that is written was checked against its committed
\* evidence, provided the frozen value is among those tested, and the two
\* dimensions meet in the same run there (sim/sensitivity.py, run_dimension).
AnchorsChecked(grid, frozen, seeds, runs, committed) ==
  \A run \in runs : \A d \in DOMAIN grid :
    LET of(x) == RunDimension(x, grid[x], seeds, frozen, run, committed)
    IN /\ of(d).error = "none" => of(d).checked = seeds
       /\ \A e \in DOMAIN grid : of(d).error = of(e).error

\* The crossing exists unless B wins everywhere; a bracket is given unless one arm
\* wins everywhere, it holds no tested value inside, and every value up to its lower
\* end has one winner, its upper end the other (find_crossing).
CrossingHolds(aggs) ==
  \A agg \in aggs :
    LET c == FindCrossing(agg) IN
      /\ c.exists <=> \E v \in DOMAIN agg : ~agg[v].wins
      /\ c.bracket = <<>> <=> \A v, w \in DOMAIN agg : agg[v].wins = agg[w].wins
      /\ c.bracket # <<>> =>
           /\ \A v \in DOMAIN agg : v <= c.bracket[1] \/ v >= c.bracket[2]
           /\ \A v \in DOMAIN agg :
                v <= c.bracket[1] => agg[v].wins # agg[c.bracket[2]].wins

\* find_crossing promises the value at which SAMPARK stops winning.  The bracket may
\* be where it starts winning, and there may be none although it loses.
BracketMayBeAReturn(aggs) ==
  /\ \E agg \in aggs : LET b == FindCrossing(agg).bracket IN b # <<>> /\ agg[b[2]].wins
  /\ \E agg \in aggs : FindCrossing(agg).exists /\ FindCrossing(agg).bracket = <<>>

\* The mean uplift lies between the least and the greatest of the seeds, for arms A
\* that recover something; where one recovers nothing its 0 is not a lower bound and
\* the mean may exceed all of them (aggregate).
MeanWithinSeeds(pointSets, seeds) ==
  \A points \in pointSets :
    LET mean == Aggregate(points, {0}, seeds)[0].uplift
    IN (\A s \in seeds : points[0, s].aPer > 0) =>
         /\ \E s \in seeds : AtMost(Uplift(points[0, s]), mean)
         /\ \E s \in seeds : AtMost(mean, Uplift(points[0, s]))
MeanMayExceedSeeds(pointSets, seeds) ==
  \E points \in pointSets : \A s \in seeds :
    ~AtMost(Aggregate(points, {0}, seeds)[0].uplift, Uplift(points[0, s]))

\* The predictions are not independent: where the uplift starts high enough and
\* never falls B never loses, and that is exactly what the crossing reports
\* (evaluate_predictions).
PredictionsCohere(pointSets, values, seeds) ==
  \A points \in pointSets :
    LET agg == Aggregate(points, values, seeds)
        p == Predictions(agg, agg, points, seeds)
    IN /\ p.P1 /\ p.P2 => p.P3
       /\ p.P3 <=> ~FindCrossing(agg).exists
       /\ p.P1 <=> \A v, w \in values : v < w => AtMost(agg[v].uplift, agg[w].uplift)

\* The interval holds the rate it is for and no impossible one, treats success and
\* failure alike, and holds another rate exactly if the score test with that rate
\* would not reject the sample (wilson_interval).
WilsonHolds(sizes) ==
  \A n, m \in sizes : \A k \in 0..n, t \in 0..m :
    /\ HasInterval(k, n) /\ InWilson(k, n, k, n)
    /\ InWilson(t, m, k, n) <=> InWilson(m - t, m, n - k, n)
    /\ t = 0 => (InWilson(t, m, k, n) <=> k = 0)
    /\ InWilson(t, m, k, n) <=>
         ZSquared[2] * (k * m - t * n) * (k * m - t * n) <= ZSquared[1] * n * t * (m - t)

\* A row that is reported compares arms with the same customers held out, and every
\* cell that is reported can be checked against arm H (build_abh_row).
RowsCompareLike(directories, seeds, fractions, headline) ==
  \A results \in directories :
    LET table == BuildTable(results, seeds, fractions, headline) IN
      table.error = "none" =>
        /\ headline[1] \in table.rows
        /\ \A s \in table.rows :
             results[<<"A", s, headline[2]>>].held = results[<<"B", s, headline[2]>>].held
        /\ HoldoutValidity(results, table.rows, {headline[2]}).error = "none"

\* MissingEvidenceError promises that no table is built of evidence that is partly
\* missing.  A seed without its B file is left out of the table and stops nothing.
MissingSeedIsLeftOut(directories, seeds, fractions, headline) ==
  \E results \in directories :
    LET table == BuildTable(results, seeds, fractions, headline) IN
      table.error = "none" /\ table.rows # seeds

\* The ratio of the table is of the means over the seeds, each seed counting alike:
\* with other contacts per seed B may be ahead in it, send as many messages as A and
\* recover less over all contacts (_aggregate_rows).
RatioIsNotOfTotals(directories, seeds, fraction) ==
  \E results \in directories :
    LET row == AggregateRows(results, seeds, fraction)
        paise(arm) == Total(LAMBDA s : results[<<arm, s, fraction>>].per
                                         * results[<<arm, s, fraction>>].contacts, seeds)
    IN /\ ~AtMost(row.perContact, <<1, 1>>) /\ ContactsDelta(row)[1] = 0
       /\ paise("B") < paise("A")

\* Credits add up to what was observed less what was to be expected, and clamping
\* them at nothing would add exactly the negative tail (attribution_block).
ClampingAddsTheTail(creditLists) ==
  \A credits \in creditLists :
    LET block == AttributionBlock(credits)
        clamped == Total(LAMBDA i : Max({0, credits[i][1] - credits[i][2]}), DOMAIN credits)
    IN /\ block.observed - block.natural = block.credited
       /\ clamped = block.credited - block.tail
       /\ block.negative = 0 <=> block.tail = 0

\* If the table says of both models that they are available, some cell had both, and
\* the scorer of that cell was the model (model_availability_block).
AvailabilityAgrees(cellSets) ==
  \A cells \in cellSets :
    TableSaysAvailable(cells).uplift /\ TableSaysAvailable(cells).fatigue =>
      \E c \in DOMAIN cells : cells[c].uplift /\ cells[c].fatigue

=============================================================================
