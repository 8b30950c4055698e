--------------------------- MODULE MCGrantIssuance ---------------------------
(* Instances of GrantIssuance for TLC.  A day has four ticks; grants are sent *)
(* in the first sendable one.                                                *)
EXTENDS GrantIssuance, TLC

CONSTANTS r1, r2, r3, c1, c2, p1, p2, p3

Interchangeable == Permutations({p1, p2}) \cup Permutations({r1, r2})
OneCustomer == [r \in Requests |-> c1]
TwoCustomers == (r1 :> c1) @@ (r2 :> c1) @@ (r3 :> c2)
OneEach == [r \in Requests |-> 1]
OneEachCustomer == [c \in Customers |-> 1]
TwoDays == 0..1
FirstDay == {0}
SecondMidnight == {4}
Nobody == {}

-----------------------------------------------------------------------------
(* The holdout experiment's functions: totals with ties and with a remainder   *)
(* over the strata, two orders of the hashes; three risk items of up to two    *)
(* customers, granted in any order and possibly twice; logs on both sides of   *)
(* each floor of the baseline.                                                 *)

Experiment == INSTANCE HoldoutExperiment

CustomerTotals ==
  {[c \in 1..n |-> (c * 7) % 5] : n \in {0, 1, 4, 5, 7, 11}} \cup [1..3 -> {5, 9}]
HashOrders == {[c \in 1..11 |-> (c * k) % 12] : k \in {5, 7}}
Grantings == UNION {[1..n -> 1..3] : n \in 0..3}

OutcomeKinds == [held : BOOLEAN, source : {1, 2}, cause : {1, 2}, recovered : BOOLEAN]
NaturalLogs ==
  {[k \in OutcomeKinds |->
      IF k.source = 1 /\ k.cause = 1 THEN IF k.recovered THEN a ELSE b
      ELSE IF k.recovered THEN c ELSE 8] : a \in {0, 50}, b \in {0, 49, 50}, c \in {0, 2, 7}}
Credits ==
  {Experiment!Credit(o, 1000, [recovered |-> r, n |-> n]) :
     o \in {0, 1000}, r \in 0..3, n \in {3, 4, 30}}

ASSUME HoldoutHolds ==
  /\ Experiment!StrataPartition(CustomerTotals)
  /\ Experiment!AssignmentNested({0, 1000, 5000, 9999}, CustomerTotals, HashOrders)
  /\ Experiment!ObservedOnce([1..3 -> 1..2], Grantings)
  /\ Experiment!CleanupComplete({1, 2, 3}, {1, 2}, {1})

ASSUME AttributionHolds ==
  /\ Experiment!BaselineFromHoldout(NaturalLogs, {0, 200})
  /\ Experiment!ControlCreditsNothing({1, 3, 32, 160}, {1, 99, 10000, 12345})
  /\ Experiment!FirstCreditStands(Credits)

=============================================================================
