--------------------------- MODULE MCContactLedger ---------------------------
(* Instances of ContactLedger for TLC.  A day has four ticks, two of which   *)
(* are sendable.  "Shipped" has the shipped caps and one customer over four  *)
(* days, three of which make a rolling week; "relaxed" has two customers and *)
(* caps under which the slot and the customer's pool decide.                 *)
EXTENDS ContactLedger, TLC

CONSTANTS r1, r2, r3, c1, c2

OneCustomer == [r \in {r1, r2, r3} |-> c1]
TwoCustomers == (r1 :> c1) @@ (r2 :> c1) @@ (r3 :> c2)
OneEach == [r \in {r1, r2, r3} |-> 1]
TwoEach == [r \in {r1, r2, r3} |-> 2]
Roomy == (c1 :> 3)
Tight == (c1 :> 1) @@ (c2 :> 2)
FourDays == 0..3
TwoDays == 0..1
Midnights == {4, 8, 12, 16}

\* The requests of "shipped" differ in nothing.
SameCustomer == Permutations({r1, r2, r3})

-----------------------------------------------------------------------------
(* The trained models' functions: logs of two buckets of one source and one of *)
(* another, on both sides of each floor, and schedules of up to three contacts *)
(* within nine days.                                                           *)

Models == INSTANCE ModelScorer

Cells == [source : {1, 2}, cause : {1, 2}, n : 0..2, held : BOOLEAN, hit : BOOLEAN]
TrainingLog(optedOut, stayed, recovered, optedOut2, stayed2) ==
  [k \in Cells |->
     IF k.held
     THEN IF k.n # 0 \/ (k.source = 2 /\ k.cause = 2) THEN 0 ELSE IF k.hit THEN recovered ELSE 150
     ELSE CASE k.source = 1 /\ k.cause = 1 -> IF k.hit THEN optedOut ELSE stayed
            [] k.source = 1 /\ k.cause = 2 -> IF k.hit THEN optedOut2 ELSE stayed2
            [] k.source = 2 /\ k.cause = 1 -> IF k.hit THEN 40 ELSE 260
            [] OTHER -> 0]
TrainingLogs ==
  {TrainingLog(a, b, x, y, z) :
     a \in {0, 19, 20}, b \in {0, 180, 181}, x \in {0, 50}, y \in {0, 15}, z \in {0, 85, 200}}
ContactHours == UNION {[1..n -> {0, 24, 100, 168, 192}] : n \in 1..3}

ASSUME ModelsHold ==
  /\ Models!AvailableModelsScore(TrainingLogs)
  /\ Models!HazardBetweenItsRates(TrainingLogs)
  /\ Models!CalibrationTotal(TrainingLogs)

ASSUME FittedIndicesAreNotAll == Models!CapsAdmitUnfittedIndices(ContactHours, 1, 2)

=============================================================================
