------------------------- MODULE MCAgentEnforcement -------------------------
(* Instances of AgentEnforcement for TLC: a rogue with six requests, four of  *)
(* them within an hour of each other and one out of scope, and an honest      *)
(* agent with two.                                                            *)
EXTENDS AgentEnforcement, TLC

CONSTANTS rogue, honest

Script == 1..8
Author == [r \in Script |-> IF r <= 6 THEN rogue ELSE honest]
Issued == <<0, 0, 1, 1, 3, 1, 0, 2>>
Declared == Script \ {6}
OneAnHour == [a \in {rogue, honest} |-> 1]

-----------------------------------------------------------------------------
(* The evidence's functions: two or three customers with up to two requests    *)
(* each, up to four contacts within eight days, up to three outcomes of two    *)
(* agents, result files right and wrong in one field, and three seeds.         *)

Evidence == INSTANCE EvidenceChecks

PricedItems == {<<v, w>> : v \in {1, 3}, w \in {2, 3, 4}}
CustomerGroups ==
  {<<>>} \cup {<<i>> : i \in PricedItems} \cup {<<i, <<2, 1>>>> : i \in PricedItems}
Knapsacks ==
  {<<g, h>> : g, h \in CustomerGroups} \cup {<<g, g, h>> : g, h \in CustomerGroups}
ContactTimes == UNION {[1..n -> {0, 10, 23, 24, 30, 48, 168, 191}] : n \in 0..4}
OutcomeLogs ==
  UNION {[1..n -> [agent : {1, 2}, recovered : BOOLEAN, paise : {5}, incentive : {1}]] :
           n \in 0..3}
ResultFiles ==
  [exists : {TRUE}, seed : 0..2, fields : {TRUE}, arm : {"A", "B"},
   backend : {"memory", "postgres"}, ablation : {"x", "y"}, sha : {0, 1}, compliance : {TRUE}]
SeedRows == [1..3 -> [a : {2, 3}, b : {1, 9}, sha : {1, 2}]]

ASSUME EvidenceHolds ==
  /\ Evidence!OptimumIsFeasible(Knapsacks, {0, 3, 4, 7}, {1, 2})
  /\ Evidence!ComplianceCountsBreaches(ContactTimes)
  /\ Evidence!AgentsAddUp(OutcomeLogs)
  /\ Evidence!FilesStandForThemselves(ResultFiles, {1, 2}, {"x", "y"})

ASSUME EvidenceLimits ==
  /\ Evidence!AchievedMayExceedOptimum(Knapsacks, {7}, {2})
  /\ Evidence!GateIsAboutMeans(SeedRows)

-----------------------------------------------------------------------------
(* The reported tables' functions: sweeps over three values and two seeds,     *)
(* samples of up to eight, and a results directory with any of its files       *)
(* missing, unreadable or of another holdout.                                  *)

Tables == INSTANCE ResultTables

Frozen == [beta_fatigue |-> 1, beta_incentive |-> 4]
Grid == [beta_fatigue |-> {0, 1, 2}, beta_incentive |-> {2, 4}]
PointOf(a, b, n) == [aPer |-> a, bPer |-> b, aPaise |-> a * n, bPaise |-> b,
                     aContacts |-> n, bContacts |-> 1]
AsCommitted == [s \in 1..2 |-> PointOf(2, 3, 2)]
Runs ==
  {[f \in 0..2, i \in {2, 4}, s \in 1..2 |->
      IF <<f, i, s>> \in off THEN PointOf(2, 3, 3) ELSE PointOf(2, 3, 2)] :
     off \in SUBSET ({0, 1} \X {2, 4} \X {1, 2})}
Aggregates == [{0, 1, 2, 5} -> [wins : BOOLEAN]]
Sweeps ==
  {[v \in 0..2, s \in 1..2 |-> PointOf(a[s], b[v] + s, 1 + (c * v))] :
     a \in [1..2 -> {0, 1, 3}], b \in [0..2 -> {0, 2, 4}], c \in 0..1}
ArmFiles ==
  {[json |-> FALSE]} \cup [json : {TRUE}, held : {1, 2}, won : {1}, items : {4}]
Directories ==
  LET names == {<<"A", 1, 10>>, <<"B", 1, 10>>, <<"A", 2, 10>>, <<"B", 2, 10>>,
                <<"H", 1, 0>>, <<"H", 2, 0>>}
  IN UNION {[D -> ArmFiles] : D \in {E \in SUBSET names : Cardinality(E) >= 3}}
UnevenSeeds ==
  [{"A", "B"} \X {1, 2} \X {10} -> [contacts : {1, 5}, per : {1, 2, 4}]]
CreditLists == UNION {[1..n -> {0, 7} \X {0, 2}] : n \in 0..3}
ModelCells == [1..3 -> [uplift : BOOLEAN, fatigue : BOOLEAN]]

ASSUME TablesHold ==
  /\ Tables!AnchorsChecked(Grid, Frozen, {1, 2}, Runs, AsCommitted)
  /\ Tables!CrossingHolds(Aggregates)
  /\ Tables!MeanWithinSeeds(Sweeps, {1, 2})
  /\ Tables!PredictionsCohere(Sweeps, 0..2, {1, 2})
  /\ Tables!WilsonHolds(1..8)
  /\ Tables!RowsCompareLike(Directories, {1, 2}, {10}, <<1, 10>>)
  /\ Tables!ClampingAddsTheTail(CreditLists)
  /\ Tables!AvailabilityAgrees(ModelCells)

ASSUME TableLimits ==
  /\ Tables!BracketMayBeAReturn(Aggregates)
  /\ Tables!MeanMayExceedSeeds(Sweeps, {1, 2})
  /\ Tables!MissingSeedIsLeftOut(Directories, {1, 2}, {10}, <<1, 10>>)
  /\ Tables!RatioIsNotOfTotals(UnevenSeeds, {1, 2}, 10)

-----------------------------------------------------------------------------
(* The registry's functions: an agent and its rows as they may be registered   *)
(* again, and requests right and wrong in every field.                         *)

Registry == INSTANCE AgentRegistry

AgentRows == [key : {1, 2}, state : {"ACTIVE", "REVOKED"}, strikes : {0, 3}]
NarrowScope == [channels |-> {"sms"}, intents |-> {"cart"}, sources |-> {"cart"}, incentive |-> 1]
CapabilityScopes == {NarrowScope, [NarrowScope EXCEPT !.channels = {"sms", "voice"}]}
OneItem == <<[customer |-> 1, source |-> "cart"], [customer |-> 2, source |-> "invoice"]>>
ScopeRequests ==
  [agent : {1, 2}, signedFor : {1, 2}, risk : {1, 2, 3}, customer : {1, 2},
   channel : {"sms", "voice"}, intent : {"cart", "retry"}, incentive : {1, 2}]
InOrderRequest ==
  [agent |-> 1, signedFor |-> 1, risk |-> 1, customer |-> 1, channel |-> "sms",
   intent |-> "cart", incentive |-> 1]

ASSUME RegistryHolds ==
  /\ Registry!RegistrationHolds(AgentRows, CapabilityScopes)
  /\ Registry!RegistrationRevivesNobody(AgentRows, CapabilityScopes, ScopeRequests, OneItem)
  /\ Registry!NothingBeforeTheSignature(AgentRows, CapabilityScopes, ScopeRequests, OneItem)
  /\ Registry!LostRegistrationStays([key |-> 1, state |-> "ACTIVE", strikes |-> 0],
                                    NarrowScope, InOrderRequest, OneItem)

-----------------------------------------------------------------------------
(* The demo's scenario: twelve carts of three customers over six days, and two *)
(* more items of any source, customer and hour that may contend with them.     *)

Scenario == INSTANCE DemoScenario

Carts ==
  {[risk |-> i, customer |-> 1 + (i % 3), source |-> "abandoned_checkout",
    detected |-> 24 * (i \div 2) + 6, amount |-> i] : i \in 0..11}
MoreItems ==
  [risk : {12}, customer : {1, 2, 4}, detected : {5, 30}, amount : {9},
   source : {"failed_payment", "mandate_failure", "overdue_invoice"}]
Rivals ==
  [risk : {13}, customer : {1, 4}, detected : {30}, amount : {1}, source : {"overdue_invoice"}]
Worlds == {Carts \cup {i, j} : i \in MoreItems, j \in Rivals}

ASSUME AgentsHold ==
  /\ Scenario!AgentsStayInBounds(Worlds)
  /\ Scenario!DisputeSilencesOffers(Worlds)

ASSUME ScenarioHolds ==
  /\ Scenario!SliceIsClosed(Worlds, 3, 4)
  /\ Scenario!ScriptMeetsExpectations(Worlds, 3, 4)
  /\ \A world \in Worlds : Scenario!FloodAnswersTwice(world, 4, 4)

=============================================================================
