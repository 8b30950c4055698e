------------------------- MODULE GrantExecutionProofs -------------------------
(***************************************************************************)
(* Proofs about the execution of grants, for every number of requests and  *)
(* windows, all caps and budgets, and any number of attempts above one.    *)
(* What a statement does to the tables is cited from ContactLedgerProofs;  *)
(* what is new is where a call can be between two of its statements, and   *)
(* what the runner and the provider know of each other at that point.      *)
(***************************************************************************)
EXTENDS GrantExecution, TLAPS

LP == INSTANCE ContactLedgerProofs

InCall == call.op # "none"
Busy == stage # "rest"

\* A call has moved its grant by its first statement, and not before; a grant
\* that is confirmed is confirmed at its whole ceiling, nothing else costs.
CallInv ==
  InCall =>
    LET g == grants[call.request]
    IN  /\ call.done < Len(Statements(call.op))
        /\ IF call.done = 0 THEN g.state \in From[call.op]
           ELSE g.state = Target[call.op]
        /\ call.spend = IF call.op = "confirm" THEN g.ceiling ELSE 0
        /\ call.op = "expire" => \E now \in Instants : g.expiresAt < now

\* The runner waits in the stage in which it made the call; between calls the
\* grant it is busy with is where the last one has left it.
StageInv ==
  /\ call.op \in {"confirm", "expire"} => ~Busy
  /\ call.op = "execute" => stage = "script" /\ current = call.request
  /\ call.op = "rollback" => stage = "disarm" /\ current = call.request
  /\ ~InCall /\ Busy =>
       grants[current].state = IF stage = "disarm" THEN "ROLLED_BACK" ELSE "EXECUTING"

\* What the provider has accepted was sent once, for a grant in execution or
\* confirmed.  It has seen as many attempts as the runner has made, and one that
\* it accepted without an answer can only have been the first.
ProviderInv ==
  /\ \A r \in Requests :
       /\ provider.sent[r] = IF r \in provider.accepted THEN 1 ELSE 0
       /\ r \in provider.accepted => grants[r].state \in {"EXECUTING", "CONFIRMED"}
       /\ provider.attempts[r] > 0 => grants[r].state \notin {"none", "RESERVED"}
       /\ grants[r].state = "CONFIRMED" => r \in provider.accepted
  /\ call.op = "confirm" => call.request \in provider.accepted
  /\ call.op = "rollback" => call.request \notin provider.accepted
  /\ stage \in {"script", "chaos", "clear"} =>
       tries = 0 /\ provider.attempts[current] = 0 /\ current \notin provider.accepted
  /\ stage = "send" =>
       /\ provider.attempts[current] = tries
       /\ current \in provider.accepted => tries = 1
  /\ ~Busy => tries = 0

ExecInv == TypeOK /\ Tables!GrantsInBand /\ CallInv /\ StageInv /\ ProviderInv

-----------------------------------------------------------------------------
(* The tables under ContactLedger's names, and the statements of a call. *)

LEMMA SameTables ==
  /\ LP!TypeInv <=> Tables!TypeOK /\ Tables!GrantsInBand
  /\ LP!Init <=> Tables!Init
BY DEF LP!TypeInv, LP!TypeOK, LP!GrantsInBand, LP!InItsBand, LP!SendTimes, LP!WindowStart,
       LP!Grant, LP!GrantStates, LP!CapacityConsuming, LP!Terminal, LP!Pool, LP!Init,
       LP!NoGrant, LP!FreshPool,
       Tables!TypeOK, Tables!GrantsInBand, Tables!InItsBand, Tables!SendTimes,
       Tables!WindowStart, Tables!Grant, Tables!GrantStates, Tables!CapacityConsuming,
       Tables!Terminal, Tables!Pool, Tables!Init, Tables!NoGrant, Tables!FreshPool

LEMMA SameIssue ==
  ASSUME NEW r, NEW w, NEW s, NEW ask
  PROVE  /\ Tables!Issue(r, w, s, ask) <=> LP!Issue(r, w, s, ask)
         /\ Tables!SendTimes(w) = LP!SendTimes(w)
BY DEF LP!Issue, LP!Remaining, LP!DowngradeToFit, LP!Lesser, LP!BelowCaps, LP!ContactsAfter,
       LP!Active, LP!CapacityConsuming, LP!HasActiveClaim, LP!WindowStart, LP!SendTimes,
       LP!Cardinality,
       Tables!Issue, Tables!Remaining, Tables!DowngradeToFit, Tables!Lesser,
       Tables!BelowCaps, Tables!ContactsAfter, Tables!Active, Tables!CapacityConsuming,
       Tables!HasActiveClaim, Tables!WindowStart, Tables!SendTimes, Tables!Cardinality

\* ContactLedgerProofs makes the assumptions of ContactLedger.
LEMMA SameFinite == LP!IsFiniteSet(Requests) /\ LP!IsFiniteSet(Customers)
BY LedgerAssumption DEF IsFiniteSet, LP!IsFiniteSet

LEMMA IssueTables ==
  ASSUME ExecInv, NEW r \in Requests, NEW w \in Windows, NEW s \in Tables!SendTimes(w),
         NEW ask \in 0..RequestedCeiling[r], Tables!Issue(r, w, s, ask)
  PROVE  Tables!TypeOK' /\ Tables!GrantsInBand'
<1>1. LP!TypeInv /\ LP!Issue(r, w, s, ask) /\ s \in LP!SendTimes(w)
  BY SameTables, SameIssue DEF ExecInv, TypeOK
<1>2. LP!TypeInv'
  BY <1>1, LP!IssueType, LedgerAssumption, SameFinite
<1> QED
  BY <1>2, SameTables, PTL

\* What the modules' records say of each call.
LEMMA CallFacts ==
  /\ Ops = {"execute", "confirm", "rollback", "expire"}
  /\ \A op \in Ops :
       /\ Target[op] \in {"EXECUTING", "CONFIRMED", "ROLLED_BACK", "EXPIRED"}
       /\ Len(Statements(op)) = IF op = "execute" THEN 2 ELSE 4
       /\ Statements(op)[1] = "grants" /\ Statements(op)[2] = "claims"
       /\ op # "execute" => Statements(op)[3] = "merchant" /\ Statements(op)[4] = "customer"
  /\ Target["execute"] = "EXECUTING" /\ Target["confirm"] = "CONFIRMED"
  /\ Target["rollback"] = "ROLLED_BACK" /\ Target["expire"] = "EXPIRED"
  /\ From["execute"] = {"RESERVED"} /\ From["confirm"] = {"EXECUTING"}
  /\ From["rollback"] = {"RESERVED", "EXECUTING"} /\ From["expire"] = {"RESERVED"}
BY DEF Ops, Target, From, Statements

LEMMA CallType ==
  ASSUME TypeOK
  PROVE  /\ ~InCall => call = NoCall
         /\ InCall => /\ call.op \in Ops /\ call.request \in Requests
                      /\ call.done \in 0..4 /\ call.spend \in Nat
                      /\ call # NoCall
BY CallFacts DEF TypeOK, Calls, NoCall, InCall

\* The tables stay what they are when nothing is written to them.
LEMMA SameRows ==
  ASSUME Tables!TypeOK, Tables!GrantsInBand, UNCHANGED <<grants, merchant, customer>>
  PROVE  Tables!TypeOK' /\ Tables!GrantsInBand'
BY DEF Tables!TypeOK, Tables!GrantsInBand, Tables!InItsBand

-----------------------------------------------------------------------------
(* The inductive invariant. *)

LEMMA ExecInit == Init => ExecInv
<1> SUFFICES ASSUME Init PROVE ExecInv
  OBVIOUS
<1>1. Tables!TypeOK /\ Tables!GrantsInBand
  BY SameTables, LP!TypeInit, LedgerAssumption, SameFinite DEF Init
<1>2. \A r \in Requests : grants[r].state = "none"
  BY DEF Init, Tables!Init, Tables!NoGrant
<1>3. TypeOK
  <2>1. /\ claims \in [Requests -> Tables!GrantStates \cup {"none"}]
        /\ call \in Calls
    BY DEF Init, Calls
  <2>2. stage \in Stages /\ current = NoRequest /\ tries \in 0..MaxAttempts
        /\ stage = "rest"
    BY AttemptsAssumption DEF Init, Resting, Stages
  <2>3. provider \in Providers
    BY AttemptsAssumption DEF Init, Modes, Providers
  <2> QED
    BY <1>1, <2>1, <2>2, <2>3 DEF Init, TypeOK
<1> QED
  BY <1>1, <1>2, <1>3
  DEF Init, ExecInv, CallInv, StageInv, ProviderInv, NoCall, InCall, Busy, Resting

\* A new grant is nobody's current one and nobody's call is about it.
LEMMA IssueKeeps ==
  ASSUME ExecInv, cut' \in BOOLEAN, NEW r \in Requests, NEW w \in Windows,
         NEW s \in Tables!SendTimes(w), NEW ask \in 0..RequestedCeiling[r],
         Issue(r, w, s, ask)
  PROVE  ExecInv'
<1>1. /\ Tables!Issue(r, w, s, ask)
      /\ claims' = [claims EXCEPT ![r] = "RESERVED"]
      /\ UNCHANGED <<call, stage, current, tries, provider, pending>>
  BY DEF Issue, runner
<1>2. Tables!TypeOK' /\ Tables!GrantsInBand'
  BY <1>1, IssueTables
<1>3. TypeOK'
  BY <1>1, <1>2 DEF ExecInv, TypeOK, Tables!GrantStates, Tables!CapacityConsuming
<1>4. /\ grants[r].state = "none" /\ grants'[r].state = "RESERVED"
      /\ \A q \in Requests \ {r} : grants'[q] = grants[q]
  BY <1>1 DEF Tables!Issue, ExecInv, TypeOK, Tables!TypeOK
<1>5. InCall => call.request # r /\ call.request \in Requests
  BY <1>4, CallType, CallFacts DEF ExecInv, CallInv
<1>6. CallInv'
  BY <1>1, <1>4, <1>5 DEF ExecInv, CallInv, InCall
<1>7. Busy => current \in Requests
  BY DEF ExecInv, TypeOK, Busy
<1>8. StageInv'
  BY <1>1, <1>4, <1>7 DEF ExecInv, StageInv, InCall, Busy
<1>9. ProviderInv'
  BY <1>1, <1>4 DEF ExecInv, ProviderInv, Busy
<1> QED
  BY <1>2, <1>3, <1>6, <1>8, <1>9 DEF ExecInv

\* What a statement of a call writes, by its place in the call.
LEMMA StatementCases ==
  ASSUME ExecInv, Statement
  PROVE  /\ InCall /\ call.request \in Requests /\ call.op \in Ops
         /\ grants[call.request].window \in Windows
         /\ \/ /\ call.done = 0 /\ grants[call.request].state \in From[call.op]
               /\ grants' = [grants EXCEPT ![call.request].state = Target[call.op]]
               /\ call' = [call EXCEPT !.done = 1]
               /\ UNCHANGED <<claims, merchant, customer>>
            \/ /\ call.done = 1 /\ grants[call.request].state = Target[call.op]
               /\ claims' = [claims EXCEPT ![call.request] = Target[call.op]]
               /\ call' = IF call.op = "execute" THEN NoCall ELSE [call EXCEPT !.done = 2]
               /\ UNCHANGED <<grants, merchant, customer>>
            \/ /\ call.done = 2 /\ grants[call.request].state = Target[call.op]
               /\ call.op # "execute"
               /\ merchant' = SettleMerchant(merchant)
               /\ call' = [call EXCEPT !.done = 3]
               /\ UNCHANGED <<grants, claims, customer>>
            \/ /\ call.done = 3 /\ grants[call.request].state = Target[call.op]
               /\ call.op # "execute"
               /\ customer' = SettleCustomer(customer)
               /\ call' = NoCall
               /\ UNCHANGED <<grants, claims, merchant>>
<1>1. InCall /\ call.request \in Requests /\ call.op \in Ops /\ call.done \in 0..4
  BY CallType DEF Statement, InCall, ExecInv
<1>2. /\ call.done < Len(Statements(call.op))
      /\ IF call.done = 0 THEN grants[call.request].state \in From[call.op]
         ELSE grants[call.request].state = Target[call.op]
  BY <1>1 DEF ExecInv, CallInv
<1>3. grants[call.request].state # "none"
  BY <1>1, <1>2, CallFacts
<1>4. grants[call.request].window \in Windows
  BY <1>1, <1>3 DEF ExecInv, Tables!GrantsInBand, Tables!InItsBand
<1> DEFINE table == Statements(call.op)[call.done + 1]
           length == Len(Statements(call.op))
<1>5. /\ grants' = IF table = "grants"
                   THEN [grants EXCEPT ![call.request].state = Target[call.op]] ELSE grants
      /\ claims' = IF table = "claims"
                   THEN [claims EXCEPT ![call.request] = Target[call.op]] ELSE claims
      /\ merchant' = IF table = "merchant" THEN SettleMerchant(merchant) ELSE merchant
      /\ customer' = IF table = "customer" THEN SettleCustomer(customer) ELSE customer
      /\ call' = IF call.done + 1 = Len(Statements(call.op)) THEN NoCall
                 ELSE [call EXCEPT !.done = @ + 1]
  BY DEF Statement
<1>6. call.done \in 0..3 /\ (call.done > 1 => call.op # "execute")
  <2>1. length = (IF call.op = "execute" THEN 2 ELSE 4) /\ call.done < length
    BY <1>1, <1>2, CallFacts
  <2> HIDE DEF length
  <2> QED
    BY <1>1, <2>1
<1>7. CASE call.done = 0
  <2>1. table = "grants" /\ call.done + 1 # Len(Statements(call.op))
    BY <1>1, <1>7, CallFacts
  <2> QED
    BY <1>1, <1>2, <1>4, <1>5, <1>7, <2>1
<1>8. CASE call.done = 1
  <2>1. /\ table = "claims"
        /\ call.done + 1 = Len(Statements(call.op)) <=> call.op = "execute"
    BY <1>1, <1>8, CallFacts
  <2> QED
    BY <1>1, <1>2, <1>4, <1>5, <1>8, <2>1
<1>9. CASE call.done = 2
  <2>1. call.op # "execute"
    BY <1>9, <1>6
  <2>2. Statements(call.op) = <<"grants", "claims", "merchant", "customer">>
    BY <2>1 DEF Statements
  <2>3. table = "merchant" /\ call.done + 1 # length
    <3>1. call.done + 1 = 3 /\ length = 4
      BY <1>9, <2>2
    <3> QED
      BY <2>2, <3>1
  <2> QED
    BY <1>1, <1>2, <1>4, <1>5, <1>9, <2>1, <2>3
<1>10. CASE call.done = 3
  <2>1. call.op # "execute"
    BY <1>10, <1>6
  <2>2. Statements(call.op) = <<"grants", "claims", "merchant", "customer">>
    BY <2>1 DEF Statements
  <2>3. table = "customer" /\ call.done + 1 = length
    <3>1. call.done + 1 = 4 /\ length = 4
      BY <1>10, <2>2
    <3> QED
      BY <2>2, <3>1
  <2> QED
    BY <1>1, <1>2, <1>4, <1>5, <1>10, <2>1, <2>3
<1> QED
  BY <1>6, <1>7, <1>8, <1>9, <1>10

\* Settling a grant in the pools keeps their types.
LEMMA SettleTypes ==
  ASSUME ExecInv, InCall, grants[call.request].window \in Windows
  PROVE  /\ SettleMerchant(merchant) \in [Windows -> Tables!Pool]
         /\ SettleCustomer(customer) \in [Customers -> [Windows -> Tables!Pool]]
<1>1. /\ call.request \in Requests /\ call.spend \in Nat
      /\ CustomerOf[call.request] \in Customers
      /\ grants[call.request].ceiling \in Nat
      /\ merchant \in [Windows -> Tables!Pool]
      /\ customer \in [Customers -> [Windows -> Tables!Pool]]
  BY CallType, LedgerAssumption DEF ExecInv, TypeOK, Tables!TypeOK, Tables!Grant
<1>2. \A pool \in Tables!Pool : Settled(pool) \in Tables!Pool
  BY <1>1 DEF Tables!Pool, Settled
<1>3. SettleMerchant(merchant) \in [Windows -> Tables!Pool]
  BY <1>1, <1>2 DEF SettleMerchant
<1>4. SettleCustomer(customer) \in [Customers -> [Windows -> Tables!Pool]]
  <2> DEFINE c == CustomerOf[call.request]
             w == grants[call.request].window
             row == [customer[c] EXCEPT ![w] = Settled(@)]
  <2>1. row \in [Windows -> Tables!Pool]
    BY <1>1, <1>2
  <2>2. SettleCustomer(customer) = [customer EXCEPT ![c] = row]
    BY <1>1 DEF SettleCustomer
  <2> HIDE DEF row
  <2> QED
    BY <1>1, <2>1, <2>2
<1> QED
  BY <1>3, <1>4

LEMMA StatementTables ==
  ASSUME ExecInv, Statement
  PROVE  Tables!TypeOK' /\ Tables!GrantsInBand'
<1> DEFINE r == call.request
           moved == [grants EXCEPT ![r].state = Target[call.op]]
<1>1. r \in Requests /\ call.op \in Ops /\ grants[r].window \in Windows /\ InCall
  BY StatementCases
<1>2. /\ grants' \in {grants, moved}
      /\ grants' = moved => grants[r].state # "none"
      /\ merchant' \in {merchant, SettleMerchant(merchant)}
      /\ customer' \in {customer, SettleCustomer(customer)}
  BY StatementCases, CallFacts
<1>3. /\ grants \in [Requests -> Tables!Grant] /\ Tables!GrantsInBand
      /\ merchant \in [Windows -> Tables!Pool]
      /\ customer \in [Customers -> [Windows -> Tables!Pool]]
  BY DEF ExecInv, TypeOK, Tables!TypeOK
<1>4. Target[call.op] \in Tables!GrantStates
  BY <1>1, CallFacts DEF Tables!GrantStates, Tables!CapacityConsuming, Tables!Terminal
<1>5. moved \in [Requests -> Tables!Grant]
  BY <1>1, <1>3, <1>4 DEF Tables!Grant
<1>6. \A q \in Requests : /\ moved[q].window = grants[q].window
                          /\ moved[q].sendAfter = grants[q].sendAfter
                          /\ q # r => moved[q] = grants[q]
  BY <1>1, <1>3 DEF Tables!Grant
<1> HIDE DEF moved
<1>7. Tables!TypeOK'
  BY <1>1, <1>2, <1>3, <1>5, SettleTypes DEF Tables!TypeOK
<1>8. Tables!GrantsInBand'
  <2> SUFFICES ASSUME NEW q \in Requests, grants'[q].state # "none"
               PROVE  Tables!InItsBand(q)'
    BY DEF Tables!GrantsInBand
  <2>1. grants[q].state # "none" /\ grants'[q].window = grants[q].window
        /\ grants'[q].sendAfter = grants[q].sendAfter
    BY <1>1, <1>2, <1>6
  <2> QED
    BY <1>3, <2>1 DEF Tables!GrantsInBand, Tables!InItsBand
<1> QED
  BY <1>7, <1>8

LEMMA StatementKeeps ==
  ASSUME ExecInv, cut' \in BOOLEAN, Statement
  PROVE  ExecInv'
<1> DEFINE r == call.request
           moved == [grants EXCEPT ![r].state = Target[call.op]]
<1>1. /\ InCall /\ r \in Requests /\ call.op \in Ops /\ call.done \in 0..4
      /\ UNCHANGED <<stage, current, tries, provider, pending>>
      /\ call \in [op : Ops, request : Requests, done : 0..4, spend : Nat]
  BY StatementCases, CallType DEF Statement, ExecInv, TypeOK, Calls, NoCall, InCall
<1>2. Target[call.op] \in Tables!GrantStates
  BY <1>1, CallFacts DEF Tables!GrantStates, Tables!CapacityConsuming, Tables!Terminal
<1>3. TypeOK'
  <2>1. claims' \in [Requests -> Tables!GrantStates \cup {"none"}]
    BY <1>1, <1>2, StatementCases DEF ExecInv, TypeOK
  <2>2. call' \in Calls
    BY <1>1, StatementCases DEF Calls
  <2> QED
    BY <1>1, <2>1, <2>2, StatementTables DEF ExecInv, TypeOK
<1>4. /\ moved[r].state = Target[call.op]
      /\ \A q \in Requests : moved[q].ceiling = grants[q].ceiling
      /\ \A q \in Requests : moved[q].expiresAt = grants[q].expiresAt
      /\ \A q \in Requests \ {r} : moved[q] = grants[q]
  BY <1>1 DEF ExecInv, TypeOK, Tables!TypeOK, Tables!Grant
<1> DEFINE length == Len(Statements(call.op))
<1>5. length = IF call.op = "execute" THEN 2 ELSE 4
  BY <1>1, CallFacts
<1>6. CASE call.done = 0
  <2>1. /\ grants' = moved /\ call' = [call EXCEPT !.done = 1]
        /\ grants[r].state \in From[call.op]
    BY <1>6, StatementCases
  <2>2. /\ call'.op = call.op /\ call'.request = r /\ call'.done = 1
        /\ call'.spend = call.spend
    BY <1>1, <2>1
  <2> HIDE DEF moved, length
  <2>3. CallInv'
    <3>1. 1 < length
      BY <1>5
    <3> QED
      BY <1>1, <1>4, <2>1, <2>2, <3>1 DEF ExecInv, CallInv, InCall, length
  <2>4. StageInv'
    BY <1>1, <2>2 DEF ExecInv, StageInv, InCall, Busy
  <2>5. ProviderInv'
    BY <1>1, <1>4, <2>1, <2>2, CallFacts DEF ExecInv, ProviderInv, StageInv, Busy
  <2> QED
    BY <1>3, <2>3, <2>4, <2>5, StatementTables DEF ExecInv
<1>7. CASE call.done # 0
  <2>1. grants' = grants /\ grants[r].state = Target[call.op]
    BY <1>7, StatementCases
  <2>2. \/ call' = NoCall
        \/ /\ call'.op = call.op /\ call'.request = r /\ call'.spend = call.spend
           /\ call'.done \in {2, 3} /\ call'.op # "execute"
    BY <1>1, <1>7, StatementCases
  <2> HIDE DEF length
  <2>3. CallInv'
    <3>1. CASE call' = NoCall
      BY <3>1 DEF CallInv, InCall, NoCall
    <3>2. CASE call' # NoCall
      <4>1. call'.done < length
        BY <1>5, <2>2, <3>2
      <4> QED
        BY <1>1, <1>7, <2>1, <2>2, <3>2, <4>1 DEF ExecInv, CallInv, InCall, length
    <3> QED
      BY <3>1, <3>2
  <2>4. StageInv'
    BY <1>1, <2>1, <2>2, CallFacts DEF ExecInv, StageInv, InCall, NoCall, Busy
  <2>5. ProviderInv'
    BY <1>1, <2>1, <2>2 DEF ExecInv, ProviderInv, NoCall, Busy
  <2> QED
    BY <1>3, <2>3, <2>4, <2>5, StatementTables DEF ExecInv
<1> QED
  BY <1>6, <1>7

\* Steps that write nothing to the tables.
LEMMA TypesWithoutWrite ==
  ASSUME ExecInv, UNCHANGED tables, cut' \in BOOLEAN, call' \in Calls,
         stage' \in Stages, current' \in Requests \cup {NoRequest},
         current' = NoRequest <=> stage' = "rest", tries' \in 0..MaxAttempts,
         provider' \in Providers, pending' \in Modes \cup {"unset"}
  PROVE  TypeOK' /\ Tables!GrantsInBand'
BY SameRows DEF ExecInv, TypeOK, tables

\* A call begins: nothing is written yet.
LEMMA BeginFacts ==
  ASSUME ExecInv, NEW op \in Ops, NEW r \in Requests, NEW spend \in Nat,
         Begin(op, r, spend), UNCHANGED grants,
         spend = IF op = "confirm" THEN grants[r].ceiling ELSE 0,
         op = "expire" => \E now \in Instants : grants[r].expiresAt < now
  PROVE  /\ call' \in Calls /\ CallInv' /\ InCall'
         /\ call'.op = op /\ call'.request = r
         /\ call'.done = 0 /\ grants[r].state \in From[op]
<1>1. /\ call' = [op |-> op, request |-> r, done |-> 0, spend |-> spend]
      /\ grants[r].state \in From[op]
  BY DEF Begin
<1> DEFINE length == Len(Statements(op))
<1>2. 0 < length
  <2>1. length = IF op = "execute" THEN 2 ELSE 4
    BY CallFacts
  <2> HIDE DEF length
  <2> QED
    BY <2>1
<1>3. op # "none"
  BY CallFacts
<1> QED
  BY <1>1, <1>2, <1>3 DEF Calls, CallInv, InCall

LEMMA StartExecutionKeeps ==
  ASSUME ExecInv, cut' \in BOOLEAN, NEW r \in Requests, StartExecution(r)
  PROVE  ExecInv'
<1>1. /\ Begin("execute", r, 0) /\ stage = "rest" /\ call = NoCall
      /\ stage' = "script" /\ current' = r
      /\ UNCHANGED <<tables, tries, provider, pending>>
  BY DEF StartExecution, Idle, At
<1>2. /\ call' \in Calls /\ CallInv' /\ InCall' /\ call'.op = "execute"
      /\ call'.request = r /\ grants[r].state = "RESERVED"
  BY <1>1, BeginFacts, CallFacts DEF tables
<1>3. TypeOK' /\ Tables!GrantsInBand'
  BY <1>1, <1>2, TypesWithoutWrite, AttemptsAssumption DEF ExecInv, TypeOK, Stages
<1>4. StageInv'
  BY <1>1, <1>2 DEF StageInv, InCall
<1>5. provider.attempts[r] = 0 /\ r \notin provider.accepted /\ tries = 0
  BY <1>1, <1>2 DEF ExecInv, ProviderInv, Busy, TypeOK, Providers
<1>6. ProviderInv'
  BY <1>1, <1>2, <1>5 DEF ExecInv, ProviderInv, Busy, tables
<1> QED
  BY <1>2, <1>3, <1>4, <1>6 DEF ExecInv

LEMMA StartExpireKeeps ==
  ASSUME ExecInv, cut' \in BOOLEAN, NEW r \in Requests, NEW now \in Instants,
         StartExpire(r, now)
  PROVE  ExecInv'
<1>1. /\ Begin("expire", r, 0) /\ stage = "rest" /\ call = NoCall
      /\ grants[r].expiresAt < now
      /\ UNCHANGED <<tables, stage, current, tries, provider, pending>>
  BY DEF StartExpire, Idle, At
<1>2. /\ call' \in Calls /\ CallInv' /\ InCall' /\ call'.op = "expire"
      /\ call'.request = r
  BY <1>1, BeginFacts, CallFacts DEF tables
<1>3. TypeOK' /\ Tables!GrantsInBand'
  BY <1>1, <1>2, TypesWithoutWrite DEF ExecInv, TypeOK
<1>4. StageInv'
  BY <1>1, <1>2 DEF StageInv, InCall, Busy
<1>5. ProviderInv'
  BY <1>1, <1>2 DEF ExecInv, ProviderInv, Busy, tables
<1> QED
  BY <1>2, <1>3, <1>4, <1>5 DEF ExecInv

\* Arming a failure changes no count of the provider's.
LEMMA ArmKeeps ==
  ASSUME ExecInv, cut' \in BOOLEAN, NEW mode \in Modes,
         NEW r \in Requests \cup {NoRequest},
         Arm(mode, r) \/ UNCHANGED provider,
         UNCHANGED <<tables, call, current, tries>>,
         pending' \in Modes \cup {"unset"},
         stage' \in Stages, Busy <=> stage' # "rest",
         stage' = "disarm" <=> stage = "disarm",
         stage' \in {"script", "chaos", "clear", "send"} =>
           (~InCall /\ stage \in {"script", "chaos", "clear"}) \/ stage' = stage
  PROVE  ExecInv'
<1>1. /\ provider' \in Providers
      /\ provider'.attempts = provider.attempts /\ provider'.sent = provider.sent
      /\ provider'.accepted = provider.accepted
  BY DEF Arm, ExecInv, TypeOK, Providers
<1>2. TypeOK' /\ Tables!GrantsInBand'
  BY <1>1, TypesWithoutWrite DEF ExecInv, TypeOK, Busy
<1>3. CallInv'
  BY DEF ExecInv, CallInv, InCall, tables
<1>4. StageInv'
  BY DEF ExecInv, StageInv, InCall, Busy, tables, Stages
<1>5. ProviderInv'
  BY <1>1 DEF ExecInv, ProviderInv, Busy, tables, Stages
<1> QED
  BY <1>2, <1>3, <1>4, <1>5 DEF ExecInv

LEMMA ArmingKeeps ==
  ASSUME ExecInv, cut' \in BOOLEAN,
         \/ ArmScripted \/ ArmPending \/ ClearPending
         \/ \E mode \in Modes : Press(mode) \/ ArmNext(mode)
  PROVE  ExecInv'
<1> USE DEF Modes, Stages, Busy, InCall
<1>1. /\ current \in Requests \cup {NoRequest} /\ stage \in Stages
      /\ pending \in Modes \cup {"unset"}
  BY DEF ExecInv, TypeOK
<1>2. CASE ArmScripted
  BY <1>1, <1>2, ArmKeeps, CallType DEF ArmScripted, At, NoCall, ExecInv
<1>3. CASE ArmPending
  <2>1. CASE pending = "unset"
    BY <1>1, <1>3, <2>1, ArmKeeps, CallType DEF ArmPending, At, NoCall, ExecInv
  <2>2. CASE pending # "unset"
    BY <1>1, <1>3, <2>2, ArmKeeps, CallType DEF ArmPending, At, NoCall, ExecInv
  <2> QED
    BY <2>1, <2>2
<1>4. CASE ClearPending
  BY <1>1, <1>4, ArmKeeps, CallType DEF ClearPending, At, NoCall, ExecInv
<1>5. ASSUME NEW mode \in Modes, Press(mode) PROVE ExecInv'
  BY <1>1, <1>5, ArmKeeps DEF Press, runner
<1>6. ASSUME NEW mode \in Modes, ArmNext(mode) PROVE ExecInv'
  BY <1>1, <1>6, ArmKeeps DEF ArmNext, runner
<1> QED
  BY <1>2, <1>3, <1>4, <1>5, <1>6

LEMMA SendTimesOutKeeps ==
  ASSUME ExecInv, cut' \in BOOLEAN, SendTimesOut
  PROVE  ExecInv'
<1> DEFINE accepts == provider.mode = "accept_then_timeout"
<1>1. /\ call = NoCall /\ stage = "send" /\ tries < MaxAttempts
      /\ current \notin provider.accepted
      /\ provider.mode = "hard_down" \/ Attempt = 1
      /\ provider' = [provider EXCEPT
           !.attempts[current] = Attempt,
           !.accepted = IF accepts THEN @ \cup {current} ELSE @,
           !.sent[current] = IF accepts THEN @ + 1 ELSE @]
      /\ tries' = tries + 1
      /\ UNCHANGED <<tables, call, stage, current, pending>>
  BY DEF SendTimesOut, At, TimesOut
<1>2. /\ current \in Requests /\ provider \in Providers /\ tries \in 0..MaxAttempts
      /\ MaxAttempts \in Nat
  BY <1>1, AttemptsAssumption DEF ExecInv, TypeOK
<1>3. /\ Attempt = tries + 1 /\ grants[current].state = "EXECUTING"
      /\ provider.sent[current] = 0
  BY <1>1, <1>2 DEF ExecInv, ProviderInv, StageInv, Attempt, InCall, Busy, NoCall
<1>4. /\ provider'.attempts = [provider.attempts EXCEPT ![current] = tries + 1]
      /\ provider'.accepted = IF accepts THEN provider.accepted \cup {current}
                              ELSE provider.accepted
      /\ provider'.sent = [provider.sent EXCEPT ![current] = IF accepts THEN 1 ELSE 0]
      /\ provider' \in Providers
  <2>1. /\ provider'.attempts = [provider.attempts EXCEPT ![current] = Attempt]
        /\ provider'.accepted = IF accepts THEN provider.accepted \cup {current}
                                ELSE provider.accepted
    BY <1>1, <1>2 DEF Providers
  <2>2. provider'.sent = [provider.sent EXCEPT
                            ![current] = IF accepts THEN @ + 1 ELSE @]
    BY <1>1, <1>2 DEF Providers
  <2>3. /\ provider' = [provider EXCEPT !.attempts = provider'.attempts,
                                       !.accepted = provider'.accepted,
                                       !.sent = provider'.sent]
    BY <1>1, <1>2 DEF Providers
  <2> HIDE DEF accepts
  <2>4. /\ provider'.attempts \in [Requests -> 0..MaxAttempts]
        /\ provider'.accepted \in SUBSET Requests
        /\ provider'.sent \in [Requests -> Nat]
    BY <1>1, <1>2, <1>3, <2>1, <2>2 DEF Providers
  <2>5. provider' \in Providers
    BY <1>2, <2>3, <2>4 DEF Providers
  <2>6. provider'.sent = [provider.sent EXCEPT ![current] = IF accepts THEN 1 ELSE 0]
    BY <1>3, <2>2
  <2> QED
    BY <1>3, <2>1, <2>5, <2>6
<1>5. TypeOK' /\ Tables!GrantsInBand'
  BY <1>1, <1>2, <1>4, TypesWithoutWrite DEF ExecInv, TypeOK
<1>6. CallInv' /\ StageInv'
  BY <1>1 DEF ExecInv, CallInv, StageInv, InCall, Busy, tables, NoCall
<1>7. accepts => tries = 0
  BY <1>1, <1>2, <1>3
<1> HIDE DEF accepts
<1>8. ProviderInv'
  BY <1>1, <1>2, <1>3, <1>4, <1>7
  DEF ExecInv, ProviderInv, Busy, tables, NoCall, Providers
<1> QED
  BY <1>5, <1>6, <1>8 DEF ExecInv

LEMMA SendSucceedsKeeps ==
  ASSUME ExecInv, cut' \in BOOLEAN, SendSucceeds
  PROVE  ExecInv'
<1>1. /\ call = NoCall /\ stage = "send" /\ tries < MaxAttempts
      /\ provider' = Deliver
      /\ Begin("confirm", current, grants[current].ceiling)
      /\ stage' = "rest" /\ current' = NoRequest /\ tries' = 0
      /\ UNCHANGED <<tables, pending>>
  BY DEF SendSucceeds, At, Rest
<1>2. /\ current \in Requests /\ provider \in Providers /\ tries \in 0..MaxAttempts
      /\ MaxAttempts \in Nat /\ grants[current].ceiling \in Nat
  BY <1>1, AttemptsAssumption DEF ExecInv, TypeOK, Tables!TypeOK, Tables!Grant
<1>3. Attempt = tries + 1 /\ Attempt \in 0..MaxAttempts
  BY <1>1, <1>2 DEF ExecInv, ProviderInv, Attempt
<1>4. /\ provider'.attempts = [provider.attempts EXCEPT ![current] = Attempt]
      /\ provider'.accepted = provider.accepted \cup {current}
      /\ provider'.sent = [provider.sent EXCEPT
                             ![current] = IF current \in provider.accepted THEN @ ELSE @ + 1]
      /\ provider' \in Providers
  <2>1. /\ provider'.attempts = [provider.attempts EXCEPT ![current] = Attempt]
        /\ provider'.accepted = provider.accepted \cup {current}
    BY <1>1, <1>2 DEF Deliver, Disarmed, Providers
  <2>2. provider'.sent = [provider.sent EXCEPT
                            ![current] = IF current \in provider.accepted THEN @ ELSE @ + 1]
    BY <1>1, <1>2 DEF Deliver, Disarmed, Providers
  <2>3. provider' = [mode |-> "none", target |-> NoRequest,
                     attempts |-> provider'.attempts, accepted |-> provider'.accepted,
                     sent |-> provider'.sent]
    BY <1>1, <1>2 DEF Deliver, Disarmed, Providers
  <2>4. /\ provider'.attempts \in [Requests -> 0..MaxAttempts]
        /\ provider'.accepted \in SUBSET Requests
        /\ provider'.sent \in [Requests -> Nat]
    BY <1>1, <1>2, <1>3, <2>1, <2>2 DEF Providers
  <2> QED
    BY <2>1, <2>2, <2>3, <2>4 DEF Providers, Modes
<1>5. /\ call' \in Calls /\ CallInv' /\ InCall' /\ call'.op = "confirm"
      /\ call'.request = current /\ grants[current].state = "EXECUTING"
  BY <1>1, <1>2, BeginFacts, CallFacts DEF tables
<1>6. TypeOK' /\ Tables!GrantsInBand'
  BY <1>1, <1>2, <1>4, <1>5, TypesWithoutWrite, AttemptsAssumption
  DEF ExecInv, TypeOK, Stages
<1>7. StageInv'
  BY <1>1, <1>5 DEF StageInv, InCall, Busy
<1>8. ProviderInv'
  BY <1>1, <1>2, <1>3, <1>4, <1>5 DEF ExecInv, ProviderInv, Busy, tables, Providers
<1> QED
  BY <1>5, <1>6, <1>7, <1>8 DEF ExecInv

\* The provider has accepted nothing when all attempts have failed: there are two
\* at least, and only the first can be accepted without an answer.
LEMMA GiveUpKeeps ==
  ASSUME ExecInv, cut' \in BOOLEAN, GiveUp
  PROVE  ExecInv'
<1>1. /\ call = NoCall /\ stage = "send" /\ tries = MaxAttempts
      /\ Begin("rollback", current, 0) /\ stage' = "disarm"
      /\ UNCHANGED <<tables, current, tries, provider, pending>>
  BY DEF GiveUp, At
<1>2. current \in Requests /\ current \notin provider.accepted
  BY <1>1, AttemptsAssumption DEF ExecInv, TypeOK, ProviderInv
<1>3. /\ call' \in Calls /\ CallInv' /\ InCall' /\ call'.op = "rollback"
      /\ call'.request = current
  BY <1>1, <1>2, BeginFacts, CallFacts DEF tables
<1>4. TypeOK' /\ Tables!GrantsInBand'
  BY <1>1, <1>2, <1>3, TypesWithoutWrite DEF ExecInv, TypeOK, Stages
<1>5. StageInv'
  BY <1>1, <1>3 DEF StageInv, InCall, Busy
<1>6. ProviderInv'
  BY <1>1, <1>2, <1>3 DEF ExecInv, ProviderInv, Busy, tables
<1> QED
  BY <1>3, <1>4, <1>5, <1>6 DEF ExecInv

\* The runner comes to rest, whether it is done or was cut short.
LEMMA RestKeeps ==
  ASSUME ExecInv, cut' \in BOOLEAN, Disarm \/ Lose
  PROVE  ExecInv'
<1>1. /\ call' = NoCall
      /\ stage' = "rest" /\ current' = NoRequest /\ tries' = 0
      /\ UNCHANGED <<tables, pending>>
      /\ provider' = provider \/ provider' = Disarmed
  <2>1. CASE Disarm
    BY <2>1 DEF Disarm, Rest, At, tables
  <2>2. CASE Lose
    BY <2>2 DEF Lose, Rest, tables
  <2> QED
    BY <2>1, <2>2
<1>2. /\ provider' \in Providers /\ provider'.accepted = provider.accepted
      /\ provider'.attempts = provider.attempts /\ provider'.sent = provider.sent
  BY <1>1 DEF ExecInv, TypeOK, Disarmed, Providers, Modes
<1>3. call' = NoCall /\ ~InCall'
  BY <1>1 DEF InCall, NoCall
<1>4. TypeOK' /\ Tables!GrantsInBand'
  BY <1>1, <1>2, <1>3, TypesWithoutWrite, AttemptsAssumption
  DEF ExecInv, TypeOK, Stages, Calls
<1>5. CallInv' /\ StageInv'
  BY <1>1, <1>3 DEF CallInv, StageInv, InCall, Busy, NoCall
<1>6. ProviderInv'
  BY <1>1, <1>2, <1>3 DEF ExecInv, ProviderInv, Busy, tables, NoCall
<1> QED
  BY <1>4, <1>5, <1>6 DEF ExecInv

LEMMA ExecStep == ExecInv /\ [Next]_vars => ExecInv'
<1> SUFFICES ASSUME ExecInv, [Next]_vars PROVE ExecInv'
  OBVIOUS
<1>1. cut' \in BOOLEAN
  BY DEF ExecInv, TypeOK, Next, vars
<1>2. CASE Work
  BY <1>1, <1>2, IssueKeeps, StatementKeeps, StartExecutionKeeps, StartExpireKeeps,
     ArmingKeeps, SendTimesOutKeeps, SendSucceedsKeeps, GiveUpKeeps, RestKeeps
  DEF Work, Run
<1>3. CASE Lose
  BY <1>1, <1>3, RestKeeps
<1>4. CASE UNCHANGED vars
  BY <1>1, <1>4, SameRows
  DEF vars, tables, runner, ExecInv, TypeOK, CallInv, StageInv, ProviderInv, InCall, Busy
<1> QED
  BY <1>2, <1>3, <1>4 DEF Next

LEMMA ExecInvHolds == Spec => []ExecInv
BY ExecInit, ExecStep, PTL DEF Spec

\* The variables hold what the columns and the program's fields can hold.
THEOREM ExecutionTypes == Spec => []TypeOK
BY ExecInvHolds, PTL DEF ExecInv

\* A customer is contacted once for a confirmed grant and never otherwise, however
\* often the runner tries, whatever the provider takes without answering, and
\* wherever a call is cut short.
THEOREM ContactedOnceHolds == Spec => []ContactedOnce
<1>1. ExecInv => ContactedOnce
  BY DEF ExecInv, ProviderInv, ContactedOnce
<1> QED
  BY <1>1, ExecInvHolds, PTL

\* A failure armed for one grant is not armed any more when the runner is busy with
\* the next, if it was not cut short.
THEOREM FailuresStay == Spec => []FailureStaysWithItsGrant
<1>1. Init => FailureStaysWithItsGrant
  BY DEF Init, FailureStaysWithItsGrant
<1>2. ExecInv /\ FailureStaysWithItsGrant /\ [Next]_vars => FailureStaysWithItsGrant'
  <2> SUFFICES ASSUME ExecInv, FailureStaysWithItsGrant, [Next]_vars
               PROVE  FailureStaysWithItsGrant'
    OBVIOUS
  <2> USE DEF FailureStaysWithItsGrant
  <2>0. provider \in Providers
    BY DEF ExecInv, TypeOK
  <2>1. CASE UNCHANGED <<provider, current, cut>>
    BY <2>1
  <2>2. ASSUME NEW r \in Requests, StartExecution(r), UNCHANGED cut
        PROVE  FailureStaysWithItsGrant'
    <3>1. current = NoRequest
      BY <2>2 DEF StartExecution, Idle, At, ExecInv, TypeOK
    <3> QED
      BY <2>2, <3>1 DEF StartExecution
  <2>3. CASE (ArmScripted \/ ArmPending \/ \E mode \in Modes : ArmNext(mode)) /\ UNCHANGED cut
    BY <2>0, <2>3 DEF ArmScripted, ArmPending, ArmNext, Arm, Providers, runner
  <2>4. CASE SendTimesOut /\ UNCHANGED cut
    BY <2>0, <2>4 DEF SendTimesOut, Providers
  <2>5. CASE SendSucceeds \/ Disarm
    BY <2>0, <2>5 DEF SendSucceeds, Disarm, Deliver, Disarmed, Providers
  <2>6. CASE cut'
    BY <2>6
  <2> QED
    BY <2>1, <2>2, <2>3, <2>4, <2>5, <2>6
    DEF Next, Work, Run, Issue, Statement, ClearPending, GiveUp, StartExpire, Press,
        vars, runner
<1> QED
  BY <1>1, <1>2, ExecInvHolds, PTL DEF Spec

-----------------------------------------------------------------------------
(* The four UPDATEs of a call implement the one step of ContactLedger. *)

\* The first statement of a call is the abstract step: from then on the abstract
\* pools are settled, and the real ones are until their own statement ahead of
\* nobody.
Releases == InCall /\ call.op # "execute"
MerchantDue == Releases /\ call.done \in {1, 2}
CustomerDue == Releases /\ call.done \in {1, 2, 3}
LedgerMerchant == IF MerchantDue THEN SettleMerchant(merchant) ELSE merchant
LedgerCustomer == IF CustomerDue THEN SettleCustomer(customer) ELSE customer

LEMMA DueFacts ==
  ASSUME ExecInv
  PROVE  /\ MerchantDue <=> "grants" \notin Unsent /\ "merchant" \in Unsent
         /\ CustomerDue <=> "grants" \notin Unsent /\ "customer" \in Unsent
<1>1. CASE ~InCall
  BY <1>1 DEF MerchantDue, CustomerDue, Releases, InCall, Unsent
<1>2. CASE InCall
  <2> DEFINE length == Len(Statements(call.op))
  <2>1. /\ call.op \in Ops /\ call.done \in 0..4
        /\ call.done < length
    BY <1>2, CallType DEF ExecInv, CallInv
  <2>2. Unsent = {Statements(call.op)[i] : i \in (call.done + 1)..length}
    BY <1>2 DEF Unsent, InCall
  <2>3. CASE call.op = "execute"
    <3>1. length = 2 /\ Statements(call.op)[1] = "grants" /\ Statements(call.op)[2] = "claims"
      BY <2>1, <2>3, CallFacts
    <3> HIDE DEF length
    <3>2. "merchant" \notin Unsent /\ "customer" \notin Unsent
      <4>1. \A i \in (call.done + 1)..length : i = 1 \/ i = 2
        BY <2>1, <3>1
      <4> QED
        BY <2>2, <3>1, <4>1
    <3> QED
      BY <2>3, <3>2 DEF MerchantDue, CustomerDue, Releases
  <2>4. CASE call.op # "execute"
    <3>1. /\ length = 4
          /\ Statements(call.op)[1] = "grants" /\ Statements(call.op)[2] = "claims"
          /\ Statements(call.op)[3] = "merchant" /\ Statements(call.op)[4] = "customer"
      BY <2>1, <2>4, CallFacts
    <3> HIDE DEF length
    <3> DEFINE table(i) == Statements(call.op)[i]
    <3>2. \A x : x \in Unsent <=> \E i \in (call.done + 1)..4 : x = table(i)
      BY <2>2, <3>1
    <3>3. /\ \A i \in 1..4 : table(i) = "grants" <=> i = 1
          /\ \A i \in 1..4 : table(i) = "merchant" <=> i = 3
          /\ \A i \in 1..4 : table(i) = "customer" <=> i = 4
      BY <3>1
    <3> HIDE DEF table
    <3>4. call.done \in 0..3
      BY <2>1, <3>1
    <3>5. /\ "grants" \in Unsent <=> call.done = 0
          /\ "merchant" \in Unsent <=> call.done <= 2
          /\ "customer" \in Unsent
      BY <3>2, <3>3, <3>4
    <3> QED
      BY <1>2, <2>4, <3>4, <3>5 DEF MerchantDue, CustomerDue, Releases
  <2> QED
    BY <2>3, <2>4
<1> QED
  BY <1>1, <1>2

\* The names stand for what Ledger is instantiated with.
TermsAgree ==
  /\ LedgerMerchant = IF "grants" \notin Unsent /\ "merchant" \in Unsent
                      THEN SettleMerchant(merchant) ELSE merchant
  /\ LedgerCustomer = IF "grants" \notin Unsent /\ "customer" \in Unsent
                      THEN SettleCustomer(customer) ELSE customer

LEMMA LedgerTerms == ExecInv => TermsAgree
BY DueFacts DEF TermsAgree, LedgerMerchant, LedgerCustomer

\* An abstract ledger's step, with the mapped pools under their names.
LEMMA LedgerIssue ==
  ASSUME ExecInv, ExecInv', NEW r, NEW w, NEW s, NEW ask
  PROVE  Ledger!Issue(r, w, s, ask) <=>
           LET c == CustomerOf[r]
               mLeft == Tables!Remaining(MerchantBudget, LedgerMerchant[w])
               cLeft == Tables!Remaining(CustomerBudget[c], LedgerCustomer[c][w])
               ceiling == Tables!DowngradeToFit(ask, mLeft, cLeft)
           IN  /\ grants[r].state = "none"
               /\ mLeft > 0 /\ cLeft > 0
               /\ Tables!BelowCaps(c, w)
               /\ ~Tables!HasActiveClaim(c, w)
               /\ grants' = [grants EXCEPT ![r] =
                               [state |-> "RESERVED", window |-> w, sendAfter |-> s,
                                expiresAt |-> s + GrantTTL, ceiling |-> ceiling]]
               /\ LedgerMerchant' = [LedgerMerchant EXCEPT ![w].reserved = @ + ceiling]
               /\ LedgerCustomer' = [LedgerCustomer EXCEPT ![c][w].reserved = @ + ceiling]
<1>1. TermsAgree /\ TermsAgree'
  BY LedgerTerms, PTL
<1>2. /\ \A a, b : Ledger!Lesser(a, b) = Tables!Lesser(a, b)
      /\ \A c, x : Ledger!BelowCaps(c, x) <=> Tables!BelowCaps(c, x)
      /\ \A c, x : Ledger!HasActiveClaim(c, x) <=> Tables!HasActiveClaim(c, x)
  BY DEF Ledger!Lesser, Tables!Lesser, Ledger!BelowCaps, Tables!BelowCaps,
         Ledger!ContactsAfter, Tables!ContactsAfter, Ledger!HasActiveClaim,
         Tables!HasActiveClaim, Ledger!Active, Tables!Active, Ledger!CapacityConsuming,
         Tables!CapacityConsuming, Ledger!WindowStart, Tables!WindowStart,
         Ledger!Cardinality, Tables!Cardinality
<1> QED
  BY <1>1, <1>2
  DEF TermsAgree, Ledger!Issue, Ledger!Remaining, Tables!Remaining, Ledger!DowngradeToFit,
      Tables!DowngradeToFit

LEMMA LedgerSettle ==
  ASSUME ExecInv, ExecInv', NEW r, NEW spend
  PROVE  Ledger!Settle(r, spend) <=>
           LET w == grants[r].window
               ceiling == grants[r].ceiling
               Settles(pool) == [reserved |-> pool.reserved - ceiling,
                                 spent |-> pool.spent + spend]
           IN  /\ LedgerMerchant' = [LedgerMerchant EXCEPT ![w] = Settles(@)]
               /\ LedgerCustomer' = [LedgerCustomer EXCEPT ![CustomerOf[r]][w] = Settles(@)]
<1>1. TermsAgree /\ TermsAgree'
  BY LedgerTerms, PTL
<1> QED
  BY <1>1 DEF TermsAgree, Ledger!Settle

LEMMA LedgerStutters ==
  ASSUME ExecInv, ExecInv', UNCHANGED <<grants, LedgerMerchant, LedgerCustomer>>
  PROVE  UNCHANGED Ledger!vars
<1>1. TermsAgree /\ TermsAgree'
  BY LedgerTerms, PTL
<1> QED
  BY <1>1 DEF TermsAgree, Ledger!vars

LEMMA LedgerStarts == Init => Ledger!Init
<1> SUFFICES ASSUME Init PROVE Ledger!Init
  OBVIOUS
<1>1. TermsAgree
  BY ExecInit, LedgerTerms
<1>2. LedgerMerchant = merchant /\ LedgerCustomer = customer
  BY DEF Init, NoCall, LedgerMerchant, LedgerCustomer, MerchantDue, CustomerDue, Releases,
         InCall
<1> QED
  BY <1>1, <1>2
  DEF Init, TermsAgree, Ledger!Init, Ledger!NoGrant, Ledger!FreshPool,
      Tables!Init, Tables!NoGrant, Tables!FreshPool

\* What a call still owes the pools makes them only look fuller than they are.
LEMMA SettledFacts ==
  ASSUME ExecInv, InCall
  PROVE  /\ call.request \in Requests /\ CustomerOf[call.request] \in Customers
         /\ grants[call.request].window \in Windows
         /\ \A pool \in Tables!Pool, b \in Nat :
              /\ Settled(pool) \in Tables!Pool
              /\ Tables!Remaining(b, Settled(pool)) >= Tables!Remaining(b, pool)
<1> DEFINE q == call.request
<1>1. /\ q \in Requests /\ CustomerOf[q] \in Customers /\ grants[q].ceiling \in Nat
      /\ call.op \in Ops
  BY CallType, LedgerAssumption DEF ExecInv, TypeOK, Tables!TypeOK, Tables!Grant
<1>2. grants[q].state # "none"
  BY <1>1, CallFacts DEF ExecInv, CallInv
<1>3. grants[q].window \in Windows /\ call.spend \in 0..grants[q].ceiling
  BY <1>1, <1>2 DEF ExecInv, CallInv, Tables!GrantsInBand, Tables!InItsBand
<1> QED
  BY <1>1, <1>3 DEF Settled, Tables!Pool, Tables!Remaining

LEMMA PoolLeft ==
  ASSUME NEW pool \in Tables!Pool, NEW b \in Nat
  PROVE  /\ Tables!Remaining(b, pool) \in Int
         /\ Held(pool) \in Int /\ Held(pool) = b - Tables!Remaining(b, pool)
BY DEF Tables!Pool, Tables!Remaining, Held

LEMMA MerchantLooksFuller ==
  ASSUME ExecInv, NEW w \in Windows
  PROVE  /\ LedgerMerchant \in [Windows -> Tables!Pool]
         /\ Tables!Remaining(MerchantBudget, LedgerMerchant[w]) \in Int
         /\ Tables!Remaining(MerchantBudget, merchant[w]) \in Int
         /\ Tables!Remaining(MerchantBudget, LedgerMerchant[w])
              >= Tables!Remaining(MerchantBudget, merchant[w])
         /\ Held(merchant[w]) \in Int /\ Held(LedgerMerchant[w]) \in Int
         /\ Held(merchant[w]) >= Held(LedgerMerchant[w])
<1>1. MerchantBudget \in Nat /\ merchant \in [Windows -> Tables!Pool]
  BY LedgerAssumption DEF ExecInv, TypeOK, Tables!TypeOK
<1>2. /\ LedgerMerchant \in [Windows -> Tables!Pool]
      /\ \/ LedgerMerchant[w] = merchant[w]
         \/ InCall /\ LedgerMerchant[w] = Settled(merchant[w])
  BY <1>1, SettledFacts DEF LedgerMerchant, MerchantDue, Releases, SettleMerchant
<1>3. Tables!Remaining(MerchantBudget, LedgerMerchant[w])
        >= Tables!Remaining(MerchantBudget, merchant[w])
  BY <1>1, <1>2, SettledFacts, PoolLeft
<1> QED
  BY <1>1, <1>2, <1>3, PoolLeft

LEMMA CustomerLooksFuller ==
  ASSUME ExecInv, NEW c \in Customers, NEW w \in Windows
  PROVE  /\ LedgerCustomer \in [Customers -> [Windows -> Tables!Pool]]
         /\ Tables!Remaining(CustomerBudget[c], LedgerCustomer[c][w]) \in Int
         /\ Tables!Remaining(CustomerBudget[c], customer[c][w]) \in Int
         /\ Tables!Remaining(CustomerBudget[c], LedgerCustomer[c][w])
              >= Tables!Remaining(CustomerBudget[c], customer[c][w])
         /\ Held(customer[c][w]) \in Int /\ Held(LedgerCustomer[c][w]) \in Int
         /\ Held(customer[c][w]) >= Held(LedgerCustomer[c][w])
<1> DEFINE d == CustomerOf[call.request]
           x == grants[call.request].window
<1>1. CustomerBudget[c] \in Nat /\ customer \in [Customers -> [Windows -> Tables!Pool]]
  BY LedgerAssumption DEF ExecInv, TypeOK, Tables!TypeOK
<1>2. /\ LedgerCustomer \in [Customers -> [Windows -> Tables!Pool]]
      /\ \/ LedgerCustomer[c][w] = customer[c][w]
         \/ InCall /\ LedgerCustomer[c][w] = Settled(customer[c][w])
  <2>1. CASE ~CustomerDue
    BY <1>1, <2>1 DEF LedgerCustomer
  <2>2. CASE CustomerDue
    <3>1. InCall
      BY <2>2 DEF CustomerDue, Releases
    <3> DEFINE row == [customer[d] EXCEPT ![x] = Settled(@)]
    <3>2. row \in [Windows -> Tables!Pool]
      BY <1>1, <3>1, SettledFacts
    <3>3. LedgerCustomer = [customer EXCEPT ![d] = row]
      BY <1>1, <2>2 DEF LedgerCustomer, SettleCustomer
    <3>4. row[w] \in {customer[d][w], Settled(customer[d][w])}
      BY <1>1, <3>1, SettledFacts
    <3> HIDE DEF row
    <3> QED
      BY <1>1, <3>1, <3>2, <3>3, <3>4, SettledFacts
  <2> QED
    BY <2>1, <2>2
<1>3. Tables!Remaining(CustomerBudget[c], LedgerCustomer[c][w])
        >= Tables!Remaining(CustomerBudget[c], customer[c][w])
  BY <1>1, <1>2, SettledFacts, PoolLeft
<1> QED
  BY <1>1, <1>2, <1>3, PoolLeft

\* What an issuance of this ceiling does, with the real pools and the abstract ones.
Issued(r, w, s, ceiling) ==
  LET c == CustomerOf[r]
  IN  /\ Tables!Remaining(MerchantBudget, merchant[w]) > 0
      /\ Tables!Remaining(CustomerBudget[c], customer[c][w]) > 0
      /\ ceiling <= Tables!Remaining(MerchantBudget, merchant[w])
      /\ ceiling <= Tables!Remaining(CustomerBudget[c], customer[c][w])
      /\ grants' = [grants EXCEPT ![r] =
                      [state |-> "RESERVED", window |-> w, sendAfter |-> s,
                       expiresAt |-> s + GrantTTL, ceiling |-> ceiling]]
      /\ merchant' = [merchant EXCEPT ![w].reserved = @ + ceiling]
      /\ customer' = [customer EXCEPT ![c][w].reserved = @ + ceiling]
      /\ LedgerMerchant' = [LedgerMerchant EXCEPT ![w].reserved = @ + ceiling]
      /\ LedgerCustomer' = [LedgerCustomer EXCEPT ![c][w].reserved = @ + ceiling]

\* A new grant changes the real pools and the abstract ones alike: what a call has
\* still to do to them can be done before it or after it.
LEMMA IssueOnPools ==
  ASSUME ExecInv, NEW r \in Requests, NEW w \in Windows, NEW s,
         NEW ask \in 0..RequestedCeiling[r], Issue(r, w, s, ask)
  PROVE  \E ceiling \in 0..RequestedCeiling[r] : Issued(r, w, s, ceiling)
<1> DEFINE c == CustomerOf[r]
           mLeft == Tables!Remaining(MerchantBudget, merchant[w])
           cLeft == Tables!Remaining(CustomerBudget[c], customer[c][w])
           ceiling == Tables!DowngradeToFit(ask, mLeft, cLeft)
<1>1. /\ grants[r].state = "none"
      /\ mLeft > 0 /\ cLeft > 0
      /\ grants' = [grants EXCEPT ![r] =
                      [state |-> "RESERVED", window |-> w, sendAfter |-> s,
                       expiresAt |-> s + GrantTTL, ceiling |-> ceiling]]
      /\ merchant' = [merchant EXCEPT ![w].reserved = @ + ceiling]
      /\ customer' = [customer EXCEPT ![c][w].reserved = @ + ceiling]
      /\ UNCHANGED call
  BY DEF Issue, Tables!Issue, runner
<1>2. mLeft \in Int /\ cLeft \in Int
  BY MerchantLooksFuller, CustomerLooksFuller, LedgerAssumption
<1>3. c \in Customers /\ RequestedCeiling[r] \in Nat
  BY LedgerAssumption
<1> HIDE DEF mLeft, cLeft
<1>4. ceiling \in 0..RequestedCeiling[r] /\ ceiling <= mLeft /\ ceiling <= cLeft
  BY <1>1, <1>2, <1>3 DEF Tables!DowngradeToFit, Tables!Lesser
<1> HIDE DEF ceiling
<1>5. /\ merchant \in [Windows -> Tables!Pool]
      /\ customer \in [Customers -> [Windows -> Tables!Pool]]
      /\ grants \in [Requests -> Tables!Grant]
  BY DEF ExecInv, TypeOK, Tables!TypeOK
<1>6. InCall => /\ call.request \in Requests /\ call.request # r
                /\ grants'[call.request] = grants[call.request]
                /\ CustomerOf[call.request] \in Customers
                /\ grants[call.request].window \in Windows
                /\ grants[call.request].ceiling \in Int /\ call.spend \in Int
  <2> SUFFICES ASSUME InCall
               PROVE  /\ call.request \in Requests /\ call.request # r
                      /\ grants'[call.request] = grants[call.request]
                      /\ CustomerOf[call.request] \in Customers
                      /\ grants[call.request].window \in Windows
                      /\ grants[call.request].ceiling \in Int /\ call.spend \in Int
    OBVIOUS
  <2>1. call.request \in Requests /\ call.op \in Ops /\ call.spend \in Int
    BY CallType DEF ExecInv
  <2>2. grants[call.request].state # "none"
    BY <2>1, CallFacts DEF ExecInv, CallInv
  <2> QED
    BY <1>1, <1>5, <2>1, <2>2, LedgerAssumption
    DEF ExecInv, Tables!GrantsInBand, Tables!InItsBand, Tables!Grant
<1>7. LedgerMerchant' = [LedgerMerchant EXCEPT ![w].reserved = @ + ceiling]
  <2> DEFINE x == grants[call.request].window
             Settle(pool) == [reserved |-> pool.reserved - grants[call.request].ceiling,
                              spent |-> pool.spent + call.spend]
             Reserve(pool) == [pool EXCEPT !.reserved = @ + ceiling]
  <2>1. MerchantDue' <=> MerchantDue
    BY <1>1 DEF MerchantDue, Releases, InCall
  <2>2. CASE ~MerchantDue
    BY <1>1, <2>1, <2>2 DEF LedgerMerchant
  <2>3. CASE MerchantDue
    <3>1. InCall
      BY <2>3 DEF MerchantDue, Releases
    <3>2. /\ LedgerMerchant = [merchant EXCEPT ![x] = Settle(@)]
          /\ LedgerMerchant' = [merchant' EXCEPT ![x] = Settle(@)]
      BY <1>1, <1>6, <2>1, <2>3, <3>1 DEF LedgerMerchant, SettleMerchant, Settled
    <3>3. merchant' = [merchant EXCEPT ![w] = Reserve(@)]
      BY <1>1
    <3>4. \A pool \in Tables!Pool : Settle(Reserve(pool)) = Reserve(Settle(pool))
      BY <1>4, <1>6, <3>1, <1>3 DEF Tables!Pool
    <3>5. \A pool \in Tables!Pool : Reserve(pool) \in Tables!Pool /\ Settle(pool) \in Tables!Pool
      BY <1>4, <1>6, <3>1, <1>3 DEF Tables!Pool
    <3> HIDE DEF Settle, Reserve, x
    <3>6. x \in Windows
      BY <1>6, <3>1 DEF x
    <3>7. [LedgerMerchant EXCEPT ![w] = Reserve(@)] = LedgerMerchant'
      <4> DEFINE M == [LedgerMerchant EXCEPT ![w] = Reserve(@)]
                 N == LedgerMerchant'
      <4>1. M \in [Windows -> Tables!Pool] /\ N \in [Windows -> Tables!Pool]
        BY <1>5, <3>2, <3>3, <3>5, <3>6
      <4>2. ASSUME NEW y \in Windows PROVE M[y] = N[y]
        BY <1>5, <3>2, <3>3, <3>4, <3>5, <3>6
      <4> HIDE DEF M, N
      <4>3. M = N
        BY <4>1, <4>2
      <4> QED
        BY <4>3 DEF M, N
    <3> QED
      BY <3>7 DEF Reserve
  <2> QED
    BY <2>2, <2>3
<1>8. LedgerCustomer' = [LedgerCustomer EXCEPT ![c][w].reserved = @ + ceiling]
  <2> DEFINE x == grants[call.request].window
             d == CustomerOf[call.request]
             Settle(pool) == [reserved |-> pool.reserved - grants[call.request].ceiling,
                              spent |-> pool.spent + call.spend]
             Reserve(pool) == [pool EXCEPT !.reserved = @ + ceiling]
  <2>1. CustomerDue' <=> CustomerDue
    BY <1>1 DEF CustomerDue, Releases, InCall
  <2>2. CASE ~CustomerDue
    BY <1>1, <2>1, <2>2 DEF LedgerCustomer
  <2>3. CASE CustomerDue
    <3>1. InCall
      BY <2>3 DEF CustomerDue, Releases
    <3>2. /\ LedgerCustomer = [customer EXCEPT ![d][x] = Settle(@)]
          /\ LedgerCustomer' = [customer' EXCEPT ![d][x] = Settle(@)]
      BY <1>1, <1>6, <2>1, <2>3, <3>1 DEF LedgerCustomer, SettleCustomer, Settled
    <3>3. customer' = [customer EXCEPT ![c][w] = Reserve(@)]
      BY <1>1
    <3>4. \A pool \in Tables!Pool : Settle(Reserve(pool)) = Reserve(Settle(pool))
      BY <1>4, <1>6, <3>1, <1>3 DEF Tables!Pool
    <3>5. \A pool \in Tables!Pool : Reserve(pool) \in Tables!Pool /\ Settle(pool) \in Tables!Pool
      BY <1>4, <1>6, <3>1, <1>3 DEF Tables!Pool
    <3> HIDE DEF Settle, Reserve, x, d
    <3>6. x \in Windows /\ d \in Customers
      BY <1>6, <3>1 DEF x, d
    <3>7. [LedgerCustomer EXCEPT ![c][w] = Reserve(@)] = LedgerCustomer'
      <4> DEFINE M == [LedgerCustomer EXCEPT ![c][w] = Reserve(@)]
                 N == LedgerCustomer'
      <4>1. /\ LedgerCustomer \in [Customers -> [Windows -> Tables!Pool]]
            /\ LedgerCustomer[d][x] = Settle(customer[d][x])
            /\ \A e \in Customers, y \in Windows :
                 (e # d \/ y # x) => LedgerCustomer[e][y] = customer[e][y]
        BY <1>5, <3>2, <3>5, <3>6
      <4>2. /\ customer' \in [Customers -> [Windows -> Tables!Pool]]
            /\ customer'[c][w] = Reserve(customer[c][w])
            /\ \A e \in Customers, y \in Windows :
                 (e # c \/ y # w) => customer'[e][y] = customer[e][y]
        BY <1>3, <1>5, <3>3, <3>5
      <4>3. /\ N \in [Customers -> [Windows -> Tables!Pool]]
            /\ N[d][x] = Settle(customer'[d][x])
            /\ \A e \in Customers, y \in Windows :
                 (e # d \/ y # x) => N[e][y] = customer'[e][y]
        BY <4>2, <3>2, <3>5, <3>6
      <4>4. /\ M \in [Customers -> [Windows -> Tables!Pool]]
            /\ M[c][w] = Reserve(LedgerCustomer[c][w])
            /\ \A e \in Customers, y \in Windows :
                 (e # c \/ y # w) => M[e][y] = LedgerCustomer[e][y]
        BY <1>3, <4>1, <3>5
      <4> HIDE DEF M, N
      <4>5. ASSUME NEW e \in Customers, NEW y \in Windows PROVE M[e][y] = N[e][y]
        <5>1. CASE e = c /\ y = w /\ e = d /\ y = x
          <6>1. customer[d][x] \in Tables!Pool
            BY <1>5, <3>6
          <6>2. M[d][x] = Reserve(Settle(customer[d][x]))
            BY <4>1, <4>4, <5>1
          <6>3. N[d][x] = Settle(Reserve(customer[d][x]))
            BY <4>2, <4>3, <5>1
          <6> QED
            BY <3>4, <5>1, <6>1, <6>2, <6>3
        <5>2. CASE e = c /\ y = w /\ ~(e = d /\ y = x)
          <6>1. M[e][y] = Reserve(customer[e][y])
            BY <4>1, <4>4, <5>2
          <6> QED
            BY <4>2, <4>3, <5>2, <6>1
        <5>3. CASE ~(e = c /\ y = w)
          <6>1. M[e][y] = LedgerCustomer[e][y]
            BY <4>4, <5>3
          <6> QED
            BY <4>1, <4>2, <4>3, <5>3, <6>1
        <5> QED
          BY <5>1, <5>2, <5>3
      <4>6. ASSUME NEW e \in Customers PROVE M[e] = N[e]
        BY <4>3, <4>4, <4>5
      <4>7. M = N
        BY <4>3, <4>4, <4>6
      <4> QED
        BY <4>7 DEF M, N
    <3> QED
      BY <3>7 DEF Reserve
  <2> QED
    BY <2>2, <2>3
<1> QED
  BY <1>1, <1>4, <1>7, <1>8 DEF mLeft, cLeft, Issued

\* A grant that was issued between two statements of a call is one the abstract
\* ledger could have issued for the same ceiling, its pools being less full.
LEMMA IssueRefines ==
  ASSUME ExecInv, ExecInv', NEW r \in Requests, NEW w \in Windows,
         NEW s \in Tables!SendTimes(w), NEW ask \in 0..RequestedCeiling[r],
         Issue(r, w, s, ask)
  PROVE  Ledger!Next
<1> DEFINE c == CustomerOf[r]
           mLeft == Tables!Remaining(MerchantBudget, merchant[w])
           cLeft == Tables!Remaining(CustomerBudget[c], customer[c][w])
           mMore == Tables!Remaining(MerchantBudget, LedgerMerchant[w])
           cMore == Tables!Remaining(CustomerBudget[c], LedgerCustomer[c][w])
<1>1. /\ grants[r].state = "none"
      /\ Tables!BelowCaps(c, w) /\ ~Tables!HasActiveClaim(c, w)
  BY DEF Issue, Tables!Issue
<1>2. PICK ceiling \in 0..RequestedCeiling[r] : Issued(r, w, s, ceiling)
  BY IssueOnPools
<1>3. /\ mLeft \in Int /\ cLeft \in Int /\ mMore \in Int /\ cMore \in Int
      /\ mMore >= mLeft /\ cMore >= cLeft
  BY MerchantLooksFuller, CustomerLooksFuller, LedgerAssumption
<1>4. ceiling \in Int
  BY LedgerAssumption
<1> HIDE DEF mLeft, cLeft, mMore, cMore
<1>5. Tables!DowngradeToFit(ceiling, mMore, cMore) = ceiling /\ mMore > 0 /\ cMore > 0
  BY <1>2, <1>3, <1>4 DEF Issued, mLeft, cLeft, Tables!DowngradeToFit, Tables!Lesser
<1>6. Ledger!Issue(r, w, s, ceiling)
  BY <1>1, <1>2, <1>5, LedgerIssue DEF Issued, mMore, cMore
<1>7. s \in Ledger!SendTimes(w)
  BY DEF Ledger!SendTimes, Ledger!WindowStart, Tables!SendTimes, Tables!WindowStart
<1> QED
  BY <1>6, <1>7 DEF Ledger!Next

\* What a call does to the abstract pools when it has moved its grant.
Settles(pool) == [reserved |-> pool.reserved - grants[call.request].ceiling,
                  spent |-> pool.spent + call.spend]
Settling ==
  LET w == grants[call.request].window
  IN  /\ LedgerMerchant = merchant /\ LedgerCustomer = customer
      /\ LedgerMerchant' = [merchant EXCEPT ![w] = Settles(@)]
      /\ LedgerCustomer' = [customer EXCEPT ![CustomerOf[call.request]][w] = Settles(@)]

\* The first statement of a call that releases settles both abstract pools at once;
\* no other statement changes them.
LEMMA StatementOnPools ==
  ASSUME ExecInv, Statement
  PROVE  /\ call.done = 0 => IF call.op = "execute"
                             THEN UNCHANGED <<LedgerMerchant, LedgerCustomer>>
                             ELSE Settling
         /\ call.done # 0 => UNCHANGED <<grants, LedgerMerchant, LedgerCustomer>>
<1> DEFINE r == call.request
           moved == [grants EXCEPT ![r].state = Target[call.op]]
<1>1. /\ InCall /\ r \in Requests /\ call.op \in Ops /\ call.spend \in Nat
      /\ call \in [op : Ops, request : Requests, done : 0..4, spend : Nat]
  BY StatementCases, CallType DEF ExecInv, TypeOK, Calls, NoCall, InCall
<1>2. grants \in [Requests -> Tables!Grant]
  BY <1>1 DEF ExecInv, TypeOK, Tables!TypeOK, CallInv
<1>3. ASSUME call.done = 0
      PROVE  IF call.op = "execute" THEN UNCHANGED <<LedgerMerchant, LedgerCustomer>>
             ELSE Settling
  <2>1. /\ grants' = moved /\ call' = [call EXCEPT !.done = 1]
        /\ UNCHANGED <<merchant, customer>>
    BY <1>3, StatementCases
  <2>2. /\ call'.op = call.op /\ call'.request = r /\ call'.done = 1
        /\ call'.spend = call.spend
    BY <1>1, <2>1
  <2>3. /\ moved[r].window = grants[r].window /\ moved[r].ceiling = grants[r].ceiling
    BY <1>1, <1>2 DEF Tables!Grant
  <2> HIDE DEF moved
  <2>4. ~MerchantDue /\ ~CustomerDue
    BY <1>3 DEF MerchantDue, CustomerDue
  <2>5. CASE call.op = "execute"
    <3>1. ~MerchantDue' /\ ~CustomerDue'
      BY <2>2, <2>5 DEF MerchantDue, CustomerDue, Releases
    <3> QED
      BY <2>1, <2>4, <2>5, <3>1 DEF LedgerMerchant, LedgerCustomer
  <2>6. CASE call.op # "execute"
    <3>1. MerchantDue' /\ CustomerDue'
      BY <1>1, <2>2, <2>6 DEF MerchantDue, CustomerDue, Releases, InCall
    <3> DEFINE w == grants[r].window
    <3>2. LedgerMerchant = merchant /\ LedgerCustomer = customer
      BY <2>4 DEF LedgerMerchant, LedgerCustomer
    <3>3. LedgerMerchant' = [merchant EXCEPT ![w] = Settles(@)]
      BY <2>1, <2>2, <2>3, <3>1 DEF LedgerMerchant, SettleMerchant, Settled, Settles
    <3>4. LedgerCustomer' = [customer EXCEPT ![CustomerOf[r]][w] = Settles(@)]
      BY <2>1, <2>2, <2>3, <3>1 DEF LedgerCustomer, SettleCustomer, Settled, Settles
    <3> QED
      BY <2>6, <3>2, <3>3, <3>4 DEF Settling
  <2> QED
    BY <2>5, <2>6
<1>4. ASSUME call.done # 0
      PROVE  UNCHANGED <<grants, LedgerMerchant, LedgerCustomer>>
  <2>1. grants' = grants
    BY <1>4, StatementCases
  <2>2. LedgerMerchant' = LedgerMerchant /\ LedgerCustomer' = LedgerCustomer
    <3>1. CASE call.done = 1
      <4>1. UNCHANGED <<grants, merchant, customer>>
            /\ call' = IF call.op = "execute" THEN NoCall ELSE [call EXCEPT !.done = 2]
        BY <3>1, StatementCases
      <4>2. CASE call.op = "execute"
        BY <4>1, <4>2 DEF LedgerMerchant, LedgerCustomer, MerchantDue, CustomerDue, Releases,
                          InCall, NoCall
      <4>3. CASE call.op # "execute"
        <5>1. /\ call'.op = call.op /\ call'.request = r /\ call'.done = 2
              /\ call'.spend = call.spend
          BY <1>1, <4>1, <4>3
        <5>2. MerchantDue /\ CustomerDue /\ MerchantDue' /\ CustomerDue'
          BY <1>1, <3>1, <4>3, <5>1 DEF MerchantDue, CustomerDue, Releases, InCall
        <5>. grants' = grants /\ merchant' = merchant /\ customer' = customer
          BY <4>1
        <5>3. LedgerMerchant' = LedgerMerchant
          BY <5>1, <5>2 DEF LedgerMerchant, SettleMerchant, Settled
        <5>4. LedgerCustomer' = LedgerCustomer
          BY <5>1, <5>2 DEF LedgerCustomer, SettleCustomer, Settled
        <5> QED
          BY <5>3, <5>4
      <4> QED
        BY <4>2, <4>3
    <3>2. CASE call.done = 2
      <4>1. /\ UNCHANGED <<grants, customer>> /\ call.op # "execute"
            /\ merchant' = SettleMerchant(merchant)
            /\ call' = [call EXCEPT !.done = 3]
        BY <3>2, StatementCases
      <4>2. /\ call'.op = call.op /\ call'.request = r /\ call'.done = 3
            /\ call'.spend = call.spend
        BY <1>1, <4>1
      <4>3. /\ MerchantDue /\ CustomerDue /\ ~MerchantDue' /\ CustomerDue'
        BY <1>1, <3>2, <4>1, <4>2 DEF MerchantDue, CustomerDue, Releases, InCall
      <4>4. LedgerMerchant' = LedgerMerchant
        BY <4>1, <4>3 DEF LedgerMerchant
      <4>5. LedgerCustomer' = LedgerCustomer
        BY <4>1, <4>2, <4>3 DEF LedgerCustomer, SettleCustomer, Settled
      <4> QED
        BY <4>4, <4>5
    <3>3. CASE call.done = 3
      <4>1. /\ UNCHANGED <<grants, merchant>> /\ call.op # "execute"
            /\ customer' = SettleCustomer(customer) /\ call' = NoCall
        BY <3>3, StatementCases
      <4>2. ~MerchantDue /\ CustomerDue /\ ~MerchantDue' /\ ~CustomerDue'
        BY <1>1, <3>3, <4>1 DEF MerchantDue, CustomerDue, Releases, InCall, NoCall
      <4> QED
        BY <4>1, <4>2 DEF LedgerMerchant, LedgerCustomer
    <3> QED
      BY <1>4, <3>1, <3>2, <3>3, StatementCases
  <2> QED
    BY <2>1, <2>2
<1> QED
  BY <1>3, <1>4

\* The first statement of a call is the whole call of the ledger, and the others
\* change nothing that can be seen there.
LEMMA StatementRefines ==
  ASSUME ExecInv, ExecInv', Statement
  PROVE  Ledger!Next \/ UNCHANGED Ledger!vars
<1> DEFINE r == call.request
<1>1. InCall /\ r \in Requests /\ call.op \in Ops
  BY StatementCases
<1>2. /\ call.spend = IF call.op = "confirm" THEN grants[r].ceiling ELSE 0
      /\ call.op = "expire" => \E now \in Instants : grants[r].expiresAt < now
      /\ grants[r].ceiling \in Nat
  BY <1>1 DEF ExecInv, TypeOK, Tables!TypeOK, Tables!Grant, CallInv
<1>3. CASE call.done = 0
  <2>1. /\ grants' = [grants EXCEPT ![r].state = Target[call.op]]
        /\ grants[r].state \in From[call.op]
    BY <1>3, StatementCases
  <2>2. CASE call.op = "execute"
    <3>1. TermsAgree /\ TermsAgree'
      BY LedgerTerms, PTL
    <3>2. Ledger!Execute(r)
      BY <1>3, <2>1, <2>2, <3>1, StatementOnPools, CallFacts
      DEF TermsAgree, Ledger!Execute, Ledger!Move
    <3> QED
      BY <1>1, <3>2 DEF Ledger!Next
  <2>3. CASE call.op # "execute"
    <3>1. Settling
      BY <1>3, <2>3, StatementOnPools
    <3>2. Ledger!Settle(r, call.spend)
      BY <3>1, LedgerSettle DEF Settling, Settles
    <3>3. CASE call.op = "confirm"
      <4>1. Ledger!Confirm(r, call.spend)
        BY <2>1, <3>2, <3>3, CallFacts DEF Ledger!Confirm, Ledger!Move
      <4> QED
        BY <1>1, <1>2, <3>3, <4>1 DEF Ledger!Next
    <3>4. CASE call.op = "rollback"
      <4>1. Ledger!Rollback(r)
        BY <1>2, <2>1, <3>2, <3>4, CallFacts
        DEF Ledger!Rollback, Ledger!Move, Ledger!Reserving
      <4> QED
        BY <1>1, <4>1 DEF Ledger!Next
    <3>5. CASE call.op = "expire"
      <4>1. PICK now \in Instants : grants[r].expiresAt < now
        BY <1>2, <3>5
      <4>2. Ledger!Expire(r, now)
        BY <1>2, <2>1, <3>2, <3>5, <4>1, CallFacts DEF Ledger!Expire, Ledger!Move
      <4> QED
        BY <1>1, <4>2 DEF Ledger!Next
    <3> QED
      BY <1>1, <2>3, <3>3, <3>4, <3>5, CallFacts
  <2> QED
    BY <2>2, <2>3
<1>4. CASE call.done # 0
  BY <1>4, StatementOnPools, LedgerStutters
<1> QED
  BY <1>3, <1>4

\* A step of anything else leaves the tables as they are, and a call that begins
\* has not moved its grant.
LEMMA QuietRefines ==
  ASSUME ExecInv, ExecInv', UNCHANGED tables,
         (UNCHANGED call) \/ (call = NoCall /\ call'.done = 0)
  PROVE  UNCHANGED Ledger!vars
<1>1. CASE UNCHANGED call
  BY <1>1, LedgerStutters
  DEF tables, LedgerMerchant, LedgerCustomer, MerchantDue, CustomerDue, Releases, InCall,
      SettleMerchant, SettleCustomer, Settled
<1>2. CASE call = NoCall /\ call'.done = 0
  <2>1. ~MerchantDue /\ ~CustomerDue /\ ~MerchantDue' /\ ~CustomerDue'
    BY <1>2 DEF MerchantDue, CustomerDue, Releases, InCall, NoCall
  <2> QED
    BY <2>1, LedgerStutters DEF tables, LedgerMerchant, LedgerCustomer
<1> QED
  BY <1>1, <1>2

LEMMA LedgerSteps ==
  ExecInv /\ ExecInv' /\ [Next]_vars => [Ledger!Next \/ cut']_(Ledger!vars)
<1> SUFFICES ASSUME ExecInv, ExecInv', [Next]_vars
             PROVE  Ledger!Next \/ cut' \/ UNCHANGED Ledger!vars
  OBVIOUS
<1>1. ASSUME NEW r \in Requests, NEW w \in Windows, NEW s \in Tables!SendTimes(w),
             NEW ask \in 0..RequestedCeiling[r], Issue(r, w, s, ask)
      PROVE  Ledger!Next
  BY <1>1, IssueRefines
<1>2. CASE Statement
  BY <1>2, StatementRefines
<1>3. ASSUME NEW op, NEW r, NEW spend, Begin(op, r, spend), UNCHANGED tables
      PROVE  UNCHANGED Ledger!vars
  BY <1>3, QuietRefines DEF Begin
<1>4. ASSUME UNCHANGED <<tables, call>>
      PROVE  UNCHANGED Ledger!vars
  BY <1>4, QuietRefines
<1>5. CASE Run
  BY <1>2, <1>3, <1>4, <1>5
  DEF Run, StartExecution, ArmScripted, ArmPending, ClearPending, SendTimesOut, SendSucceeds,
      GiveUp, Disarm
<1>6. ASSUME NEW r \in Requests, NEW now \in Instants, StartExpire(r, now)
      PROVE  UNCHANGED Ledger!vars
  BY <1>3, <1>6 DEF StartExpire
<1>7. ASSUME NEW mode \in Modes, Press(mode) \/ ArmNext(mode)
      PROVE  UNCHANGED Ledger!vars
  BY <1>4, <1>7 DEF Press, ArmNext, runner
<1>8. CASE UNCHANGED vars
  BY <1>4, <1>8 DEF vars, runner
<1> QED
  BY <1>1, <1>5, <1>6, <1>7, <1>8 DEF Next, Work

\* The four separately committed UPDATEs of a lifecycle call are, to everybody else,
\* the one atomic call of the in-memory ledger, whatever is issued in between, as
\* long as no call is cut short.
THEOREM ExecutionRefinesLedger == Spec => ImplementsLedger
BY LedgerStarts, LedgerSteps, ExecInvHolds, PTL DEF Spec, ImplementsLedger

-----------------------------------------------------------------------------
(* What a lost connection cannot do. *)

OwedOf(w) == [r \in Requests |-> Owed(r, w)]

\* A live grant has its claim; a claim is given up only after its grant, and no
\* slot has two.
ClaimsInv ==
  /\ \A r \in Requests : grants[r].state \in Tables!CapacityConsuming => HoldsSlot(r)
  /\ \A q, r \in Requests :
       HoldsSlot(q) /\ HoldsSlot(r) /\ CustomerOf[q] = CustomerOf[r]
         /\ grants[q].window = grants[r].window => q = r
  /\ InCall /\ call.done <= 1 => HoldsSlot(call.request)

\* The real merchant's pool is within the budget, and the abstract pools, of which
\* a call has already taken what it will take, still hold what is owed.
HeldInv ==
  /\ \A w \in Windows :
       /\ Held(merchant[w]) <= MerchantBudget
       /\ Held(LedgerMerchant[w]) >= LP!Total(OwedOf(w), Requests)
  /\ \A w \in Windows, c \in Customers :
       /\ Held(LedgerCustomer[c][w]) >= 0
       /\ \A r \in Requests :
            CustomerOf[r] = c => Held(LedgerCustomer[c][w]) >= Owed(r, w)

\* The fold of the property is that sum.
LEMMA OwedFold ==
  ASSUME ExecInv, NEW w \in Windows
  PROVE  /\ OwedOf(w) \in [Requests -> Int]
         /\ MapThenSumSet(LAMBDA r : Owed(r, w), Requests) = LP!Total(OwedOf(w), Requests)
<1> DEFINE F == OwedOf(w)
           h == CHOOSE iter : iter = [s \in SUBSET Requests |->
                  IF s = {} THEN 0
                  ELSE Owed(CHOOSE x \in s : TRUE, w) + iter[s \ {CHOOSE x \in s : TRUE}]]
<1>1. MapThenSumSet(LAMBDA r : Owed(r, w), Requests) = h[Requests]
  BY DEF MapThenSumSet, MapThenFoldSet
<1>2. F \in [Requests -> Int]
  BY DEF ExecInv, TypeOK, Tables!TypeOK, Tables!Grant, OwedOf, Owed
<1>3. PICK g : LP!SumOver(g, F, Requests)
  BY <1>2, LP!SumExists, LedgerAssumption, SameFinite
<1>4. \A s \in SUBSET Requests : s # {} => F[LP!Pick(s)] = Owed(LP!Pick(s), w)
  BY DEF OwedOf, LP!Pick
<1>5. g = [s \in SUBSET Requests |->
             IF s = {} THEN 0 ELSE Owed(LP!Pick(s), w) + g[s \ {LP!Pick(s)}]]
  BY <1>3, <1>4 DEF LP!SumOver
<1>6. h = [s \in SUBSET Requests |->
             IF s = {} THEN 0 ELSE Owed(LP!Pick(s), w) + h[s \ {LP!Pick(s)}]]
  BY <1>5, Zenon DEF LP!Pick
<1> HIDE DEF h, F
<1>7. LP!SumOver(h, F, Requests)
  BY <1>4, <1>6 DEF LP!SumOver
<1>8. LP!Total(F, Requests) = h[Requests]
  BY <1>2, <1>7, LP!TotalSum, LedgerAssumption, SameFinite
<1> QED
  BY <1>1, <1>2, <1>8 DEF F

LEMMA IssueHolds ==
  ASSUME ExecInv, ExecInv', ClaimsInv, HeldInv, NEW r \in Requests, NEW w \in Windows,
         NEW s \in Tables!SendTimes(w), NEW ask \in 0..RequestedCeiling[r],
         Issue(r, w, s, ask)
  PROVE  ClaimsInv' /\ HeldInv'
<1> DEFINE c == CustomerOf[r]
           new(ceiling) == [state |-> "RESERVED", window |-> w, sendAfter |-> s,
                            expiresAt |-> s + GrantTTL, ceiling |-> ceiling]
<1>1. PICK ceiling \in 0..RequestedCeiling[r] : Issued(r, w, s, ceiling)
  BY IssueOnPools
<1>2. /\ grants[r].state = "none"
      /\ claims' = [claims EXCEPT ![r] = "RESERVED"]
      /\ ~\E q \in Requests : CustomerOf[q] = c /\ grants[q].window = w /\ HoldsSlot(q)
      /\ UNCHANGED call
  BY DEF Issue, Tables!Issue, runner
<1>3. /\ c \in Customers /\ ceiling \in Nat /\ MerchantBudget \in Nat
      /\ grants \in [Requests -> Tables!Grant]
      /\ claims \in [Requests -> Tables!GrantStates \cup {"none"}]
      /\ merchant \in [Windows -> Tables!Pool]
      /\ customer \in [Customers -> [Windows -> Tables!Pool]]
      /\ LedgerMerchant \in [Windows -> Tables!Pool]
      /\ LedgerCustomer \in [Customers -> [Windows -> Tables!Pool]]
  BY LedgerAssumption, MerchantLooksFuller, CustomerLooksFuller DEF ExecInv, TypeOK, Tables!TypeOK
<1>4. /\ grants'[r].state = "RESERVED" /\ grants'[r].window = w
      /\ grants'[r].ceiling = ceiling
      /\ \A q \in Requests \ {r} : grants'[q] = grants[q]
  BY <1>1, <1>3 DEF Issued
<1>5. ClaimsInv'
  <2>1. /\ claims'[r] = "RESERVED" /\ HoldsSlot(r)'
        /\ \A q \in Requests \ {r} : HoldsSlot(q)' <=> HoldsSlot(q)
    BY <1>2, <1>3 DEF HoldsSlot, Tables!CapacityConsuming
  <2>2. InCall' => InCall /\ call.request \in Requests /\ call'.request = call.request
    BY <1>2, CallType DEF InCall, ExecInv
  <2> QED
    BY <1>2, <1>4, <2>1, <2>2 DEF ClaimsInv, InCall
<1>6. \A x \in Windows :
        /\ Held(merchant'[x]) = Held(merchant[x]) + IF x = w THEN ceiling ELSE 0
        /\ Held(LedgerMerchant'[x]) = Held(LedgerMerchant[x]) + IF x = w THEN ceiling ELSE 0
  BY <1>1, <1>3 DEF Issued, Held, Tables!Pool
<1>7. \A d \in Customers, x \in Windows :
        Held(LedgerCustomer'[d][x])
          = Held(LedgerCustomer[d][x]) + IF d = c /\ x = w THEN ceiling ELSE 0
  <2>1. LedgerCustomer' = [LedgerCustomer EXCEPT ![c][w].reserved = @ + ceiling]
    BY <1>1 DEF Issued
  <2> DEFINE pool == [LedgerCustomer[c][w] EXCEPT !.reserved = @ + ceiling]
             row == [LedgerCustomer[c] EXCEPT ![w] = pool]
  <2>2. LedgerCustomer' = [LedgerCustomer EXCEPT ![c] = row]
    BY <1>3, <2>1
  <2>3. LedgerCustomer[c][w] \in Tables!Pool
    BY <1>3
  <2>4. pool.reserved = LedgerCustomer[c][w].reserved + ceiling
        /\ pool.spent = LedgerCustomer[c][w].spent
    BY <2>3 DEF Tables!Pool
  <2>5. Held(pool) = Held(LedgerCustomer[c][w]) + ceiling
    BY <1>3, <2>3, <2>4 DEF Held, Tables!Pool
  <2> HIDE DEF pool
  <2>6. row[w] = pool /\ \A x \in Windows \ {w} : row[x] = LedgerCustomer[c][x]
    BY <1>3
  <2> HIDE DEF row
  <2>7. \A d \in Customers : LedgerCustomer'[d] = IF d = c THEN row ELSE LedgerCustomer[d]
    BY <1>3, <2>2
  <2>8. \A d \in Customers, x \in Windows : Held(LedgerCustomer[d][x]) \in Int
    BY MerchantLooksFuller, CustomerLooksFuller
  <2> QED
    BY <2>5, <2>6, <2>7, <2>8
<1>8. \A x \in Windows :
        /\ \A q \in Requests \ {r} : Owed(q, x)' = Owed(q, x)
        /\ Owed(r, x) = 0 /\ Owed(r, x)' = IF x = w THEN ceiling ELSE 0
  BY <1>2, <1>4 DEF Owed, Tables!CapacityConsuming
<1>9. ASSUME NEW x \in Windows
      PROVE  /\ Held(merchant'[x]) <= MerchantBudget
             /\ Held(LedgerMerchant'[x]) >= LP!Total(OwedOf(x)', Requests)
  <2> DEFINE F == OwedOf(x)
             H == OwedOf(x)'
  <2>1. F \in [Requests -> Int] /\ H \in [Requests -> Int]
    BY <1>3, <1>4 DEF ExecInv, TypeOK, Tables!TypeOK, Tables!Grant, OwedOf, Owed
  <2>2. /\ \A q \in Requests \ {r} : H[q] = F[q]
        /\ F[r] = 0 /\ H[r] = IF x = w THEN ceiling ELSE 0
    BY <1>8 DEF OwedOf
  <2> HIDE DEF F, H
  <2>3. LP!Total(F, Requests) \in Int
        /\ LP!Total(H, Requests) = LP!Total(F, Requests) - F[r] + H[r]
    BY <2>1, <2>2, LP!TotalChanges, LedgerAssumption, SameFinite
  <2>4. /\ Held(merchant[x]) \in Int /\ Held(LedgerMerchant[x]) \in Int
        /\ Held(merchant[x]) <= MerchantBudget
        /\ Held(LedgerMerchant[x]) >= LP!Total(F, Requests)
    BY <1>3, MerchantLooksFuller, CustomerLooksFuller DEF HeldInv, F
  <2>5. Held(LedgerMerchant'[x]) >= LP!Total(H, Requests)
    BY <1>3, <1>6, <2>2, <2>3, <2>4
  <2>6. Held(merchant'[x]) <= MerchantBudget
    <3>1. x = w => ceiling <= MerchantBudget - Held(merchant[x])
      BY <1>1, <1>3 DEF Issued, Tables!Remaining, Held, Tables!Pool
    <3> QED
      BY <1>3, <1>6, <2>4, <3>1
  <2> QED
    BY <2>5, <2>6 DEF H
<1>10. ASSUME NEW x \in Windows, NEW d \in Customers
       PROVE  /\ Held(LedgerCustomer'[d][x]) >= 0
              /\ \A q \in Requests :
                   CustomerOf[q] = d => Held(LedgerCustomer'[d][x]) >= Owed(q, x)'
  <2>1. Held(LedgerCustomer[d][x]) \in Int /\ Held(LedgerCustomer[d][x]) >= 0
    BY MerchantLooksFuller, CustomerLooksFuller DEF HeldInv
  <2> DEFINE extra == IF d = c /\ x = w THEN ceiling ELSE 0
  <2>2. /\ extra \in Nat
        /\ Held(LedgerCustomer'[d][x]) = Held(LedgerCustomer[d][x]) + extra
    BY <1>3, <1>7
  <2>3. ASSUME NEW q \in Requests, CustomerOf[q] = d
        PROVE  Held(LedgerCustomer'[d][x]) >= Owed(q, x)'
    <3>1. Owed(q, x) \in Int /\ Held(LedgerCustomer[d][x]) >= Owed(q, x)
      BY <1>3, <2>3 DEF Owed, Tables!Grant, HeldInv
    <3>2. CASE q = r
      <4>1. Owed(q, x)' = extra
        BY <1>8, <2>3, <3>2
      <4> HIDE DEF extra
      <4> QED
        BY <2>1, <2>2, <4>1
    <3>3. CASE q # r
      <4>1. Owed(q, x)' = Owed(q, x)
        BY <1>8, <3>3
      <4> HIDE DEF extra
      <4> QED
        BY <2>1, <2>2, <3>1, <4>1
    <3> QED
      BY <3>2, <3>3
  <2> HIDE DEF extra
  <2>4. Held(LedgerCustomer'[d][x]) >= 0
    BY <2>1, <2>2
  <2> QED
    BY <2>3, <2>4
<1> QED
  BY <1>5, <1>9, <1>10 DEF HeldInv

\* A statement gives a slot up only when its grant is not live any more, and the
\* abstract pools lose only what is not owed any more.
LEMMA StatementHolds ==
  ASSUME ExecInv, ExecInv', ClaimsInv, HeldInv, Statement
  PROVE  ClaimsInv' /\ HeldInv'
<1> DEFINE r == call.request
           c == CustomerOf[r]
           w == grants[r].window
           ceiling == grants[r].ceiling
<1>1. /\ InCall /\ r \in Requests /\ call.op \in Ops /\ w \in Windows /\ c \in Customers
      /\ call \in [op : Ops, request : Requests, done : 0..4, spend : Nat]
  BY StatementCases, CallType, LedgerAssumption DEF ExecInv, TypeOK, Calls, NoCall, InCall
<1>2. /\ grants \in [Requests -> Tables!Grant] /\ ceiling \in Nat
      /\ claims \in [Requests -> Tables!GrantStates \cup {"none"}]
      /\ merchant \in [Windows -> Tables!Pool]
      /\ customer \in [Customers -> [Windows -> Tables!Pool]]
      /\ call.spend = IF call.op = "confirm" THEN ceiling ELSE 0
  BY <1>1 DEF ExecInv, TypeOK, Tables!TypeOK, Tables!Grant, CallInv
<1>3. From[call.op] \subseteq Tables!CapacityConsuming
  BY <1>1, CallFacts DEF Tables!CapacityConsuming
<1>4. \A x \in Windows : OwedOf(x) \in [Requests -> Int] /\ (OwedOf(x) \in [Requests -> Int])'
  BY DEF ExecInv, TypeOK, Tables!TypeOK, Tables!Grant, OwedOf, Owed
<1>5. CASE call.done = 0
  <2>1. /\ grants' = [grants EXCEPT ![r].state = Target[call.op]]
        /\ call' = [call EXCEPT !.done = 1]
        /\ grants[r].state \in From[call.op]
        /\ UNCHANGED <<claims, merchant, customer>>
    BY <1>5, StatementCases
  <2>2. /\ grants'[r].state = Target[call.op] /\ grants'[r].window = w
        /\ grants'[r].ceiling = ceiling
        /\ \A q \in Requests \ {r} : grants'[q] = grants[q]
        /\ call'.op = call.op /\ call'.request = r /\ call'.done = 1
    BY <1>1, <1>2, <2>1 DEF Tables!Grant
  <2>3. HoldsSlot(r) /\ \A q \in Requests : HoldsSlot(q)' <=> HoldsSlot(q)
    BY <1>1, <1>3, <2>1 DEF ClaimsInv, HoldsSlot
  <2>4. ClaimsInv'
    BY <1>1, <2>2, <2>3 DEF ClaimsInv, InCall
  <2> DEFINE kept == Target[call.op] \in Tables!CapacityConsuming
             less == IF kept THEN 0 ELSE ceiling
  <2>5. \A x \in Windows :
          /\ \A q \in Requests \ {r} : Owed(q, x)' = Owed(q, x)
          /\ Owed(r, x) = IF x = w THEN ceiling ELSE 0
          /\ \A q \in {r} : Owed(q, x)' = IF x = w THEN ceiling - less ELSE 0
    BY <1>1, <1>2, <1>3, <2>1, <2>2 DEF Owed
  <2>6. less \in 0..ceiling /\ (call.op = "execute" => less = 0)
        /\ (call.op # "execute" => less = ceiling - call.spend)
    BY <1>1, <1>2, CallFacts DEF Tables!CapacityConsuming
  <2> HIDE DEF less, kept
  <2>7. \A x \in Windows :
          Held(LedgerMerchant'[x]) = Held(LedgerMerchant[x]) - IF x = w THEN less ELSE 0
    <3>1. CASE call.op = "execute"
      <4>1. LedgerMerchant' = LedgerMerchant /\ less = 0
        BY <1>5, <2>6, <3>1, StatementOnPools
      <4> QED
        BY <1>1, <4>1, MerchantLooksFuller, CustomerLooksFuller
    <3>2. CASE call.op # "execute"
      <4>1. LedgerMerchant = merchant /\ LedgerMerchant' = [merchant EXCEPT ![w] = Settles(@)]
        BY <1>5, <3>2, StatementOnPools DEF Settling
      <4>2. Held(Settles(merchant[w])) = Held(merchant[w]) - less
        BY <1>1, <1>2, <2>6, <3>2 DEF Settles, Held, Tables!Pool
      <4> HIDE DEF w
      <4> QED
        BY <1>1, <1>2, <4>1, <4>2, MerchantLooksFuller, CustomerLooksFuller
    <3> QED
      BY <3>1, <3>2
  <2>8. \A d \in Customers, x \in Windows :
          Held(LedgerCustomer'[d][x])
            = Held(LedgerCustomer[d][x]) - IF d = c /\ x = w THEN less ELSE 0
    <3>1. CASE call.op = "execute"
      <4>1. LedgerCustomer' = LedgerCustomer /\ less = 0
        BY <1>5, <2>6, <3>1, StatementOnPools
      <4> QED
        BY <1>1, <4>1, MerchantLooksFuller, CustomerLooksFuller
    <3>2. CASE call.op # "execute"
      <4>1. /\ LedgerCustomer = customer
            /\ LedgerCustomer' = [customer EXCEPT ![c][w] = Settles(@)]
        BY <1>5, <3>2, StatementOnPools DEF Settling
      <4>2. Held(Settles(customer[c][w])) = Held(customer[c][w]) - less
        BY <1>1, <1>2, <2>6, <3>2 DEF Settles, Held, Tables!Pool
      <4>3. \A d \in Customers, x \in Windows :
              LedgerCustomer'[d][x] = IF d = c /\ x = w THEN Settles(customer[c][w])
                                      ELSE customer[d][x]
        BY <1>1, <1>2, <4>1
      <4> HIDE DEF w, c
      <4> QED
        BY <1>1, <4>1, <4>2, <4>3, MerchantLooksFuller, CustomerLooksFuller
    <3> QED
      BY <3>1, <3>2
  <2>9. ASSUME NEW x \in Windows
        PROVE  /\ Held(merchant'[x]) <= MerchantBudget
               /\ Held(LedgerMerchant'[x]) >= LP!Total(OwedOf(x)', Requests)
    <3> DEFINE F == OwedOf(x)
               H == OwedOf(x)'
    <3>1. F \in [Requests -> Int] /\ H \in [Requests -> Int]
      BY <1>4
    <3>2. /\ \A q \in Requests \ {r} : H[q] = F[q]
          /\ F[r] = IF x = w THEN ceiling ELSE 0
          /\ H[r] = IF x = w THEN ceiling - less ELSE 0
      <4>1. \A q \in Requests : F[q] = Owed(q, x) /\ H[q] = Owed(q, x)'
        BY DEF OwedOf
      <4>2. r \in Requests
        BY <1>1
      <4> HIDE DEF F, H, r, w, ceiling
      <4> QED
        BY <2>5, <4>1, <4>2
    <3> HIDE DEF F, H
    <3>3. LP!Total(F, Requests) \in Int
          /\ LP!Total(H, Requests) = LP!Total(F, Requests) - F[r] + H[r]
      BY <1>1, <3>1, <3>2, LP!TotalChanges, LedgerAssumption, SameFinite
    <3>4. /\ Held(LedgerMerchant[x]) \in Int
          /\ Held(LedgerMerchant[x]) >= LP!Total(F, Requests)
      BY <1>1, MerchantLooksFuller, CustomerLooksFuller DEF HeldInv, F
    <3>5. Held(LedgerMerchant'[x]) >= LP!Total(H, Requests)
      BY <1>2, <2>6, <2>7, <3>2, <3>3, <3>4
    <3> QED
      BY <2>1, <3>5 DEF H, HeldInv
  <2>10. ASSUME NEW x \in Windows, NEW d \in Customers
         PROVE  /\ Held(LedgerCustomer'[d][x]) >= 0
                /\ \A q \in Requests :
                     CustomerOf[q] = d => Held(LedgerCustomer'[d][x]) >= Owed(q, x)'
    <3>1. Held(LedgerCustomer[d][x]) \in Int /\ Held(LedgerCustomer[d][x]) >= 0
      BY MerchantLooksFuller, CustomerLooksFuller DEF HeldInv
    <3>2. d = c /\ x = w => Held(LedgerCustomer[d][x]) >= ceiling
      BY <1>1, <2>5 DEF HeldInv
    <3>3. ASSUME NEW q \in Requests, CustomerOf[q] = d
          PROVE  Held(LedgerCustomer'[d][x]) >= Owed(q, x)'
      <4>1. Held(LedgerCustomer[d][x]) >= Owed(q, x) /\ Owed(q, x) \in Int
        BY <1>2, <3>3 DEF HeldInv, Owed, Tables!Grant
      <4>2. CASE q = r
        <5>1. d = c
          BY <3>3, <4>2
        <5>2. Owed(q, x)' = IF x = w THEN ceiling - less ELSE 0
          BY <2>5, <4>2
        <5>3. Held(LedgerCustomer'[d][x])
                = Held(LedgerCustomer[d][x]) - IF x = w THEN less ELSE 0
          BY <2>8, <5>1
        <5>4. ceiling \in Int /\ less \in 0..ceiling
          BY <1>2, <2>6
        <5> DEFINE held == Held(LedgerCustomer[d][x])
                   heldThen == Held(LedgerCustomer'[d][x])
                   owedThen == Owed(q, x)'
        <5>5. held \in Int /\ held >= 0 /\ (x = w => held >= ceiling)
          BY <3>1, <3>2, <5>1
        <5> HIDE DEF held, heldThen, owedThen, w, ceiling
        <5>6. heldThen = held - IF x = w THEN less ELSE 0
          BY <5>3 DEF held, heldThen
        <5>7. owedThen = IF x = w THEN ceiling - less ELSE 0
          BY <5>2 DEF owedThen
        <5>8. heldThen >= owedThen
          BY <5>4, <5>5, <5>6, <5>7
        <5> QED
          BY <5>8 DEF heldThen, owedThen
      <4>3. CASE q # r
        <5>1. Owed(q, x)' = Owed(q, x)
          BY <2>5, <4>3
        <5>2. CASE d = c /\ x = w
          <6>1. Owed(q, x) = 0
            BY <1>1, <2>3, <3>3, <4>3, <5>2 DEF ClaimsInv, Owed
          <6> QED
            BY <1>2, <2>6, <2>8, <3>1, <3>2, <5>1, <5>2, <6>1
        <5>3. CASE ~(d = c /\ x = w)
          <6>1. Held(LedgerCustomer'[d][x]) = Held(LedgerCustomer[d][x])
            BY <2>8, <3>1, <5>3
          <6> QED
            BY <4>1, <5>1, <6>1
        <5> QED
          BY <5>2, <5>3
      <4> QED
        BY <4>2, <4>3
    <3>4. Held(LedgerCustomer'[d][x]) >= 0
      BY <1>2, <2>6, <2>8, <3>1, <3>2
    <3> QED
      BY <3>3, <3>4
  <2> QED
    BY <2>4, <2>9, <2>10 DEF HeldInv
<1>6. CASE call.done # 0
  <2>1. /\ UNCHANGED <<grants, LedgerMerchant, LedgerCustomer>>
        /\ grants[r].state = Target[call.op]
    BY <1>6, StatementOnPools, StatementCases
  <2>2. \A x \in Windows : /\ OwedOf(x)' = OwedOf(x)
                           /\ \A q \in Requests : Owed(q, x)' = Owed(q, x)
    BY <2>1 DEF Owed, OwedOf
  <2>3. \A x \in Windows : Held(merchant'[x]) <= MerchantBudget
    <3>1. CASE merchant' = merchant
      BY <3>1 DEF HeldInv
    <3>2. CASE merchant' = SettleMerchant(merchant)
      <4>1. Held(Settled(merchant[w])) <= Held(merchant[w])
        BY <1>1, <1>2 DEF Settled, Held, Tables!Pool
      <4>2. merchant' = [merchant EXCEPT ![w] = Settled(@)]
        BY <3>2 DEF SettleMerchant
      <4>3. \A x \in Windows : Held(merchant[x]) \in Int /\ Held(merchant[x]) <= MerchantBudget
        BY <1>1, MerchantLooksFuller, CustomerLooksFuller DEF HeldInv
      <4>4. Held(Settled(merchant[w])) \in Int /\ MerchantBudget \in Int
        <5>1. Settled(merchant[w]) \in Tables!Pool /\ MerchantBudget \in Nat
          BY <1>1, <1>2, SettledFacts, LedgerAssumption
        <5> QED
          BY <5>1, PoolLeft
      <4> HIDE DEF w
      <4> QED
        BY <1>1, <1>2, <4>1, <4>2, <4>3, <4>4
    <3> QED
      BY <1>6, <3>1, <3>2, StatementCases
  <2>4. HeldInv'
    <3>1. ASSUME NEW x \in Windows
          PROVE  Held(LedgerMerchant'[x]) >= LP!Total(OwedOf(x)', Requests)
      BY <2>1, <2>2 DEF HeldInv
    <3>2. ASSUME NEW x \in Windows, NEW d \in Customers
          PROVE  /\ Held(LedgerCustomer'[d][x]) >= 0
                 /\ \A q \in Requests :
                      CustomerOf[q] = d => Held(LedgerCustomer'[d][x]) >= Owed(q, x)'
      BY <2>1, <2>2 DEF HeldInv
    <3> QED
      BY <2>3, <3>1, <3>2 DEF HeldInv
  <2>5. CASE call.done = 1
    <3>1. claims' = [claims EXCEPT ![r] = Target[call.op]]
          /\ call' = IF call.op = "execute" THEN NoCall ELSE [call EXCEPT !.done = 2]
      BY <2>5, StatementCases
    <3>2. HoldsSlot(r) /\ \A q \in Requests : HoldsSlot(q)' => HoldsSlot(q)
      BY <1>1, <1>2, <2>5, <3>1 DEF ClaimsInv, HoldsSlot
    <3>3. \A q \in Requests : grants'[q].state \in Tables!CapacityConsuming => HoldsSlot(q)'
      BY <1>1, <1>2, <2>1, <3>1 DEF ClaimsInv, HoldsSlot
    <3>4. ~(InCall' /\ call'.done <= 1)
      BY <1>1, <3>1 DEF InCall, NoCall
    <3>5. ClaimsInv'
      BY <2>1, <3>2, <3>3, <3>4 DEF ClaimsInv
    <3> QED
      BY <2>4, <3>5
  <2>6. CASE call.done # 1
    <3>1. UNCHANGED <<claims, grants>> /\ ~(InCall' /\ call'.done <= 1)
      BY <1>1, <1>6, <2>6, StatementCases DEF InCall, NoCall
    <3>2. \A q \in Requests : HoldsSlot(q)' <=> HoldsSlot(q)
      BY <3>1 DEF HoldsSlot
    <3>3. ClaimsInv'
      BY <3>1, <3>2 DEF ClaimsInv
    <3> QED
      BY <2>4, <3>3
  <2> QED
    BY <2>5, <2>6
<1> QED
  BY <1>5, <1>6

\* Other steps write nothing; a call that is cut short leaves the pools fuller than
\* the call would have.
LEMMA QuietHolds ==
  ASSUME ExecInv, ExecInv', ClaimsInv, HeldInv, UNCHANGED tables,
         \/ UNCHANGED call
         \/ call' = NoCall
         \/ \E op \in Ops, r \in Requests, spend \in Nat : Begin(op, r, spend)
  PROVE  ClaimsInv' /\ HeldInv'
<1>1. /\ UNCHANGED <<grants, merchant, customer, claims>>
      /\ \A q \in Requests : HoldsSlot(q)' <=> HoldsSlot(q)
  BY DEF tables, HoldsSlot
<1>2. (InCall /\ call.done <= 1 => HoldsSlot(call.request))'
  <2>1. CASE UNCHANGED call
    BY <1>1, <2>1 DEF ClaimsInv, InCall, HoldsSlot
  <2>2. CASE call' = NoCall
    BY <2>2 DEF InCall, NoCall
  <2>3. ASSUME NEW op \in Ops, NEW r \in Requests, NEW spend \in Nat, Begin(op, r, spend)
        PROVE  HoldsSlot(call.request)'
    <3>1. call'.request = r /\ grants[r].state \in From[op]
      BY <2>3 DEF Begin
    <3>2. HoldsSlot(r)
      BY <3>1, CallFacts DEF ClaimsInv, Tables!CapacityConsuming
    <3> QED
      BY <1>1, <3>1, <3>2 DEF HoldsSlot
  <2> QED
    BY <2>1, <2>2, <2>3
<1>3. ClaimsInv'
  BY <1>1, <1>2 DEF ClaimsInv
<1>4. /\ LedgerMerchant' = LedgerMerchant \/ LedgerMerchant' = merchant
      /\ LedgerCustomer' = LedgerCustomer \/ LedgerCustomer' = customer
  <2>1. CASE UNCHANGED call
    BY <1>1, <2>1 DEF LedgerMerchant, LedgerCustomer, MerchantDue, CustomerDue, Releases,
                      InCall, SettleMerchant, SettleCustomer, Settled
  <2>2. CASE call' = NoCall \/ \E op \in Ops, r \in Requests, spend \in Nat : Begin(op, r, spend)
    <3>1. ~MerchantDue' /\ ~CustomerDue'
      BY <2>2 DEF MerchantDue, CustomerDue, Releases, InCall, NoCall, Begin
    <3> QED
      BY <1>1, <3>1 DEF LedgerMerchant, LedgerCustomer
  <2> QED
    BY <2>1, <2>2
<1>5. \A x \in Windows : /\ OwedOf(x)' = OwedOf(x)
                         /\ \A q \in Requests : Owed(q, x)' = Owed(q, x)
  BY <1>1 DEF Owed, OwedOf
<1>6. ASSUME NEW x \in Windows
      PROVE  /\ Held(merchant'[x]) <= MerchantBudget
             /\ Held(LedgerMerchant'[x]) >= LP!Total(OwedOf(x)', Requests)
  <2>1. /\ Held(merchant[x]) \in Int /\ Held(LedgerMerchant[x]) \in Int
        /\ Held(merchant[x]) >= Held(LedgerMerchant[x])
    BY MerchantLooksFuller
  <2>2. LP!Total(OwedOf(x), Requests) \in Int
    <3>1. OwedOf(x) \in [Requests -> Int]
      BY OwedFold
    <3>2. PICK g : LP!SumOver(g, OwedOf(x), Requests)
      BY <3>1, LP!SumExists, LedgerAssumption, SameFinite
    <3> QED
      BY <3>1, <3>2, LP!TotalSum, LedgerAssumption, SameFinite
  <2>3. Held(LedgerMerchant[x]) >= LP!Total(OwedOf(x), Requests)
    BY DEF HeldInv
  <2>4. Held(merchant[x]) >= LP!Total(OwedOf(x), Requests)
    BY <2>1, <2>2, <2>3
  <2>5. Held(merchant'[x]) <= MerchantBudget
    BY <1>1 DEF HeldInv
  <2>6. Held(LedgerMerchant'[x]) >= LP!Total(OwedOf(x), Requests)
    BY <1>4, <2>3, <2>4
  <2> QED
    BY <1>5, <2>5, <2>6
<1>7. ASSUME NEW x \in Windows, NEW d \in Customers
      PROVE  /\ Held(LedgerCustomer'[d][x]) >= 0
             /\ \A q \in Requests :
                  CustomerOf[q] = d => Held(LedgerCustomer'[d][x]) >= Owed(q, x)'
  <2>1. /\ Held(customer[d][x]) \in Int /\ Held(LedgerCustomer[d][x]) \in Int
        /\ Held(customer[d][x]) >= Held(LedgerCustomer[d][x])
        /\ Held(LedgerCustomer[d][x]) >= 0
    BY CustomerLooksFuller DEF HeldInv
  <2>2. \/ Held(LedgerCustomer'[d][x]) = Held(LedgerCustomer[d][x])
        \/ Held(LedgerCustomer'[d][x]) = Held(customer[d][x])
    BY <1>4
  <2>3. ASSUME NEW q \in Requests, CustomerOf[q] = d
        PROVE  Held(LedgerCustomer'[d][x]) >= Owed(q, x)'
    <3>1. Owed(q, x) \in Int /\ Held(LedgerCustomer[d][x]) >= Owed(q, x)
      BY <2>3 DEF HeldInv, Owed, ExecInv, TypeOK, Tables!TypeOK, Tables!Grant
    <3> QED
      BY <1>5, <2>1, <2>2, <3>1
  <2>4. Held(LedgerCustomer'[d][x]) >= 0
    BY <2>1, <2>2
  <2> QED
    BY <2>3, <2>4
<1> QED
  BY <1>3, <1>6, <1>7 DEF HeldInv

LEMMA PoolsStart == Init => ClaimsInv /\ HeldInv
<1> SUFFICES ASSUME Init PROVE ClaimsInv /\ HeldInv
  OBVIOUS
<1>1. /\ \A r \in Requests : grants[r].state = "none" /\ claims[r] = "none"
      /\ \A w \in Windows : merchant[w] = [reserved |-> 0, spent |-> 0]
      /\ \A c \in Customers, w \in Windows : customer[c][w] = [reserved |-> 0, spent |-> 0]
      /\ call = NoCall
  BY DEF Init, Tables!Init, Tables!NoGrant, Tables!FreshPool
<1>2. ClaimsInv
  BY <1>1 DEF ClaimsInv, HoldsSlot, InCall, NoCall, Tables!CapacityConsuming
<1>3. LedgerMerchant = merchant /\ LedgerCustomer = customer
  BY <1>1 DEF LedgerMerchant, LedgerCustomer, MerchantDue, CustomerDue, Releases, InCall, NoCall
<1>4. ASSUME NEW w \in Windows
      PROVE  LP!Total(OwedOf(w), Requests) = 0 /\ \A r \in Requests : Owed(r, w) = 0
  <2>1. \A r \in Requests : Owed(r, w) = 0
    BY <1>1 DEF Owed, Tables!CapacityConsuming
  <2>2. OwedOf(w) = [r \in Requests |-> 0]
    BY <2>1 DEF OwedOf
  <2> QED
    BY <2>1, <2>2, LP!TotalZero, LedgerAssumption, SameFinite
<1>5. MerchantBudget \in Nat /\ \A w \in Windows : Held(merchant[w]) = 0
  BY <1>1, LedgerAssumption DEF Held
<1>6. \A c \in Customers, w \in Windows : Held(customer[c][w]) = 0
  BY <1>1 DEF Held
<1> QED
  BY <1>2, <1>3, <1>4, <1>5, <1>6 DEF HeldInv

LEMMA PoolsStep ==
  ExecInv /\ ExecInv' /\ ClaimsInv /\ HeldInv /\ [Next]_vars => ClaimsInv' /\ HeldInv'
<1> SUFFICES ASSUME ExecInv, ExecInv', ClaimsInv, HeldInv, [Next]_vars
             PROVE  ClaimsInv' /\ HeldInv'
  OBVIOUS
<1>1. ASSUME NEW r \in Requests, NEW w \in Windows, NEW s \in Tables!SendTimes(w),
             NEW ask \in 0..RequestedCeiling[r], Issue(r, w, s, ask)
      PROVE  ClaimsInv' /\ HeldInv'
  BY <1>1, IssueHolds
<1>2. CASE Statement
  BY <1>2, StatementHolds
<1>3. ASSUME NEW op \in Ops, NEW r \in Requests, NEW spend \in Nat, Begin(op, r, spend),
             UNCHANGED tables
      PROVE  ClaimsInv' /\ HeldInv'
  BY <1>3, QuietHolds
<1>4. ASSUME UNCHANGED tables, call' = NoCall
      PROVE  ClaimsInv' /\ HeldInv'
  BY <1>4, QuietHolds
<1>5. ASSUME UNCHANGED <<tables, call>>
      PROVE  ClaimsInv' /\ HeldInv'
  BY <1>5, QuietHolds
<1>0. {"execute", "confirm", "rollback", "expire"} \subseteq Ops
  BY DEF Ops, Target
<1>6. CASE Run
  <2>1. ASSUME NEW r \in Requests, StartExecution(r) PROVE ClaimsInv' /\ HeldInv'
    BY <1>0, <1>3, <2>1 DEF StartExecution
  <2>2. CASE SendSucceeds \/ GiveUp
    <3>1. current \in Requests /\ grants[current].ceiling \in Nat
      BY <2>2 DEF SendSucceeds, GiveUp, At, ExecInv, TypeOK, Tables!TypeOK, Tables!Grant
    <3>2. CASE SendSucceeds
      BY <1>0, <1>3, <3>1, <3>2 DEF SendSucceeds
    <3>3. CASE GiveUp
      BY <1>0, <1>3, <3>1, <3>3 DEF GiveUp
    <3> QED
      BY <2>2, <3>2, <3>3
  <2>3. CASE ArmScripted \/ ArmPending \/ ClearPending \/ SendTimesOut \/ Disarm
    BY <1>5, <2>3 DEF ArmScripted, ArmPending, ClearPending, SendTimesOut, Disarm
  <2> QED
    BY <1>2, <1>6, <2>1, <2>2, <2>3 DEF Run
<1>7. ASSUME NEW r \in Requests, NEW now \in Instants, StartExpire(r, now)
      PROVE  ClaimsInv' /\ HeldInv'
  BY <1>0, <1>3, <1>7 DEF StartExpire
<1>8. ASSUME NEW mode \in Modes, Press(mode) \/ ArmNext(mode)
      PROVE  ClaimsInv' /\ HeldInv'
  BY <1>5, <1>8 DEF Press, ArmNext, runner
<1>9. CASE UNCHANGED vars
  BY <1>5, <1>9 DEF vars, runner
<1> QED
  BY <1>1, <1>4, <1>6, <1>7, <1>8, <1>9 DEF Next, Work, Lose

\* Whatever statement a lost connection cuts short, live grants keep their claims and
\* every pool still accounts for what it owes; the merchant's pool stays in its budget.
THEOREM NeverOversoldHolds == Spec => []NeverOversold
<1>1. ExecInv /\ ClaimsInv /\ HeldInv => NeverOversold
  <2> SUFFICES ASSUME ExecInv, ClaimsInv, HeldInv PROVE NeverOversold
    OBVIOUS
  <2>1. ASSUME NEW w \in Windows
        PROVE  /\ Held(merchant[w]) <= MerchantBudget
               /\ Held(merchant[w]) >= MapThenSumSet(LAMBDA r : Owed(r, w), Requests)
    <3>1. /\ OwedOf(w) \in [Requests -> Int]
          /\ MapThenSumSet(LAMBDA r : Owed(r, w), Requests) = LP!Total(OwedOf(w), Requests)
      BY OwedFold
    <3>2. PICK g : LP!SumOver(g, OwedOf(w), Requests)
      BY <3>1, LP!SumExists, LedgerAssumption, SameFinite
    <3>3. LP!Total(OwedOf(w), Requests) \in Int
      BY <3>1, <3>2, LP!TotalSum, LedgerAssumption, SameFinite
    <3>4. /\ Held(merchant[w]) \in Int /\ Held(LedgerMerchant[w]) \in Int
          /\ Held(merchant[w]) >= Held(LedgerMerchant[w])
      BY MerchantLooksFuller
    <3>5. /\ Held(merchant[w]) <= MerchantBudget
          /\ Held(LedgerMerchant[w]) >= LP!Total(OwedOf(w), Requests)
      BY DEF HeldInv
    <3>6. Held(merchant[w]) >= LP!Total(OwedOf(w), Requests)
      BY <3>3, <3>4, <3>5
    <3> QED
      BY <3>1, <3>5, <3>6
  <2>2. ASSUME NEW w \in Windows, NEW c \in Customers, NEW r \in Requests, CustomerOf[r] = c
        PROVE  Held(customer[c][w]) >= Owed(r, w)
    <3>1. Owed(r, w) \in Int /\ Held(LedgerCustomer[c][w]) >= Owed(r, w)
      BY <2>2 DEF HeldInv, Owed, ExecInv, TypeOK, Tables!TypeOK, Tables!Grant
    <3>2. /\ Held(customer[c][w]) \in Int /\ Held(LedgerCustomer[c][w]) \in Int
          /\ Held(customer[c][w]) >= Held(LedgerCustomer[c][w])
      BY CustomerLooksFuller
    <3> QED
      BY <3>1, <3>2
  <2> QED
    BY <2>1, <2>2 DEF NeverOversold, ClaimsInv
<1>2. Spec => []ExecInv
  BY ExecInvHolds
<1> QED
  BY <1>1, <1>2, PoolsStart, PoolsStep, PTL DEF Spec
=============================================================================
