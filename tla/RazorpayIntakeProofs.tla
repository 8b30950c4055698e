------------------------ MODULE RazorpayIntakeProofs ------------------------
(***************************************************************************)
(* Theorems about RazorpayIntake, for any payments and sessions: no link   *)
(* outside the test ledger, one message about a payment, outcomes that are *)
(* true, the caps on contacts, and one row for everybody.                  *)
(***************************************************************************)
EXTENDS RazorpayIntake, FiniteSetTheorems, TLAPS

-----------------------------------------------------------------------------
(* Transports. *)

\* No link is created outside the test ledger, whatever the MCP token opens and
\* whichever of the two transports answers, unless the operator has switched the check
\* of the token off; and also then no token of another account passes for proven.
THEOREM OnlyTestLinks == Spec => []TestModeOnly
<1>1. Init => TestModeOnly
  BY DEF Init, GatewayInit, TestModeOnly
<1>2. TestModeOnly /\ [Next]_vars => TestModeOnly'
  <2> SUFFICES ASSUME TestModeOnly, [Next]_vars PROVE TestModeOnly'
    OBVIOUS
  <2>1. ASSUME UNCHANGED <<mcp, nonEmpty, proven>> PROVE TestModeOnly'
    BY <2>1 DEF TestModeOnly, McpLedger
  <2>2. ASSUME NEW ref \in References, CreateLink(ref) PROVE TestModeOnly'
    BY <2>2 DEF CreateLink, CreatedViaMcp, CreatedViaRest, TriedMcp, Withheld, NotWithheld,
                LedgersOverlap, TestModeOnly, McpLedger
  <2>3. CASE CreateLinkFails
    BY <2>3 DEF CreateLinkFails, NoTransport, TriedMcp, Withheld, NotWithheld,
                LedgersOverlap, TestModeOnly, McpLedger
  <2>4. CASE Pay
    BY <2>1, <2>4 DEF Pay, TryToPay
  <2>5. CASE UNCHANGED vars
    BY <2>1, <2>5 DEF vars, gateway
  <2>6. CASE UNCHANGED gateway
    BY <2>1, <2>6 DEF gateway
  <2>7. ASSUME Next, ~Pay, ~CreateLinkFails, \A ref \in References : ~CreateLink(ref)
        PROVE  UNCHANGED gateway
    BY <2>7
    DEF Next, Start, Reset, Arm, Deliver, TakeDelivery, Poll, LookUp, LookUpFails,
        ConnectionLost, Load, Defer, Deny, GrantIt, Execute, Send, Settle
  <2> QED
    BY <2>2, <2>3, <2>4, <2>5, <2>6, <2>7
<1> QED
  BY <1>1, <1>2, PTL DEF Spec

-----------------------------------------------------------------------------
(* The types. *)

HookKeys == {"event", "payment"} \X Payments
States == {"none", "RESERVED", "EXECUTING", "CONFIRMED", "ROLLED_BACK"}
Outcomes == {"none", "GRANTED", "ROLLED_BACK", "DENIED", "DEFERRED"}
Places == {"free", "link", "load", "mediate", "execute", "send", "confirm", "rollback"}
Calls == [by : {"nobody", "poll", "webhook"}, todo : Seq(Link), at : Places,
          payment : Payments \cup {0}, steps : Nat, send : Nat, tries : Nat]
Desks == [session : Nat, open : BOOLEAN, links : Seq(Link), seen : SUBSET HookKeys,
          alive : BOOLEAN]
Attempts == [status : {"none", "failed", "captured"}, ref : References \cup {0}]
Grants == [state : States, send : Nat]
Providers == [mode : Modes \cup {"none"}, accepted : SUBSET Payments,
              sent : [Payments -> Nat]]

TypeInv ==
  /\ desk \in Desks /\ call \in Calls /\ hook \in HookKeys \cup {NoHook}
  /\ attempts \in [Payments -> Attempts] /\ DOMAIN customer = Payments
  /\ grants \in [Payments -> Grants] /\ outcomes \in [Payments -> Outcomes]
  /\ provider \in Providers

-----------------------------------------------------------------------------
(* What a call knows of its payment. *)

Untouched(p) == customer[p] = Nobody /\ grants[p] = NoGrant /\ p \notin provider.accepted

\* The handler holds a key of a payment that failed, and what was seen has an outcome.
KeysInv ==
  /\ hook # NoHook => hook \in Keys(hook[2]) /\ attempts[hook[2]].status = "failed"
  /\ \A p \in Payments : \A key \in Keys(p) : key \in desk.seen => Known(p)

\* Nobody calls, a poll is between two payments, or a payment without an outcome is
\* in hand, and how far its grant and its message are.
HandInv ==
  LET p == call.payment
  IN  /\ call.at = "free" => call = Free
      /\ call.at = "link" => call.by = "poll" /\ p = 0 /\ call.todo # <<>>
      /\ call.at \notin {"free", "link"} =>
           /\ p \in Payments /\ ~Known(p) /\ attempts[p].status = "failed"
           /\ call.by = "webhook" => hook # NoHook /\ hook[2] = p
           /\ call.at # "load" => desk.alive
      /\ call.at = "load" /\ desk.alive => Untouched(p)
      /\ call.at = "mediate" => grants[p] = NoGrant /\ p \notin provider.accepted
      /\ call.at = "execute" => grants[p].state = "RESERVED" /\ p \notin provider.accepted
      /\ call.at \in {"send", "confirm", "rollback"} => grants[p].state = "EXECUTING"
      /\ call.at = "confirm" => p \in provider.accepted
      /\ call.at = "rollback" => p \notin provider.accepted

\* The provider counts what it accepted, and what became of a payment is known, or
\* nothing became of it.
ResultsInv ==
  \A p \in Payments :
    /\ provider.sent[p] = IF p \in provider.accepted THEN 1 ELSE 0
    /\ p \in provider.accepted => attempts[p].status = "failed"
    /\ outcomes[p] = "GRANTED" => grants[p].state = "CONFIRMED" /\ p \in provider.accepted
    /\ outcomes[p] = "ROLLED_BACK" =>
         grants[p].state = "ROLLED_BACK" /\ p \notin provider.accepted
    /\ outcomes[p] \in {"DENIED", "DEFERRED"} => grants[p] = NoGrant
    /\ ~Known(p) /\ ~InHand(p) /\ desk.alive => Untouched(p)

IntakeInv == TypeInv /\ KeysInv /\ HandInv /\ ResultsInv

LEMMA IntakeInit == Init => IntakeInv
<1> SUFFICES ASSUME Init PROVE IntakeInv
  OBVIOUS
<1>1. /\ attempts = [p \in Payments |-> NoAttempt]
      /\ desk = [session |-> 0, open |-> FALSE, links |-> <<>>, seen |-> {}, alive |-> FALSE]
      /\ call = Free /\ hook = NoHook
      /\ customer = [p \in Payments |-> Nobody] /\ grants = [p \in Payments |-> NoGrant]
      /\ outcomes = [p \in Payments |-> "none"] /\ provider = FreshProvider
  BY DEF Init, GatewayInit
<1>2. TypeInv
  <2>1. call \in Calls /\ desk \in Desks
    BY <1>1 DEF Calls, Desks, Free, Places
  <2>2. attempts \in [Payments -> Attempts] /\ grants \in [Payments -> Grants]
    BY <1>1 DEF NoAttempt, Attempts, NoGrant, Grants, States
  <2>3. provider \in Providers /\ outcomes \in [Payments -> Outcomes]
    BY <1>1 DEF FreshProvider, Providers, Outcomes
  <2> QED
    BY <1>1, <2>1, <2>2, <2>3 DEF TypeInv, Nobody
<1>3. KeysInv
  BY <1>1 DEF KeysInv
<1>4. HandInv
  BY <1>1 DEF HandInv, Free
<1>5. ResultsInv
  BY <1>1 DEF ResultsInv, FreshProvider, Known
<1> QED
  BY <1>2, <1>3, <1>4, <1>5 DEF IntakeInv

LEMMA KeyFacts ==
  ASSUME NEW p \in Payments
  PROVE  /\ Keys(p) \subseteq HookKeys
         /\ \A key \in Keys(p) : key[2] = p /\ key # NoHook
BY DEF Keys, HookKeys, NoHook

\* The payments that a read of a link can show have failed.
LEMMA FoundFailed ==
  ASSUME NEW link, NEW listed
  PROVE  /\ Found(link, listed) \subseteq Payments
         /\ \A p \in Found(link, listed) : attempts[p].status = "failed"
BY DEF Found, FailedOn

LEMMA NewCallsFree == Free.at = "free" /\ Free.payment = 0 /\ 0 \notin Payments
BY GatewayAssumption DEF Free

\* The calls that are made anew.
LEMMA NewPoll ==
  ASSUME NEW todo \in Seq(Link), NEW c,
         c = [Free EXCEPT !.by = "poll", !.todo = todo, !.at = "link"]
  PROVE  c \in Calls /\ c.by = "poll" /\ c.at = "link" /\ c.payment = 0 /\ c.todo = todo
<1>1. Free \in Calls /\ Free.payment = 0
  BY DEF Free, Calls, Places
<1> QED
  BY <1>1 DEF Calls, Places

LEMMA NoMore ==
  ASSUME call.by # "poll" \/ call.todo = <<>>
  PROVE  AfterPayment = Free
BY DEF AfterPayment

LEMMA NewIngest ==
  ASSUME NEW by \in {"poll", "webhook"}, NEW todo \in Seq(Link), NEW p \in Payments
  PROVE  /\ Ingest(by, todo, p) \in Calls
         /\ Ingest(by, todo, p).by = by /\ Ingest(by, todo, p).at = "load"
         /\ Ingest(by, todo, p).payment = p
<1>1. Free \in Calls
  BY DEF Free, Calls, Places
<1> DEFINE a == [Free EXCEPT !.by = by]
           b == [a EXCEPT !.todo = todo]
           d == [b EXCEPT !.at = "load"]
<1>2. a \in Calls /\ a.by = by
  BY <1>1 DEF Calls
<1>3. Ingest(by, todo, p) = [d EXCEPT !.payment = p]
  BY DEF Ingest
<1> HIDE DEF a
<1>4. b \in Calls /\ b.by = by
  BY <1>2 DEF Calls
<1> HIDE DEF b
<1>5. d \in Calls /\ d.by = by /\ d.at = "load"
  BY <1>4 DEF Calls, Places
<1> HIDE DEF d
<1> QED
  BY <1>3, <1>5 DEF Calls

\* What a call that is at work on a payment holds.
LEMMA AtWork ==
  ASSUME IntakeInv, call.at \notin {"free", "link"}
  PROVE  /\ call.payment \in Payments /\ outcomes[call.payment] = "none"
         /\ attempts[call.payment].status = "failed"
         /\ call.by = "webhook" => hook \in HookKeys /\ hook \in Keys(call.payment)
BY DEF IntakeInv, TypeInv, HandInv, KeysInv, Known

\* A call that is done with its payment is between payments again.
LEMMA Finished ==
  ASSUME IntakeInv, call.at \notin {"free", "link"},
         NEW outcome \in Outcomes \ {"none"}, Finish(call.payment, outcome)
  PROVE  /\ outcomes' = [outcomes EXCEPT ![call.payment] = outcome]
         /\ desk' \in Desks /\ hook' \in HookKeys \cup {NoHook} /\ call' \in Calls
         /\ call' = Free \/ (/\ call'.at = "link" /\ call'.by = "poll" /\ call'.payment = 0
                          /\ call'.todo # <<>>)
         /\ desk'.alive = desk.alive
         /\ hook' = hook \/ hook' = NoHook
         /\ \A key : key \in desk'.seen => key \in desk.seen \/ key \in Keys(call.payment)
<1>1. call \in Calls /\ desk \in Desks /\ hook \in HookKeys \cup {NoHook}
  BY DEF IntakeInv, TypeInv
<1>2. /\ outcomes' = [outcomes EXCEPT ![call.payment] = outcome]
      /\ call' = AfterPayment
      /\ \/ /\ call.by = "webhook" /\ desk' = [desk EXCEPT !.seen = @ \cup {hook}]
            /\ hook' = NoHook
         \/ desk' = desk /\ hook' = hook
  BY DEF Finish
<1>3. /\ call' \in Calls
      /\ call' = Free \/ (/\ call'.at = "link" /\ call'.by = "poll" /\ call'.payment = 0
                          /\ call'.todo # <<>>)
  <2>1. Free \in Calls
    BY DEF Free, Calls, Places
  <2>2. CASE call.by = "poll" /\ call.todo # <<>>
    <3>1. call' = [Free EXCEPT !.by = "poll", !.todo = call.todo, !.at = "link"]
      BY <1>2, <2>2 DEF AfterPayment
    <3>2. call.todo \in Seq(Link)
      BY <1>1 DEF Calls
    <3> QED
      BY <2>2, <3>1, <3>2, NewPoll
  <2>3. CASE call.by # "poll" \/ call.todo = <<>>
    <3>1. call' = Free
      BY <1>2, <2>3, NoMore
    <3> QED
      BY <2>1, <3>1
  <2> QED
    BY <2>2, <2>3
<1>4. CASE call.by = "webhook" /\ desk' = [desk EXCEPT !.seen = @ \cup {hook}] /\ hook' = NoHook
  BY <1>1, <1>2, <1>3, <1>4, AtWork DEF Desks
<1>5. CASE desk' = desk /\ hook' = hook
  BY <1>1, <1>2, <1>3, <1>5
<1> QED
  BY <1>2, <1>4, <1>5

-----------------------------------------------------------------------------
(* Every step keeps the invariant. *)

\* A schema made anew, and nobody calling.
LEMMA EmptiedHolds ==
  ASSUME IntakeInv, Start \/ Reset
  PROVE  IntakeInv'
<1>1. /\ call = Free /\ UNCHANGED <<attempts, call, hook>> /\ EmptySchema
      /\ desk' \in Desks /\ desk'.seen = {}
  <2>1. desk \in Desks
    BY DEF IntakeInv, TypeInv
  <2>2. CASE Start
    <3>1. desk' \in Desks
      BY <2>1, <2>2 DEF Start, Desks
    <3> QED
      BY <2>2, <3>1 DEF Start, gateway, LockIsFree
  <2>3. CASE Reset
    <3>1. desk' \in Desks
      <4> DEFINE a == [desk EXCEPT !.open = FALSE]
                 b == [a EXCEPT !.links = <<>>]
                 c == [b EXCEPT !.seen = {}]
      <4>1. a \in Desks
        BY <2>1 DEF Desks
      <4>2. desk' = [c EXCEPT !.alive = FALSE]
        <5>1. desk' = [desk EXCEPT !.open = FALSE, !.links = <<>>, !.seen = {},
                                   !.alive = FALSE]
          BY <2>3 DEF Reset
        <5> QED
          BY <5>1
      <4> HIDE DEF a
      <4>5. <<>> \in Seq(Link)
        OBVIOUS
      <4>3. b \in Desks
        BY <4>1, <4>5 DEF Desks
      <4> HIDE DEF b
      <4>4. c \in Desks
        BY <4>3 DEF Desks
      <4> HIDE DEF c
      <4> QED
        BY <4>2, <4>4 DEF Desks
    <3>2. desk'.seen = {}
      BY <2>1, <2>3 DEF Reset, Desks
    <3> QED
      BY <2>3, <3>1, <3>2 DEF Reset, gateway, LockIsFree
  <2> QED
    BY <2>2, <2>3
<1>2. TypeInv'
  <2>1. /\ grants' \in [Payments -> Grants] /\ outcomes' \in [Payments -> Outcomes]
        /\ provider' \in Providers /\ DOMAIN customer' = Payments
    BY <1>1 DEF EmptySchema, NoGrant, Grants, States, Outcomes, FreshProvider, Providers
  <2> QED
    BY <1>1, <2>1 DEF IntakeInv, TypeInv
<1>3. KeysInv'
  BY <1>1 DEF IntakeInv, KeysInv
<1>4. HandInv'
  BY <1>1 DEF HandInv, Free
<1>5. ResultsInv'
  BY <1>1 DEF ResultsInv, EmptySchema, FreshProvider, Known, Untouched, InHand
<1> QED
  BY <1>2, <1>3, <1>4, <1>5 DEF IntakeInv

\* Attempts at paying, links and keys that come in leave the run alone.
LEMMA AroundHolds ==
  ASSUME IntakeInv,
         \/ Pay \/ CreateLinkFails \/ \E ref \in References : CreateLink(ref)
         \/ \E mode \in Modes : Arm(mode)
         \/ \E p \in Payments : Deliver(p)
         \/ UNCHANGED vars
  PROVE  IntakeInv'
<1>1. /\ UNCHANGED <<call, customer, grants, outcomes>>
      /\ desk'.seen = desk.seen /\ desk'.alive = desk.alive /\ desk' \in Desks
      /\ provider'.sent = provider.sent /\ provider'.accepted = provider.accepted
      /\ provider' \in Providers
  <2>1. desk \in Desks /\ provider \in Providers
    BY DEF IntakeInv, TypeInv
  <2>2. ASSUME NEW ref \in References, CreateLink(ref)
        PROVE  desk'.seen = desk.seen /\ desk'.alive = desk.alive /\ desk' \in Desks
    <3>1. PICK via \in {"mcp", "rest"} :
            desk' = [desk EXCEPT !.links = Append(@, [ref |-> ref, via |-> via])]
      BY <2>2 DEF CreateLink
    <3>2. [ref |-> ref, via |-> via] \in Link
      BY DEF Link
    <3>3. Append(desk.links, [ref |-> ref, via |-> via]) \in Seq(Link)
      BY <2>1, <3>2 DEF Desks
    <3> QED
      BY <2>1, <3>1, <3>3 DEF Desks
  <2>3. ASSUME NEW mode \in Modes, Arm(mode)
        PROVE  /\ provider'.sent = provider.sent /\ provider'.accepted = provider.accepted
               /\ provider' \in Providers
    BY <2>1, <2>3 DEF Arm, Providers
  <2> QED
    BY <2>1, <2>2, <2>3 DEF Pay, CreateLinkFails, CreateLink, Arm, Deliver, vars, product
<1>2. /\ attempts' \in [Payments -> Attempts]
      /\ \A p \in Payments : attempts[p].status = "failed" => attempts'[p] = attempts[p]
  <2>1. attempts \in [Payments -> Attempts]
    BY DEF IntakeInv, TypeInv
  <2>2. CASE Pay
    <3>1. PICK p \in Payments : TryToPay(p, LinkOf[p])
      BY <2>2 DEF Pay
    <3>2. LinkOf[p] \in References
      BY IntakeAssumption
    <3>3. PICK status \in {"failed", "captured"} :
            /\ attempts' = [attempts EXCEPT ![p] = [status |-> status, ref |-> LinkOf[p]]]
            /\ attempts[p] = NoAttempt
      BY <3>1 DEF TryToPay
    <3>4. [status |-> status, ref |-> LinkOf[p]] \in Attempts /\ attempts[p].status = "none"
      BY <3>2, <3>3 DEF Attempts, NoAttempt
    <3> QED
      BY <2>1, <3>3, <3>4
  <2>3. CASE ~Pay
    <3>1. attempts' = attempts
      BY <2>3 DEF CreateLinkFails, CreateLink, Arm, Deliver, vars, gateway
    <3> QED
      BY <2>1, <3>1
  <2> QED
    BY <2>2, <2>3
<1>3. \/ hook' = hook
      \/ \E p \in Payments : hook' \in Keys(p) /\ attempts[p].status = "failed"
  BY DEF Pay, CreateLinkFails, CreateLink, Arm, Deliver, vars
<1>4. hook' \in HookKeys \cup {NoHook}
  BY <1>3, KeyFacts DEF IntakeInv, TypeInv
<1>5. TypeInv'
  BY <1>1, <1>2, <1>4 DEF IntakeInv, TypeInv
<1>6. KeysInv'
  <2>1. hook' # NoHook => hook' \in Keys(hook'[2]) /\ attempts'[hook'[2]].status = "failed"
    <3>1. CASE hook' = hook
      BY <1>2, <3>1 DEF IntakeInv, KeysInv, TypeInv, HookKeys
    <3>2. ASSUME NEW p \in Payments, hook' \in Keys(p), attempts[p].status = "failed"
          PROVE  hook' \in Keys(hook'[2]) /\ attempts'[hook'[2]].status = "failed"
      BY <1>2, <3>2, KeyFacts
    <3> QED
      BY <1>3, <3>1, <3>2
  <2> QED
    BY <1>1, <2>1 DEF IntakeInv, KeysInv, Known
<1>7. HandInv'
  <2>1. call.by = "webhook" /\ call.at \notin {"free", "link"} => hook' = hook
    <3>1. ASSUME NEW p \in Payments, Deliver(p) PROVE call.at = "free"
      BY <3>1 DEF Deliver, LockIsFree, Free
    <3> QED
      BY <3>1 DEF Pay, CreateLinkFails, CreateLink, Arm, vars, product
  <2> QED
    BY <1>1, <1>2, <2>1 DEF IntakeInv, HandInv, Known, Untouched
<1>8. ResultsInv'
  BY <1>1, <1>2 DEF IntakeInv, ResultsInv, Known, Untouched, InHand
<1> QED
  BY <1>5, <1>6, <1>7, <1>8 DEF IntakeInv

\* The end of a call's work on its payment.
LEMMA FinishHolds ==
  ASSUME IntakeInv, call.at \notin {"free", "link"}, UNCHANGED <<attempts, customer>>,
         NEW outcome \in Outcomes \ {"none"}, Finish(call.payment, outcome),
         grants' \in [Payments -> Grants],
         \A q \in Payments \ {call.payment} : grants'[q] = grants[q],
         provider' \in Providers, provider'.accepted = provider.accepted,
         provider'.sent = provider.sent,
         outcome = "GRANTED" =>
           grants'[call.payment].state = "CONFIRMED" /\ call.payment \in provider.accepted,
         outcome = "ROLLED_BACK" =>
           grants'[call.payment].state = "ROLLED_BACK" /\ call.payment \notin provider.accepted,
         outcome \in {"DENIED", "DEFERRED"} => grants'[call.payment] = NoGrant
  PROVE  IntakeInv'
<1>1. PICK p \in Payments : p = call.payment
  BY AtWork
<1>2. /\ outcomes' = [outcomes EXCEPT ![p] = outcome]
      /\ desk' \in Desks /\ hook' \in HookKeys \cup {NoHook} /\ call' \in Calls
      /\ call' = Free \/ (/\ call'.at = "link" /\ call'.by = "poll" /\ call'.payment = 0
                          /\ call'.todo # <<>>)
      /\ desk'.alive = desk.alive
      /\ hook' = hook \/ hook' = NoHook
      /\ \A key : key \in desk'.seen => key \in desk.seen \/ key \in Keys(p)
  BY <1>1, Finished
<1>3. TypeInv'
  BY <1>2 DEF IntakeInv, TypeInv
<1>4. /\ outcomes'[p] = outcome
      /\ \A q \in Payments \ {p} : outcomes'[q] = outcomes[q]
  BY <1>2 DEF IntakeInv, TypeInv
<1>5. KeysInv'
  <2>1. ASSUME NEW q \in Payments, NEW key \in Keys(q), key \in desk'.seen
        PROVE  outcomes'[q] # "none"
    BY <1>2, <1>4, <2>1, KeyFacts DEF IntakeInv, KeysInv, Known
  <2>2. hook' # NoHook => hook' \in Keys(hook'[2]) /\ attempts'[hook'[2]].status = "failed"
    BY <1>2 DEF IntakeInv, KeysInv
  <2> QED
    BY <2>1, <2>2 DEF KeysInv, Known
<1>6. HandInv'
  BY <1>2, NewCallsFree DEF HandInv
<1>7. ResultsInv'
  BY <1>1, <1>4, <1>2, NewCallsFree DEF IntakeInv, ResultsInv, Known, Untouched, InHand
<1> QED
  BY <1>3, <1>5, <1>6, <1>7 DEF IntakeInv

\* Between payments: a call begins, looks a payment up, or ends.
LEMMA BetweenHolds ==
  ASSUME IntakeInv, UNCHANGED <<attempts, customer, grants, outcomes, provider>>,
         desk' \in Desks, call' \in Calls, hook' \in HookKeys \cup {NoHook},
         hook' = hook \/ hook' = NoHook,
         \A p \in Payments : \A key \in Keys(p) : key \in desk'.seen \ desk.seen => Known(p),
         desk'.alive => desk.alive /\ call.payment = 0,
         \/ call' = Free
         \/ call'.at = "link" /\ call'.by = "poll" /\ call'.payment = 0 /\ call'.todo # <<>>
         \/ /\ call'.at = "load" /\ call'.payment \in Payments
            /\ ~Known(call'.payment) /\ attempts[call'.payment].status = "failed"
            /\ call'.by = "webhook" => hook' # NoHook /\ hook'[2] = call'.payment
  PROVE  IntakeInv'
<1>1. TypeInv'
  BY DEF IntakeInv, TypeInv
<1>2. KeysInv'
  BY DEF IntakeInv, KeysInv, Known
<1>3. HandInv'
  BY NewCallsFree DEF IntakeInv, HandInv, ResultsInv, Untouched, Known, InHand
<1>4. ResultsInv'
  BY NewCallsFree DEF IntakeInv, ResultsInv, Untouched, Known, InHand
<1> QED
  BY <1>1, <1>2, <1>3, <1>4 DEF IntakeInv

LEMMA TakeDeliveryHolds == ASSUME IntakeInv, TakeDelivery PROVE IntakeInv'
<1> DEFINE p == hook[2]
<1>1. /\ hook \in HookKeys /\ p \in Payments /\ hook \in Keys(p) /\ call = Free
      /\ attempts[p].status = "failed" /\ desk \in Desks /\ call \in Calls
  BY DEF TakeDelivery, IntakeInv, TypeInv, KeysInv, HookKeys, LockIsFree
<1>2. UNCHANGED <<attempts, customer, grants, outcomes, provider>>
  BY DEF TakeDelivery, gateway, product
<1>3. CASE hook' = NoHook /\ UNCHANGED <<desk, call>>
  BY <1>1, <1>2, <1>3, NewCallsFree, BetweenHolds
<1>4. CASE /\ Known(p) /\ desk' = [desk EXCEPT !.seen = @ \cup {hook}]
           /\ hook' = NoHook /\ UNCHANGED call
  <2>1. desk' \in Desks /\ desk'.alive = desk.alive /\ desk'.seen = desk.seen \cup {hook}
    BY <1>1, <1>4 DEF Desks
  <2>2. \A q \in Payments : \A key \in Keys(q) : key \in desk'.seen \ desk.seen => Known(q)
    BY <1>1, <1>4, <2>1, KeyFacts
  <2> QED
    BY <1>1, <1>2, <1>4, <2>1, <2>2, NewCallsFree, BetweenHolds
<1>5. CASE ~Known(p) /\ call' = Ingest("webhook", <<>>, p) /\ UNCHANGED <<desk, hook>>
  <2>1. <<>> \in Seq(Link)
    OBVIOUS
  <2>2. call' \in Calls /\ call'.at = "load" /\ call'.payment = p
    <3> HIDE DEF p
    <3>1. Ingest("webhook", <<>>, p) \in Calls
      BY <1>1, <2>1, NewIngest
    <3>2. Ingest("webhook", <<>>, p).at = "load" /\ Ingest("webhook", <<>>, p).payment = p
      BY <1>1, <2>1, NewIngest
    <3> QED
      BY <1>5, <3>1, <3>2
  <2>3. hook # NoHook /\ hook[2] = p
    BY <1>1, KeyFacts
  <2> QED
    <3> HIDE DEF p
    <3> QED
      BY <1>1, <1>2, <1>5, <2>2, <2>3, NewCallsFree, BetweenHolds
<1> QED
  BY <1>3, <1>4, <1>5 DEF TakeDelivery, IsDuplicate

LEMMA LookUpHolds == ASSUME IntakeInv, LookUp PROVE IntakeInv'
<1> DEFINE rest == Tail(call.todo)
<1>1. /\ call \in Calls /\ desk \in Desks /\ hook \in HookKeys \cup {NoHook}
      /\ call.at = "link" /\ call.by = "poll" /\ call.payment = 0 /\ call.todo # <<>>
  BY DEF LookUp, IntakeInv, TypeInv, HandInv
<1>2. UNCHANGED <<attempts, customer, grants, outcomes, provider, desk, hook>>
  BY DEF LookUp, gateway, product
<1>3. rest \in Seq(Link)
  BY <1>1 DEF Calls
<1>4. CASE call' = Free
  BY <1>1, <1>2, <1>4, NewCallsFree, BetweenHolds DEF Free, Calls, Places
<1>5. CASE rest # <<>> /\ call' = [call EXCEPT !.todo = rest]
  <2> HIDE DEF rest
  <2>1. /\ call' \in Calls /\ call'.at = "link" /\ call'.by = "poll" /\ call'.payment = 0
        /\ call'.todo = rest
    BY <1>1, <1>3, <1>5 DEF Calls
  <2> QED
    BY <1>1, <1>2, <1>5, <2>1, BetweenHolds
<1>6. ASSUME NEW listed, NEW p \in Found(Head(call.todo), listed), ~Known(p),
             call' = Ingest("poll", rest, p)
      PROVE  IntakeInv'
  <2>1. p \in Payments /\ attempts[p].status = "failed"
    BY FoundFailed
  <2>2. call' \in Calls /\ call'.at = "load" /\ call'.payment = p /\ call'.by = "poll"
    <3> HIDE DEF rest
    <3>1. Ingest("poll", rest, p) \in Calls
      BY <1>3, <2>1, NewIngest
    <3>2. /\ Ingest("poll", rest, p).at = "load" /\ Ingest("poll", rest, p).payment = p
          /\ Ingest("poll", rest, p).by = "poll"
      BY <1>3, <2>1, NewIngest
    <3> QED
      BY <1>6, <3>1, <3>2
  <2> QED
    BY <1>1, <1>2, <1>6, <2>1, <2>2, BetweenHolds
<1> QED
  BY <1>4, <1>5, <1>6 DEF LookUp, IsDuplicate

LEMMA CallEndsHolds ==
  ASSUME IntakeInv, Poll \/ LookUpFails \/ ConnectionLost
  PROVE  IntakeInv'
<1>1. /\ call \in Calls /\ desk \in Desks /\ hook \in HookKeys \cup {NoHook}
      /\ UNCHANGED <<attempts, customer, grants, outcomes, provider>>
  BY DEF Poll, LookUpFails, ConnectionLost, IntakeInv, TypeInv, gateway, product
<1>2. Free \in Calls
  BY DEF Free, Calls, Places
<1>3. CASE Poll
  <2>1. desk.links \in Seq(Link)
    BY <1>1 DEF Desks
  <2>2. call.payment = 0 /\ UNCHANGED <<desk, hook>> /\ desk.links # <<>>
    BY <1>3, NewCallsFree DEF Poll, LockIsFree
  <2>3. /\ call' \in Calls /\ call'.by = "poll" /\ call'.at = "link" /\ call'.payment = 0
        /\ call'.todo = desk.links
    <3>1. call' = [Free EXCEPT !.by = "poll", !.todo = desk.links, !.at = "link"]
      BY <1>3 DEF Poll
    <3> QED
      BY <2>1, <3>1, NewPoll
  <2> QED
    BY <1>1, <2>2, <2>3, BetweenHolds
<1>4. CASE LookUpFails
  <2>1. call.payment = 0 /\ UNCHANGED <<desk, hook>> /\ call' = Free
    BY <1>4 DEF LookUpFails, IntakeInv, HandInv
  <2> QED
    BY <1>1, <1>2, <2>1, BetweenHolds
<1>5. CASE ConnectionLost
  <2>1. call' = Free /\ (hook' = hook \/ hook' = NoHook)
    BY <1>5 DEF ConnectionLost
  <2>2. desk' \in Desks /\ desk'.alive = FALSE /\ desk'.seen = desk.seen
    BY <1>1, <1>5 DEF ConnectionLost, Desks
  <2> QED
    BY <1>1, <1>2, <2>1, <2>2, BetweenHolds
<1> QED
  BY <1>3, <1>4, <1>5

\* A step in the middle of the work on a payment, which stays without an outcome.
LEMMA WorkHolds ==
  ASSUME IntakeInv, call.at \notin {"free", "link"},
         UNCHANGED <<attempts, desk, hook, outcomes>>,
         call' \in Calls, call'.payment = call.payment, call'.by = call.by,
         call'.at \notin {"free", "link", "load"}, desk.alive,
         DOMAIN customer' = Payments, grants' \in [Payments -> Grants],
         provider' \in Providers,
         \A q \in Payments \ {call.payment} :
           /\ customer'[q] = customer[q] /\ grants'[q] = grants[q]
           /\ q \in provider'.accepted <=> q \in provider.accepted
           /\ provider'.sent[q] = provider.sent[q],
         provider'.sent[call.payment] = IF call.payment \in provider'.accepted THEN 1 ELSE 0,
         HandInv'
  PROVE  IntakeInv'
<1>1. PICK p \in Payments : p = call.payment
  BY AtWork
<1>2. outcomes[p] = "none" /\ attempts[p].status = "failed"
  BY <1>1, AtWork
<1>3. TypeInv'
  BY DEF IntakeInv, TypeInv
<1>4. KeysInv'
  BY DEF IntakeInv, KeysInv, Known
<1>5. ResultsInv'
  BY <1>1, <1>2 DEF IntakeInv, ResultsInv, Known, Untouched, InHand
<1> QED
  BY <1>3, <1>4, <1>5 DEF IntakeInv

LEMMA LoadHolds == ASSUME IntakeInv, Load PROVE IntakeInv'
<1>1. PICK p \in Payments : p = call.payment
  BY AtWork DEF Load
<1>2. /\ UNCHANGED <<attempts, desk, hook, grants, outcomes, provider>>
      /\ call.at = "load" /\ desk.alive
      /\ call' = [call EXCEPT !.at = "mediate", !.send = ArrivalOf[p]]
      /\ \E c : customer' = [customer EXCEPT ![p] = c]
  BY <1>1 DEF Load, gateway
<1>3. call \in Calls /\ ArrivalOf[p] \in Nat
  BY IntakeAssumption DEF IntakeInv, TypeInv
<1>4. /\ call' \in Calls /\ call'.payment = p /\ call'.by = call.by /\ call'.at = "mediate"
  BY <1>1, <1>2, <1>3 DEF Calls, Places
<1>5. HandInv'
  BY <1>1, <1>2, <1>4 DEF IntakeInv, HandInv, Known, Untouched
<1> QED
  BY <1>1, <1>2, <1>4, <1>5, WorkHolds DEF IntakeInv, TypeInv, ResultsInv

\* Deciding on the request.
LEMMA MediateHolds == ASSUME IntakeInv, Defer \/ Deny \/ GrantIt PROVE IntakeInv'
<1>1. call.at = "mediate" /\ desk.alive
  BY DEF Defer, Deny, GrantIt, Mediating
<1>2. PICK p \in Payments : p = call.payment
  BY <1>1, AtWork
<1>3. /\ call \in Calls /\ grants \in [Payments -> Grants] /\ provider \in Providers
      /\ grants[p] = NoGrant /\ p \notin provider.accepted
  BY <1>1, <1>2 DEF IntakeInv, TypeInv, HandInv
<1>4. ASSUME NEW outcome \in {"DENIED", "DEFERRED"}, Finish(call.payment, outcome),
             UNCHANGED <<attempts, customer, grants, provider>>
      PROVE  IntakeInv'
  BY <1>1, <1>2, <1>3, <1>4, FinishHolds DEF Outcomes
<1>5. CASE Deny
  BY <1>4, <1>5 DEF Deny, gateway
<1>6. CASE Defer /\ call.steps + 1 < MaxWindows
  <2>1. /\ call' = [call EXCEPT !.steps = @ + 1, !.send = OpeningOf(WindowOf(@) + 1)]
        /\ UNCHANGED <<attempts, desk, hook, outcomes, customer, grants, provider>>
    BY <1>6 DEF Defer, gateway
  <2>2. call.send \in Nat /\ call.steps \in Nat
    BY <1>3 DEF Calls
  <2>3. OpeningOf(WindowOf(call.send) + 1) \in Nat
    BY <2>2 DEF OpeningOf, WindowOf, DayLen
  <2>4. /\ call' \in Calls /\ call'.payment = call.payment /\ call'.by = call.by
        /\ call'.at = "mediate"
    <3> DEFINE next == OpeningOf(WindowOf(call.send) + 1)
    <3>1. call' = [call EXCEPT !.steps = @ + 1, !.send = next]
      BY <2>1
    <3>2. next \in Nat
      BY <2>3
    <3> HIDE DEF next
    <3> DEFINE a == [call EXCEPT !.steps = @ + 1]
    <3>3. a \in Calls /\ a.payment = call.payment /\ a.by = call.by /\ a.at = "mediate"
      BY <1>1, <1>3, <2>2 DEF Calls
    <3>4. call' = [a EXCEPT !.send = next]
      BY <3>1
    <3> HIDE DEF a
    <3> QED
      BY <3>2, <3>3, <3>4 DEF Calls
  <2>5. HandInv'
    BY <1>1, <2>1, <2>4 DEF IntakeInv, HandInv, Known, Untouched
  <2> QED
    BY <1>1, <1>2, <1>3, <2>1, <2>4, <2>5, WorkHolds DEF IntakeInv, TypeInv, ResultsInv
<1>7. CASE Defer /\ ~(call.steps + 1 < MaxWindows)
  BY <1>4, <1>7 DEF Defer, gateway
<1>8. CASE GrantIt
  <2>1. /\ grants' = [grants EXCEPT ![p] = [state |-> "RESERVED", send |-> call.send]]
        /\ call' = [call EXCEPT !.at = "execute"]
        /\ UNCHANGED <<attempts, desk, hook, customer, outcomes, provider>>
    BY <1>2, <1>8 DEF GrantIt, Step, gateway
  <2>2. [state |-> "RESERVED", send |-> call.send] \in Grants
    BY <1>3 DEF Calls, Grants, States
  <2>3. /\ grants' \in [Payments -> Grants] /\ grants'[p].state = "RESERVED"
        /\ \A q \in Payments \ {p} : grants'[q] = grants[q]
    BY <1>3, <2>1, <2>2
  <2>4. /\ call' \in Calls /\ call'.payment = call.payment /\ call'.by = call.by
        /\ call'.at = "execute"
    BY <1>3, <2>1 DEF Calls, Places
  <2>5. HandInv'
    BY <1>1, <1>2, <1>3, <2>1, <2>3, <2>4 DEF IntakeInv, HandInv, Known, Untouched
  <2> QED
    BY <1>1, <1>2, <1>3, <2>1, <2>3, <2>4, <2>5, WorkHolds DEF IntakeInv, TypeInv, ResultsInv
<1> QED
  BY <1>5, <1>6, <1>7, <1>8

\* Executing the grant.  Only `hard_down' outlasts the first attempt, and then the
\* provider has accepted nothing.
LEMMA ExecuteHolds == ASSUME IntakeInv, Execute \/ Send PROVE IntakeInv'
<1>1. call.at \in {"execute", "send"} /\ desk.alive
  BY DEF Execute, Send, IntakeInv, HandInv
<1>2. PICK p \in Payments : p = call.payment
  BY <1>1, AtWork
<1>3. /\ call \in Calls /\ grants \in [Payments -> Grants] /\ provider \in Providers
      /\ call.tries \in Nat
  BY DEF IntakeInv, TypeInv, Calls
<1>4. CASE Execute
  <2>1. /\ grants' = [grants EXCEPT ![p].state = "EXECUTING"]
        /\ call' = [call EXCEPT !.at = "send"]
        /\ UNCHANGED <<attempts, desk, hook, customer, outcomes, provider>>
    BY <1>2, <1>4 DEF Execute, Step, gateway
  <2>2. /\ grants' \in [Payments -> Grants] /\ grants'[p].state = "EXECUTING"
        /\ \A q \in Payments \ {p} : grants'[q] = grants[q]
    BY <1>3, <2>1 DEF Grants, States
  <2>3. /\ call' \in Calls /\ call'.payment = call.payment /\ call'.by = call.by
        /\ call'.at = "send"
    BY <1>3, <2>1 DEF Calls, Places
  <2>4. HandInv'
    BY <1>1, <1>2, <2>1, <2>2, <2>3 DEF IntakeInv, HandInv, Known, Untouched
  <2> QED
    BY <1>1, <1>2, <1>3, <2>1, <2>2, <2>3, <2>4, WorkHolds DEF IntakeInv, TypeInv, ResultsInv
<1>5. CASE Send
  <2>1. /\ UNCHANGED <<attempts, desk, hook, customer, grants, outcomes>>
        /\ \/ /\ p \notin provider.accepted /\ Takes
              /\ provider' = [provider EXCEPT !.accepted = @ \cup {p}, !.sent[p] = @ + 1]
           \/ (p \in provider.accepted \/ ~Takes) /\ provider' = provider
        /\ \/ /\ p \in provider.accepted \/ ~TimesOut
              /\ call' = [call EXCEPT !.at = "confirm"]
           \/ call' = [call EXCEPT !.tries = @ + 1]
           \/ /\ p \notin provider.accepted /\ TimesOut /\ ~(call.tries + 1 < MaxAttempts)
              /\ call' = [call EXCEPT !.at = "rollback"]
    BY <1>2, <1>5 DEF Send, Step, gateway, AlreadyAccepted
  <2>2. /\ call' \in Calls /\ call'.payment = call.payment /\ call'.by = call.by
        /\ call'.at \in {"send", "confirm", "rollback"}
    BY <1>1, <1>3, <1>5, <2>1 DEF Calls, Places, Send
  <2>3. provider.sent[p] = IF p \in provider.accepted THEN 1 ELSE 0
    BY <1>2 DEF IntakeInv, ResultsInv
  <2>4. /\ provider' \in Providers
        /\ \A q \in Payments \ {p} : /\ q \in provider'.accepted <=> q \in provider.accepted
                                     /\ provider'.sent[q] = provider.sent[q]
        /\ provider'.sent[p] = IF p \in provider'.accepted THEN 1 ELSE 0
        /\ (p \in provider'.accepted) <=> (p \in provider.accepted \/ Takes)
    <3>1. CASE /\ p \notin provider.accepted /\ Takes
               /\ provider' = [provider EXCEPT !.accepted = @ \cup {p}, !.sent[p] = @ + 1]
      <4>1. provider.sent \in [Payments -> Nat] /\ provider.accepted \subseteq Payments
        BY <1>3 DEF Providers
      <4>2. /\ provider'.accepted = provider.accepted \cup {p}
            /\ provider'.sent = [provider.sent EXCEPT ![p] = @ + 1]
            /\ provider' \in Providers
        <5> DEFINE taken == provider.accepted \cup {p}
                   counted == [provider.sent EXCEPT ![p] = @ + 1]
        <5>1. taken \subseteq Payments /\ counted \in [Payments -> Nat]
          BY <4>1
        <5>2. provider' = [provider EXCEPT !.accepted = taken, !.sent = counted]
          BY <3>1
        <5> HIDE DEF taken, counted
        <5> QED
          BY <1>3, <5>1, <5>2 DEF Providers, taken, counted
      <4>3. \A q \in Payments \ {p} : /\ q \in provider'.accepted <=> q \in provider.accepted
                                       /\ provider'.sent[q] = provider.sent[q]
        BY <4>1, <4>2
      <4>4. p \in provider'.accepted /\ provider'.sent[p] = 1
        BY <2>3, <3>1, <4>1, <4>2
      <4> QED
        BY <3>1, <4>2, <4>3, <4>4
    <3>2. CASE (p \in provider.accepted \/ ~Takes) /\ provider' = provider
      BY <1>3, <2>3, <3>2
    <3> QED
      BY <2>1, <3>1, <3>2
  <2>5. call'.at = "confirm" => p \in provider'.accepted
    BY <1>1, <1>3, <1>5, <2>1, <2>4 DEF Takes, Calls, Send
  <2>6. call'.at = "rollback" => p \notin provider'.accepted
    <3>1. ASSUME call'.at = "rollback"
          PROVE  p \notin provider.accepted /\ TimesOut /\ ~(call.tries + 1 < MaxAttempts)
      BY <1>3, <1>5, <2>1, <3>1 DEF Calls, Send
    <3>2. ASSUME TimesOut, ~(call.tries + 1 < MaxAttempts)
          PROVE  ~Takes
      <4>1. call.tries # 0
        BY <3>2, IntakeAssumption
      <4> QED
        BY <3>2, <4>1 DEF Takes, TimesOut
    <3> QED
      BY <2>4, <3>1, <3>2
  <2>7. HandInv'
    BY <1>1, <1>2, <1>5, <2>1, <2>2, <2>5, <2>6 DEF IntakeInv, HandInv, Known, Untouched, Send
  <2> QED
    BY <1>1, <1>2, <1>3, <2>1, <2>2, <2>4, <2>7, WorkHolds DEF IntakeInv, TypeInv
<1> QED
  BY <1>4, <1>5

LEMMA SettleHolds ==
  ASSUME IntakeInv,
         \/ Settle("confirm", "CONFIRMED", "GRANTED")
         \/ Settle("rollback", "ROLLED_BACK", "ROLLED_BACK")
  PROVE  IntakeInv'
<1>1. call.at \notin {"free", "link"} /\ call.at \in {"confirm", "rollback"}
  BY DEF Settle
<1>2. PICK p \in Payments : p = call.payment
  BY <1>1, AtWork
<1>3. /\ provider' = [provider EXCEPT !.mode = "none"] /\ UNCHANGED <<attempts, customer>>
      /\ provider \in Providers /\ grants \in [Payments -> Grants]
  BY DEF Settle, gateway, IntakeInv, TypeInv
<1>4. /\ provider' \in Providers /\ provider'.accepted = provider.accepted
      /\ provider'.sent = provider.sent
  BY <1>3 DEF Providers
<1>5. ASSUME NEW state \in {"CONFIRMED", "ROLLED_BACK"},
             grants' = [grants EXCEPT ![p].state = state]
      PROVE  /\ grants' \in [Payments -> Grants] /\ grants'[p].state = state
             /\ \A q \in Payments \ {p} : grants'[q] = grants[q]
  BY <1>3, <1>5 DEF Grants, States
<1>6. CASE Settle("confirm", "CONFIRMED", "GRANTED")
  <2>1. /\ grants' = [grants EXCEPT ![p].state = "CONFIRMED"] /\ Finish(call.payment, "GRANTED")
        /\ call.payment \in provider.accepted
    BY <1>2, <1>6 DEF Settle, IntakeInv, HandInv
  <2> QED
    BY <1>1, <1>2, <1>3, <1>4, <1>5, <2>1, FinishHolds DEF Outcomes
<1>7. CASE Settle("rollback", "ROLLED_BACK", "ROLLED_BACK")
  <2>1. /\ grants' = [grants EXCEPT ![p].state = "ROLLED_BACK"]
        /\ Finish(call.payment, "ROLLED_BACK") /\ call.payment \notin provider.accepted
    BY <1>2, <1>7 DEF Settle, IntakeInv, HandInv
  <2> QED
    BY <1>1, <1>2, <1>3, <1>4, <1>5, <2>1, FinishHolds DEF Outcomes
<1> QED
  BY <1>6, <1>7

LEMMA IntakeStep == IntakeInv /\ [Next]_vars => IntakeInv'
<1> SUFFICES ASSUME IntakeInv, [Next]_vars PROVE IntakeInv'
  OBVIOUS
<1>1. CASE Start \/ Reset
  BY <1>1, EmptiedHolds
<1>2. CASE \/ Pay \/ CreateLinkFails \/ \E ref \in References : CreateLink(ref)
           \/ \E mode \in Modes : Arm(mode)
           \/ \E p \in Payments : Deliver(p)
           \/ UNCHANGED vars
  BY <1>2, AroundHolds
<1>3. CASE TakeDelivery \/ Poll \/ LookUp \/ LookUpFails \/ ConnectionLost
  BY <1>3, TakeDeliveryHolds, LookUpHolds, CallEndsHolds
<1>4. CASE Load \/ Defer \/ Deny \/ GrantIt \/ Execute \/ Send
  BY <1>4, LoadHolds, MediateHolds, ExecuteHolds
<1>5. CASE \/ Settle("confirm", "CONFIRMED", "GRANTED")
           \/ Settle("rollback", "ROLLED_BACK", "ROLLED_BACK")
  BY <1>5, SettleHolds
<1> QED
  BY <1>1, <1>2, <1>3, <1>4, <1>5 DEF Next

LEMMA IntakeInvHolds == Spec => []IntakeInv
  BY IntakeInit, IntakeStep, PTL DEF Spec

\* However often a failed payment is reported, by webhook under either key or by a
\* poll, and whatever the provider does with an attempt, one message goes out about
\* it, and only about a payment that failed.
THEOREM OneMessage == Spec => []OneMessagePerPayment
<1>1. IntakeInv => OneMessagePerPayment
  BY DEF IntakeInv, ResultsInv, OneMessagePerPayment
<1> QED
  BY <1>1, IntakeInvHolds, PTL

\* What the operator is told of a payment is what became of its grant and of its
\* message; nothing became of a payment that nobody was told about, unless it is in
\* hand or the connection was lost over it; and no webhook key is remembered before
\* its payment has an outcome.
THEOREM OutcomesTrue == Spec => []OutcomesHold
<1>1. IntakeInv => OutcomesHold
  BY DEF IntakeInv, KeysInv, ResultsInv, OutcomesHold, Untouched
<1> QED
  BY <1>1, IntakeInvHolds, PTL

-----------------------------------------------------------------------------
(* The contact budget. *)

Live(q) == grants[q].state \in {"RESERVED", "EXECUTING", "CONFIRMED"}

\* The contacts of q's customer from q's on, for a time len.
Since(q, len) ==
  {r \in Contacts(customer[q]) : /\ grants[q].send <= grants[r].send
                                 /\ grants[r].send < grants[q].send + len}

CapsInv ==
  \A q \in Payments : Live(q) => /\ Cardinality(Since(q, DayLen)) <= Cap24H
                                 /\ Cardinality(Since(q, WeekDays * DayLen)) <= Cap7D

\* What is counted of a finite set is at most what is counted of a larger one.
LEMMA Fewer ==
  ASSUME NEW A, NEW B, A \subseteq B, B \subseteq Payments
  PROVE  /\ IsFiniteSet(A) /\ IsFiniteSet(B)
         /\ Cardinality(A) \in Nat /\ Cardinality(B) \in Nat
         /\ Cardinality(A) <= Cardinality(B)
<1>1. IsFiniteSet(B)
  BY FS_Subset, IntakeAssumption
<1>2. IsFiniteSet(A)
  BY <1>1, FS_Subset
<1> QED
  BY <1>1, <1>2, FS_Subset, FS_CardinalityType

\* A contact that is only given up, or confirmed, is counted nowhere anew.
LEMMA CapsKept ==
  ASSUME IntakeInv, IntakeInv', CapsInv,
         \A q \in Payments : Live(q)' => /\ Live(q) /\ customer'[q] = customer[q]
                                         /\ grants'[q].send = grants[q].send
  PROVE  CapsInv'
<1> SUFFICES ASSUME NEW q \in Payments, Live(q)'
             PROVE  /\ Cardinality(Since(q, DayLen)') <= Cap24H
                    /\ Cardinality(Since(q, WeekDays * DayLen)') <= Cap7D
  BY DEF CapsInv, DayLen
<1>1. ASSUME NEW len PROVE Since(q, len)' \subseteq Since(q, len)
  BY DEF Since, Contacts, Live
<1>2. ASSUME NEW len, NEW cap \in Nat, Cardinality(Since(q, len)) <= cap
      PROVE  Cardinality(Since(q, len)') <= cap
  <2>1. Since(q, len) \subseteq Payments
    BY DEF Since, Contacts
  <2>2. /\ Cardinality(Since(q, len)') \in Nat /\ Cardinality(Since(q, len)) \in Nat
        /\ Cardinality(Since(q, len)') <= Cardinality(Since(q, len))
    BY <1>1, <2>1, Fewer
  <2> QED
    BY <1>2, <2>2
<1> QED
  BY <1>2, IntakeAssumption DEF CapsInv

\* A contact that is granted: what is counted from it on, and from an earlier one that
\* now has one more, lies after the cap's look back from the opening of its window.
LEMMA CapsGranted ==
  ASSUME IntakeInv, IntakeInv', CapsInv, GrantIt
  PROVE  CapsInv'
<1>1. PICK p \in Payments : p = call.payment
  BY AtWork DEF GrantIt, Mediating
<1> DEFINE s == call.send
           decision == OpeningOf(WindowOf(s))
<1>2. /\ grants \in [Payments -> Grants] /\ s \in Nat /\ ~Live(p)
      /\ grants' = [grants EXCEPT ![p] = [state |-> "RESERVED", send |-> s]]
      /\ customer' = customer
      /\ BelowCaps(customer[p], WindowOf(s))
  BY <1>1 DEF GrantIt, Mediating, Admissible, IntakeInv, TypeInv, Calls, HandInv, NoGrant, Live
<1>3. /\ grants'[p].send = s /\ \A q \in Payments \ {p} : grants'[q] = grants[q]
      /\ \A q \in Payments : Live(q)' <=> Live(q) \/ q = p
  BY <1>2 DEF Live
<1>4. decision \in Nat /\ decision <= s
  BY <1>2 DEF OpeningOf, WindowOf, DayLen
<1>5. \A q \in Payments : grants[q].send \in Nat /\ grants'[q].send \in Nat
  BY <1>2, <1>3 DEF Grants
<1> DEFINE Near(len) == ContactsAfter(customer[p], decision - len, decision)
<1>6. ASSUME NEW len \in Nat \ {0}, NEW cap \in Nat, Cardinality(Near(len)) < cap,
             \A q \in Payments : Live(q) => Cardinality(Since(q, len)) <= cap,
             NEW q \in Payments, Live(q)'
      PROVE  Cardinality(Since(q, len)') <= cap
  <2>1. /\ Near(len) \subseteq Payments /\ Since(q, len) \subseteq Payments
        /\ Since(q, len)' \subseteq Payments
    BY DEF ContactsAfter, Since, Contacts
  <2>2. CASE p \in Since(q, len)'
    <3>1. ASSUME NEW r \in Since(q, len)', r # p PROVE r \in Near(len)
      <4>1. /\ r \in Contacts(customer[p]) /\ grants[q].send \in Nat
            /\ grants'[q].send <= grants[r].send
        <5>1. r \in Payments /\ Live(r)' /\ customer'[r] = customer'[q]
              /\ grants'[q].send <= grants'[r].send
          BY <3>1 DEF Since, Contacts, Live
        <5>2. customer'[p] = customer'[q]
          BY <2>2 DEF Since, Contacts
        <5>3. grants'[r] = grants[r] /\ Live(r)
          BY <1>3, <3>1, <5>1
        <5> QED
          BY <1>2, <1>5, <5>1, <5>2, <5>3 DEF Contacts, Live
      <4>2. s < grants'[q].send + len
        BY <1>3, <2>2 DEF Since
      <4>3. grants[r].send > decision - len
        BY <1>2, <1>4, <1>5, <2>1, <3>1, <4>1, <4>2
      <4> QED
        BY <4>1, <4>3 DEF ContactsAfter
    <3>2. Since(q, len)' \subseteq Near(len) \cup {p} /\ Near(len) \cup {p} \subseteq Payments
      BY <2>1, <3>1
    <3> HIDE DEF Near, s, decision
    <3>3. /\ IsFiniteSet(Near(len)) /\ Cardinality(Near(len)) \in Nat
          /\ Cardinality(Since(q, len)') \in Nat /\ Cardinality(Near(len) \cup {p}) \in Nat
          /\ Cardinality(Since(q, len)') <= Cardinality(Near(len) \cup {p})
      BY <2>1, <3>2, Fewer
    <3>4. Cardinality(Near(len) \cup {p}) <= Cardinality(Near(len)) + 1
      <4>1. Cardinality(Near(len) \cup {p})
              = IF p \in Near(len) THEN Cardinality(Near(len)) ELSE Cardinality(Near(len)) + 1
        BY <3>3, FS_AddElement, Zenon
      <4> QED
        BY <3>3, <4>1
    <3> QED
      BY <1>6, <3>3, <3>4
  <2>3. CASE p \notin Since(q, len)'
    <3>1. q # p
      BY <1>2, <1>3, <1>5, <2>3 DEF Since, Contacts, Live
    <3>2. Live(q) /\ Since(q, len)' \subseteq Since(q, len)
      BY <1>2, <1>3, <1>6, <2>1, <2>3, <3>1 DEF Since, Contacts, Live
    <3>3. Cardinality(Since(q, len)) <= cap
      BY <1>6, <3>2
    <3>4. /\ Cardinality(Since(q, len)') \in Nat /\ Cardinality(Since(q, len)) \in Nat
          /\ Cardinality(Since(q, len)') <= Cardinality(Since(q, len))
      BY <2>1, <3>2, Fewer
    <3> QED
      BY <3>3, <3>4
  <2> QED
    BY <2>2, <2>3
<1>7. /\ Cardinality(Near(DayLen)) < Cap24H /\ Cardinality(Near(WeekDays * DayLen)) < Cap7D
  BY <1>2 DEF BelowCaps
<1>8. DayLen \in Nat \ {0} /\ WeekDays * DayLen \in Nat \ {0} /\ Cap24H \in Nat /\ Cap7D \in Nat
  BY IntakeAssumption DEF DayLen
<1> HIDE DEF Near
<1>9. ASSUME NEW q \in Payments, Live(q)'
      PROVE  /\ Cardinality(Since(q, DayLen)') <= Cap24H
             /\ Cardinality(Since(q, WeekDays * DayLen)') <= Cap7D
  <2>1. \A x \in Payments : Live(x) => Cardinality(Since(x, DayLen)) <= Cap24H
    BY DEF CapsInv
  <2>2. \A x \in Payments : Live(x) => Cardinality(Since(x, WeekDays * DayLen)) <= Cap7D
    BY DEF CapsInv
  <2>3. Cardinality(Since(q, DayLen)') <= Cap24H
    BY <1>6, <1>7, <1>8, <1>9, <2>1
  <2>4. Cardinality(Since(q, WeekDays * DayLen)') <= Cap7D
    BY <1>6, <1>7, <1>8, <1>9, <2>2
  <2> QED
    BY <2>3, <2>4
<1> QED
  BY <1>9 DEF CapsInv, DayLen

\* No customer is contacted more often than the caps allow in any span of a day or of
\* a week, although payments come in in any order.
THEOREM ContactBudget == Spec => []ContactBudgetHolds
<1>1. Init => CapsInv
  BY DEF Init, CapsInv, Live, NoGrant
<1>2. IntakeInv /\ IntakeInv' /\ CapsInv /\ [Next]_vars => CapsInv'
  <2> SUFFICES ASSUME IntakeInv, IntakeInv', CapsInv, [Next]_vars PROVE CapsInv'
    OBVIOUS
  <2>1. CASE GrantIt
    BY <2>1, CapsGranted
  <2>2. ASSUME UNCHANGED <<customer, grants>> PROVE CapsInv'
    BY <2>2, CapsKept DEF Live
  <2>3. CASE Start \/ Reset
    BY <2>3, CapsKept DEF Start, Reset, EmptySchema, Live, NoGrant
  <2>4. CASE Load
    <3>1. PICK p \in Payments : /\ p = call.payment /\ ~Live(p) /\ grants' = grants
                                /\ \E c : customer' = [customer EXCEPT ![p] = c]
      <4>1. /\ call.at = "load" /\ desk.alive /\ grants' = grants
            /\ \E c : customer' = [customer EXCEPT ![call.payment] = c]
        BY <2>4 DEF Load
      <4>2. call.payment \in Payments /\ ~Live(call.payment)
        BY <4>1, AtWork DEF IntakeInv, HandInv, Untouched, NoGrant, Live
      <4> QED
        BY <4>1, <4>2
    <3> QED
      BY <3>1, CapsKept DEF Live, IntakeInv, TypeInv
  <2>5. ASSUME NEW at, NEW state, NEW outcome, Settle(at, state, outcome),
               at \in {"confirm", "rollback"}
        PROVE  CapsInv'
    <3>1. PICK p \in Payments : /\ p = call.payment /\ Live(p) /\ customer' = customer
                                /\ grants' = [grants EXCEPT ![p].state = state]
      BY <2>5, AtWork DEF Settle, IntakeInv, HandInv, Live
    <3>2. grants \in [Payments -> Grants]
      BY DEF IntakeInv, TypeInv
    <3>3. /\ grants'[p].send = grants[p].send
          /\ \A q \in Payments \ {p} : grants'[q] = grants[q]
      BY <3>1, <3>2 DEF Grants
    <3> QED
      BY <3>1, <3>3, CapsKept DEF Live
  <2>6. CASE Execute
    <3>1. PICK p \in Payments : /\ p = call.payment /\ Live(p) /\ customer' = customer
                                /\ grants' = [grants EXCEPT ![p].state = "EXECUTING"]
      BY <2>6, AtWork DEF Execute, IntakeInv, HandInv, Live
    <3>2. grants \in [Payments -> Grants]
      BY DEF IntakeInv, TypeInv
    <3>3. /\ grants'[p].send = grants[p].send
          /\ \A q \in Payments \ {p} : grants'[q] = grants[q]
      BY <3>1, <3>2 DEF Grants
    <3> QED
      BY <3>1, <3>3, CapsKept DEF Live
  <2>7. CASE UNCHANGED vars
    BY <2>2, <2>7 DEF vars, product
  <2>8. ASSUME NEW ref \in References, CreateLink(ref) PROVE CapsInv'
    BY <2>2, <2>8 DEF CreateLink, product
  <2>9. ASSUME NEW mode \in Modes, Arm(mode) PROVE CapsInv'
    BY <2>2, <2>9 DEF Arm
  <2>10. ASSUME NEW p \in Payments, Deliver(p) PROVE CapsInv'
    BY <2>2, <2>10 DEF Deliver, product
  <2>11. CASE \/ CreateLinkFails \/ Pay \/ TakeDelivery \/ Poll \/ LookUp \/ LookUpFails
              \/ ConnectionLost \/ Defer \/ Deny \/ Send
    BY <2>2, <2>11 DEF CreateLinkFails, Pay, TakeDelivery, Poll, LookUp, LookUpFails,
                       ConnectionLost, Defer, Deny, Send, product
  <2> QED
    BY <2>1, <2>3, <2>4, <2>5, <2>6, <2>7, <2>8, <2>9, <2>10, <2>11 DEF Next
<1>3. CapsInv => ContactBudgetHolds
  <2>1. ASSUME CapsInv, NEW c, NEW q \in Contacts(c)
        PROVE  /\ customer[q] = c
               /\ Cardinality(Since(q, DayLen)) <= Cap24H
               /\ Cardinality(Since(q, WeekDays * DayLen)) <= Cap7D
    BY <2>1 DEF CapsInv, Contacts, Live
  <2> QED
    BY <2>1 DEF ContactBudgetHolds, Since
<1> QED
  BY <1>1, <1>2, <1>3, IntakeInvHolds, PTL DEF Spec

-----------------------------------------------------------------------------
(* One row for everybody. *)

\* The id of a payment's own: its hashes or, if it has none, itself.
Row(p) == IF HashesOf[p] = {} THEN {<<"signal", p>>} ELSE {<<"hash", h>> : h \in HashesOf[p]}

\* Every payment is attributed to the row of itself or of one it shares a hash with.
RowsInv ==
  /\ \A p \in Payments :
       customer[p] # Nobody =>
         \E q \in Payments : /\ customer[p] = Row(q)
                             /\ p = q \/ HashesOf[p] \cap HashesOf[q] # {}
  /\ \A c, d \in Customers : c # d => c \cap d = {}

\* resolve_customer_ids of one signal by itself.
LEMMA OwnRow ==
  ASSUME NEW p \in Payments
  PROVE  OwnId[p] = Row(p)
<1> DEFINE H == [q \in {p} |-> HashesOf[q]]
           N == Nodes(H, p)
           fold == CHOOSE iter : iter = [s \in SUBSET {p} |->
                     IF s = {} THEN {}
                     ELSE Union(iter[s \ {CHOOSE x \in s : TRUE}],
                                Nodes(H, CHOOSE x \in s : TRUE))]
<1>1. ClassesOf(H) = fold[{p}]
  BY DEF ClassesOf, MapThenFoldSet
<1>2. Union({}, N) = {N}
  BY DEF Union
<1>3. fold[{p}] = {N}
  <2> DEFINE First(s) == CHOOSE x \in s : TRUE
             g == [s \in SUBSET {p} |-> IF s = {} THEN {} ELSE {N}]
             Folds(iter) == iter = [s \in SUBSET {p} |->
                              IF s = {} THEN {}
                              ELSE Union(iter[s \ {First(s)}], Nodes(H, First(s)))]
  <2>1. First({p}) = p /\ {p} \ {p} = {} /\ {} \in SUBSET {p} /\ {p} \in SUBSET {p}
    OBVIOUS
  <2>2. \A s \in SUBSET {p} : s # {} => s = {p}
    OBVIOUS
  <2>3. g[{}] = {} /\ g[{p}] = {N}
    BY <2>1
  <2> HIDE DEF N, First
  <2>4. \A s \in SUBSET {p} :
          (IF s = {} THEN {} ELSE {N})
            = IF s = {} THEN {} ELSE Union(g[s \ {First(s)}], Nodes(H, First(s)))
    <3>1. Union(g[{p} \ {First({p})}], Nodes(H, First({p}))) = {N}
      BY <1>2, <2>1, <2>3 DEF N
    <3> QED
      BY <2>2, <3>1
  <2>5. Folds(g)
    BY <2>4
  <2>6. fold = CHOOSE iter : Folds(iter)
    BY DEF First
  <2> HIDE DEF g, fold, Folds
  <2>7. Folds(fold)
    BY <2>5, <2>6, Zenon
  <2>8. fold[{}] = {}
    BY <2>1, <2>7 DEF Folds
  <2>9. fold[{p}] = Union(fold[{p} \ {First({p})}], Nodes(H, First({p})))
    BY <2>1, <2>7 DEF Folds
  <2> QED
    BY <1>2, <2>1, <2>8, <2>9 DEF N
<1>4. H[p] = HashesOf[p] /\ DOMAIN H = {p}
  OBVIOUS
<1>5. OwnId[p] = LET class == CHOOSE c \in {N} : <<"signal", p>> \in c
                     keys == {n \in class : n[1] = "hash"}
                 IN  IF keys # {} THEN keys ELSE class
  <2> DEFINE Id(P, s) == LET class == CHOOSE c \in P : <<"signal", s>> \in c
                             keys == {n \in class : n[1] = "hash"}
                         IN  IF keys # {} THEN keys ELSE class
  <2>1. CustomerIds(H) = [s \in DOMAIN H |-> Id(ClassesOf(H), s)]
    BY DEF CustomerIds
  <2>2. ClassesOf(H) = {N}
    BY <1>1, <1>3
  <2>3. OwnId[p] = CustomerIds(H)[p]
    BY DEF OwnId
  <2> HIDE DEF N, H
  <2>4. OwnId[p] = Id({N}, p)
    <3> HIDE DEF Id
    <3> QED
      BY <1>4, <2>1, <2>2, <2>3
  <2> QED
    BY <2>4
<1>6. (CHOOSE c \in {N} : <<"signal", p>> \in c) = N
  BY DEF Nodes
<1>7. N = {<<"signal", p>>} \cup {<<"hash", h>> : h \in HashesOf[p]}
  BY <1>4 DEF Nodes
<1>8. {n \in N : n[1] = "hash"} = {<<"hash", h>> : h \in HashesOf[p]}
  BY <1>7
<1> QED
  BY <1>5, <1>6, <1>7, <1>8 DEF Row

\* Two rows that have anything in common are of the same hashes, or the same row.
LEMMA RowsMeet ==
  ASSUME NEW p, NEW q, NEW n, n \in Row(p), n \in Row(q)
  PROVE  \/ p = q
         \/ \E h \in HashesOf[p] \cap HashesOf[q] : n = <<"hash", h>>
BY DEF Row

LEMMA LoadRows ==
  ASSUME IntakeInv, RowsInv, Load
  PROVE  RowsInv'
<1>1. PICK p \in Payments : p = call.payment
  BY AtWork DEF Load
<1>2. /\ customer[p] = Nobody /\ DOMAIN customer = Payments
  BY <1>1 DEF Load, IntakeInv, TypeInv, HandInv, Untouched
<1>3. PICK c \in IF Matching(p) = {} THEN {OwnId[p]} ELSE Matching(p) :
        customer' = [customer EXCEPT ![p] = c]
  BY <1>1 DEF Load
<1>4. /\ customer'[p] = c /\ \A q \in Payments \ {p} : customer'[q] = customer[q]
      /\ Customers' \subseteq Customers \cup {c}
  BY <1>2, <1>3 DEF Customers
<1>5. CASE Matching(p) # {}
  <2>1. c \in Customers
    BY <1>3, <1>5 DEF Matching
  <2>2. PICK h \in HashesOf[p] : <<"hash", h>> \in c
    BY <1>3, <1>5 DEF Matching
  <2>3. PICK q \in Payments : c = Row(q)
    BY <2>1 DEF RowsInv, Customers
  <2>4. h \in HashesOf[q]
    BY <2>2, <2>3 DEF Row
  <2>5. \A a, b \in Customers' : a # b => a \cap b = {}
    BY <1>4, <2>1 DEF RowsInv
  <2> QED
    BY <1>4, <2>2, <2>3, <2>4, <2>5 DEF RowsInv
<1>6. CASE Matching(p) = {}
  <2>1. c = Row(p)
    BY <1>3, <1>6, OwnRow
  <2>2. ASSUME NEW d \in Customers, d # c PROVE d \cap c = {}
    <3>1. PICK q \in Payments : d = Row(q)
      BY DEF RowsInv, Customers
    <3>2. SUFFICES ASSUME NEW n \in d \cap c PROVE FALSE
      OBVIOUS
    <3>3. PICK h \in HashesOf[p] : n = <<"hash", h>>
      BY <2>1, <2>2, <3>1, RowsMeet
    <3> QED
      BY <1>6, <3>3 DEF Matching
  <2>3. \A a, b \in Customers' : a # b => a \cap b = {}
    BY <1>4, <2>2 DEF RowsInv
  <2> QED
    BY <1>4, <2>1, <2>3 DEF RowsInv
<1> QED
  BY <1>5, <1>6

LEMMA RowsStep == IntakeInv /\ RowsInv /\ [Next]_vars => RowsInv'
<1> SUFFICES ASSUME IntakeInv, RowsInv, [Next]_vars PROVE RowsInv'
  OBVIOUS
<1>1. CASE Load
  BY <1>1, LoadRows
<1>2. ASSUME UNCHANGED customer PROVE RowsInv'
  BY <1>2 DEF RowsInv, Customers
<1>3. CASE Start \/ Reset
  <2>1. customer' = [p \in Payments |-> Nobody]
    BY <1>3 DEF Start, Reset, EmptySchema
  <2>2. Customers' = {}
    BY <2>1 DEF Customers
  <2> QED
    BY <2>1, <2>2 DEF RowsInv
<1>4. ASSUME Next, ~Load, ~Start, ~Reset PROVE UNCHANGED customer
  BY <1>4
  DEF Next, CreateLinkFails, Pay, CreateLink, Arm, Deliver, TakeDelivery, Poll, LookUp,
      LookUpFails, ConnectionLost, Defer, Deny, GrantIt, Execute, Send, Settle, product
<1>5. CASE UNCHANGED vars
  BY <1>2, <1>5 DEF vars, product
<1> QED
  BY <1>1, <1>2, <1>3, <1>4, <1>5

\* No hash is recorded in two rows, whatever order the payments come in, and two
\* payments attributed to one row are one person's, of however many payments and hashes.
THEOREM RowsApart == Spec => []RowsKeptApart
<1>1. Init => RowsInv
  <2> SUFFICES ASSUME Init PROVE RowsInv
    OBVIOUS
  <2>1. customer = [p \in Payments |-> Nobody]
    BY DEF Init
  <2>2. Customers = {}
    BY <2>1 DEF Customers
  <2> QED
    BY <2>1, <2>2 DEF RowsInv
<1>2. RowsInv => RowsKeptApart
  <2> SUFFICES ASSUME RowsInv PROVE RowsKeptApart
    OBVIOUS
  <2>1. ASSUME NEW p \in Payments, NEW q \in Payments, customer[p] # Nobody,
               customer[p] = customer[q], NEW S \in SUBSET Payments, p \in S,
               ClosedUnderSharing(HashesOf, S)
        PROVE  q \in S
    <3>1. PICK a \in Payments : /\ customer[p] = Row(a)
                                /\ p = a \/ HashesOf[p] \cap HashesOf[a] # {}
      BY <2>1 DEF RowsInv
    <3>2. PICK b \in Payments : /\ customer[q] = Row(b)
                                /\ q = b \/ HashesOf[q] \cap HashesOf[b] # {}
      BY <2>1 DEF RowsInv
    <3>3. Row(a) = Row(b) /\ Row(a) # {}
      BY <2>1, <3>1, <3>2 DEF Nobody
    <3>4. PICK n : n \in Row(a) /\ n \in Row(b)
      BY <3>3
    <3>5. a = b \/ HashesOf[a] \cap HashesOf[b] # {}
      BY <3>4, RowsMeet
    <3>6. \A x, y \in Payments : x \in S /\ HashesOf[x] \cap HashesOf[y] # {} => y \in S
      BY <2>1, IntakeAssumption DEF ClosedUnderSharing
    <3>7. a \in S
      BY <2>1, <3>1, <3>6
    <3>8. b \in S
      BY <3>5, <3>6, <3>7
    <3> QED
      BY <3>2, <3>6, <3>8
  <2>2. DOMAIN HashesOf = Payments
    BY IntakeAssumption
  <2>3. ASSUME NEW p \in Payments, NEW q \in Payments, customer[p] # Nobody,
               customer[p] = customer[q]
        PROVE  q \in SamePerson[p]
    BY <2>1, <2>2, <2>3 DEF SamePerson, OnePerson
  <2>4. ASSUME NEW p \in Payments, NEW q \in Payments, customer[p] \cap customer[q] # {}
        PROVE  customer[p] = customer[q] /\ customer[p] # Nobody
    <3>1. customer[p] # Nobody /\ customer[q] # Nobody
      BY <2>4 DEF Nobody
    <3>2. customer[p] \in Customers /\ customer[q] \in Customers
      BY <3>1 DEF Customers
    <3> QED
      BY <2>4, <3>1, <3>2 DEF RowsInv
  <2> QED
    BY <2>3, <2>4 DEF RowsKeptApart
<1> QED
  BY <1>1, <1>2, IntakeInvHolds, RowsStep, PTL DEF Spec
=============================================================================
