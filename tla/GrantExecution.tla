--------------------------- MODULE GrantExecution ---------------------------
(***************************************************************************)
(* How a committed grant is carried out: the execution half of             *)
(* sampark/demo/runner.py (razorpay_product.py is the same), the provider  *)
(* of sampark/demo/provider.py, and the lifecycle calls of                 *)
(* sampark/budget/postgres_ledger.py taken apart into the statements they  *)
(* send.  The connection is in autocommit, so every UPDATE commits by      *)
(* itself: other callers may be issued grants between two of them, and a   *)
(* lost connection may leave some of them undone.                          *)
(***************************************************************************)
EXTENDS Integers, Sequences, FiniteSetsExt

CONSTANTS
  Requests, Customers, CustomerOf, RequestedCeiling, Windows, DayLen, OpenAt,
  CloseAt, WeekDays, Cap24H, Cap7D, GrantTTL, MerchantBudget, CustomerBudget,
  Instants,       \* all as in ContactLedger
  MaxAttempts,    \* MAX_ATTEMPTS of the provider
  ScriptedWindow, \* SCRIPTED_PROVIDER_FAILURE_WINDOW
  NoRequest

ASSUME AttemptsAssumption == MaxAttempts \in Nat \ {0, 1} /\ NoRequest \notin Requests

ASSUME LedgerAssumption ==   \* those of ContactLedger
  /\ IsFiniteSet(Requests) /\ IsFiniteSet(Customers)
  /\ CustomerOf \in [Requests -> Customers]
  /\ RequestedCeiling \in [Requests -> Nat]
  /\ Windows \subseteq Nat /\ Instants \subseteq Nat
  /\ DayLen \in Nat /\ OpenAt \in Nat /\ CloseAt \in Nat
  /\ OpenAt < CloseAt /\ CloseAt <= DayLen
  /\ WeekDays \in Nat \ {0} /\ GrantTTL \in Nat \ {0}
  /\ Cap24H \in Nat /\ Cap7D \in Nat /\ MerchantBudget \in Nat
  /\ CustomerBudget \in [Customers -> Nat]

VARIABLES
  grants, merchant, customer,  \* the tables, as they are after each statement
  claims,     \* contact_slot_claims: the state of each grant's claim
  call,       \* the lifecycle call in progress: which, about what, how far
  stage,      \* how far the runner is with the grant it is executing
  current,    \* the request whose grant that is, or NoRequest
  tries,      \* attempts of its send loop so far
  provider,   \* the provider: its armed failure, what it accepted and sent
  pending,    \* chaos.pending_provider_mode, set by the chaos panel
  cut         \* history: a call was cut short, its database gone

tables == <<grants, merchant, customer, claims>>
runner == <<call, stage, current, tries>>
vars == <<tables, runner, provider, pending, cut>>

-----------------------------------------------------------------------------
(* The statements of each lifecycle call. *)

Target == [execute |-> "EXECUTING", confirm |-> "CONFIRMED",
           rollback |-> "ROLLED_BACK", expire |-> "EXPIRED"]
Ops == DOMAIN Target

From == [execute |-> {"RESERVED"}, confirm |-> {"EXECUTING"},
         rollback |-> {"RESERVED", "EXECUTING"}, expire |-> {"RESERVED"}]

\* Mistake: the pools are released before the grant and its claim.
PoolsFirst(op) ==
  IF op = "execute" THEN <<"grants", "claims">>
  ELSE <<"merchant", "customer", "grants", "claims">>

Statements(op) ==
  IF op = "execute" THEN <<"grants", "claims">>
  ELSE <<"grants", "claims", "merchant", "customer">>

NoCall == [op |-> "none", request |-> NoRequest, done |-> 0, spend |-> 0]
Calls == {NoCall} \cup [op : Ops, request : Requests, done : 0..4, spend : Nat]

\* The statements of the call in progress that have not been sent.
Unsent ==
  IF call.op = "none" THEN {}
  ELSE {Statements(call.op)[i] : i \in (call.done + 1)..Len(Statements(call.op))}

Settled(pool) == [reserved |-> pool.reserved - grants[call.request].ceiling,
                  spent |-> pool.spent + call.spend]

SettleMerchant(pools) == [pools EXCEPT ![grants[call.request].window] = Settled(@)]
SettleCustomer(pools) ==
  [pools EXCEPT ![CustomerOf[call.request]][grants[call.request].window] = Settled(@)]

Tables == INSTANCE ContactLedger

\* The abstract ledger makes the whole call in its first statement, so what the
\* others will still do to the pools is done there already.
Ledger == INSTANCE ContactLedger WITH
  merchant <- IF "grants" \notin Unsent /\ "merchant" \in Unsent
              THEN SettleMerchant(merchant) ELSE merchant,
  customer <- IF "grants" \notin Unsent /\ "customer" \in Unsent
              THEN SettleCustomer(customer) ELSE customer

HoldsSlot(r) == claims[r] \in Tables!CapacityConsuming

Modes == {"none", "timeout_then_success", "accept_then_timeout", "hard_down"}
Providers == [mode : Modes, target : Requests \cup {NoRequest},
              attempts : [Requests -> 0..MaxAttempts],
              accepted : SUBSET Requests, sent : [Requests -> Nat]]
Stages == {"rest", "script", "chaos", "clear", "send", "disarm"}
Resting == stage = "rest" /\ current = NoRequest /\ tries = 0

-----------------------------------------------------------------------------
Init ==
  /\ Tables!Init
  /\ claims = [r \in Requests |-> "none"]
  /\ call = NoCall /\ Resting
  /\ provider = [mode |-> "none", target |-> NoRequest,
                 attempts |-> [r \in Requests |-> 0], accepted |-> {},
                 sent |-> [r \in Requests |-> 0]]
  /\ pending = "unset"
  /\ cut = FALSE

\* An issuance transaction commits (GrantIssuance).  The index that keeps the
\* slot is over the claims, so it is they that are asked here as well.
Issue(r, w, s, ask) ==
  /\ ~\E q \in Requests : /\ CustomerOf[q] = CustomerOf[r] /\ grants[q].window = w
                          /\ HoldsSlot(q)
  /\ Tables!Issue(r, w, s, ask)
  /\ claims' = [claims EXCEPT ![r] = "RESERVED"]
  /\ UNCHANGED <<runner, provider, pending>>

\* A lifecycle call reads the grant.  A grant that is there already makes it a
\* no-op, an illegal transition is refused; the runner never asks for one.
Begin(op, r, spend) ==
  /\ call = NoCall
  /\ grants[r].state \in From[op]
  /\ call' = [op |-> op, request |-> r, done |-> 0, spend |-> spend]

\* The next UPDATE of the call commits.
Statement ==
  LET r == call.request
      table == Statements(call.op)[call.done + 1]
  IN  /\ call.op # "none"
      /\ grants' = IF table = "grants"
                   THEN [grants EXCEPT ![r].state = Target[call.op]] ELSE grants
      /\ claims' = IF table = "claims"
                   THEN [claims EXCEPT ![r] = Target[call.op]] ELSE claims
      /\ merchant' = IF table = "merchant" THEN SettleMerchant(merchant) ELSE merchant
      /\ customer' = IF table = "customer" THEN SettleCustomer(customer) ELSE customer
      /\ call' = IF call.done + 1 = Len(Statements(call.op)) THEN NoCall
                 ELSE [call EXCEPT !.done = @ + 1]
      /\ UNCHANGED <<stage, current, tries, provider, pending>>

-----------------------------------------------------------------------------
(* The runner. *)

At(s) == call = NoCall /\ stage = s
Idle == At("rest")
Rest == stage' = "rest" /\ current' = NoRequest /\ tries' = 0

\* _execute_grant of a granted decision: execute_grant is called.
StartExecution(r) ==
  /\ Idle
  /\ Begin("execute", r, 0)
  /\ stage' = "script" /\ current' = r
  /\ UNCHANGED <<tables, tries, provider, pending>>

Arm(mode, r) == provider' = [provider EXCEPT !.mode = mode, !.target = r]

\* The scripted failure of one window, unless something else will fail or has.
Scripted == /\ grants[current].window = ScriptedWindow
            /\ provider.mode = "none" /\ pending = "unset"
            /\ \A r \in Requests : grants[r].state # "ROLLED_BACK"

ArmScripted ==
  /\ At("script")
  /\ IF Scripted THEN Arm("hard_down", current) ELSE UNCHANGED provider
  /\ stage' = "chaos"
  /\ UNCHANGED <<tables, call, current, tries, pending>>

\* The failure asked for on the chaos panel is armed for this grant, and the
\* request for it is forgotten in a statement of its own.
ArmPending ==
  /\ At("chaos")
  /\ IF pending = "unset"
     THEN stage' = "send" /\ UNCHANGED provider
     ELSE stage' = "clear" /\ Arm(pending, current)
  /\ UNCHANGED <<tables, call, current, tries, pending>>

ClearPending ==
  /\ At("clear")
  /\ pending' = "unset" /\ stage' = "send"
  /\ UNCHANGED <<tables, call, current, tries, provider>>

Applies == provider.mode # "none" /\ provider.target \in {NoRequest, current}

Attempt == provider.attempts[current] + 1

\* provider.send raises ProviderTimeout.
TimesOut ==
  /\ Applies /\ current \notin provider.accepted
  /\ provider.mode = "hard_down" \/ Attempt = 1

SendTimesOut ==
  /\ At("send") /\ tries < MaxAttempts /\ TimesOut
  /\ LET accepts == provider.mode = "accept_then_timeout"
     IN  provider' = [provider EXCEPT
           !.attempts[current] = Attempt,
           !.accepted = IF accepts THEN @ \cup {current} ELSE @,
           !.sent[current] = IF accepts THEN @ + 1 ELSE @]
  /\ tries' = tries + 1
  /\ UNCHANGED <<tables, call, stage, current, pending>>

Disarmed == [provider EXCEPT !.mode = "none", !.target = NoRequest]

\* Mistake: a second attempt sends again whatever the first one did.
Resend == [Disarmed EXCEPT !.attempts[current] = Attempt,
                           !.accepted = @ \cup {current},
                           !.sent[current] = @ + 1]

\* Mistake: a retry that gets through leaves the failure armed.
StillArmed == [provider EXCEPT
  !.attempts[current] = Attempt,
  !.accepted = @ \cup {current},
  !.sent[current] = IF current \in provider.accepted THEN @ ELSE @ + 1]

\* The receipt of a grant that was accepted before is returned as it is, before
\* any failure is looked at; the runner then disarms the provider.
Deliver == [Disarmed EXCEPT
  !.attempts[current] = Attempt,
  !.accepted = @ \cup {current},
  !.sent[current] = IF current \in provider.accepted THEN @ ELSE @ + 1]

SendSucceeds ==
  /\ At("send") /\ tries < MaxAttempts /\ ~TimesOut
  /\ provider' = Deliver
  /\ Begin("confirm", current, grants[current].ceiling)
  /\ Rest
  /\ UNCHANGED <<tables, pending>>

\* Mistake: the grant that could not be sent is left as it is.
GiveUpQuietly ==
  /\ At("send") /\ tries = MaxAttempts
  /\ stage' = "disarm"
  /\ UNCHANGED <<tables, call, current, tries, provider, pending>>

\* Every attempt timed out: compensate.
GiveUp ==
  /\ At("send") /\ tries = MaxAttempts
  /\ Begin("rollback", current, 0)
  /\ stage' = "disarm"
  /\ UNCHANGED <<tables, current, tries, provider, pending>>

Disarm ==
  /\ At("disarm")
  /\ provider' = Disarmed
  /\ Rest
  /\ UNCHANGED <<tables, call, pending>>

Run == \/ \E r \in Requests : StartExecution(r)
       \/ Statement \/ ArmScripted \/ ArmPending \/ ClearPending
       \/ SendTimesOut \/ SendSucceeds \/ GiveUp \/ Disarm

-----------------------------------------------------------------------------
(* The others. *)

\* expire_grant of a grant whose TTL has passed; nothing in the program calls it.
StartExpire(r, now) ==
  /\ Idle /\ grants[r].expiresAt < now
  /\ Begin("expire", r, 0)
  /\ UNCHANGED <<tables, stage, current, tries, provider, pending>>

\* The chaos panel of the demo, from another thread.
Press(mode) ==
  /\ pending' = mode
  /\ UNCHANGED <<tables, runner, provider>>

\* The product's operator, under the lock that no execution holds: the next
\* send fails, whichever it is.
ArmNext(mode) ==
  /\ Idle
  /\ Arm(mode, NoRequest)
  /\ UNCHANGED <<tables, runner, pending>>

\* A statement raises because the database is gone, and the exception ends the
\* execution where it is: the runner is `failed', and the call is not repeated.
\* The tables keep the statements that were committed.
Lose ==
  /\ ~Idle
  /\ call' = NoCall /\ Rest
  /\ UNCHANGED <<tables, provider, pending>>

Work ==
  \/ \E r \in Requests, w \in Windows :
       \E s \in Tables!SendTimes(w), ask \in 0..RequestedCeiling[r] : Issue(r, w, s, ask)
  \/ Run
  \/ \E r \in Requests, now \in Instants : StartExpire(r, now)
  \/ \E mode \in Modes : Press(mode) \/ ArmNext(mode)

Next == \/ Work /\ UNCHANGED cut
        \/ Lose /\ cut' = TRUE

Spec == Init /\ [][Next]_vars

\* The runner is one thread that waits for nobody.
FairSpec == Spec /\ WF_vars(Run /\ UNCHANGED cut)

-----------------------------------------------------------------------------
(* Correctness. *)

\* The variables hold what the columns and the fields of the program can hold.
TypeOK ==
  /\ Tables!TypeOK
  /\ claims \in [Requests -> Tables!GrantStates \cup {"none"}]
  /\ call \in Calls
  /\ stage \in Stages /\ current \in Requests \cup {NoRequest} /\ tries \in 0..MaxAttempts
  /\ (current = NoRequest) = (stage = "rest")
  /\ provider \in Providers
  /\ pending \in Modes \cup {"unset"}
  /\ cut \in BOOLEAN

\* As long as no call is cut short, its four separate UPDATEs are to everybody
\* else the single atomic call of the in-memory ledger, although other requests
\* are issued grants between them: the pools only ever look fuller than they are.
ImplementsLedger == Ledger!Init /\ [][Ledger!Next \/ cut']_Ledger!vars

\* "No double-send": a customer is contacted once for a confirmed grant, never
\* for one that was rolled back or expired, and never twice, whichever failure
\* is armed before or while the grant is executed.
ContactedOnce ==
  \A r \in Requests :
    /\ provider.sent[r] <= 1
    /\ grants[r].state = "CONFIRMED" => provider.sent[r] = 1
    /\ grants[r].state \in {"ROLLED_BACK", "EXPIRED"} => provider.sent[r] = 0

\* A failure armed for one grant fails that grant only ("one visible rollback
\* instead of a cascade", provider.py): it is armed no longer than the runner is
\* busy with the grant, if the runner is not cut short.
FailureStaysWithItsGrant ==
  provider.mode # "none" => provider.target \in {NoRequest, current} \/ cut

\* Every grant the runner starts to execute is confirmed or rolled back, however
\* often failures are armed meanwhile, unless the connection is lost.
EveryExecutionSettles ==
  \A r \in Requests :
    grants[r].state = "EXECUTING" ~>
      (grants[r].state \in {"CONFIRMED", "ROLLED_BACK"} \/ cut)

\* A lost connection never oversells.  Wherever a call is cut short, a grant
\* that is live in the grants table still holds its claim on the slot, and the
\* pools still account for every paisa that was promised or spent.
Owed(r, w) == IF grants[r].window = w /\ grants[r].state \in Tables!CapacityConsuming
              THEN grants[r].ceiling ELSE 0
Held(pool) == pool.reserved + pool.spent

NeverOversold ==
  /\ \A r \in Requests :
       grants[r].state \in Tables!CapacityConsuming => HoldsSlot(r)
  /\ \A w \in Windows :
       /\ Held(merchant[w]) <= MerchantBudget
       /\ Held(merchant[w]) >= MapThenSumSet(LAMBDA r : Owed(r, w), Requests)
       /\ \A c \in Customers, r \in Requests :
            CustomerOf[r] = c => Held(customer[c][w]) >= Owed(r, w)

\* "Margin returns to the pool, contact slot is restored [...] no silently
\* burned budget" (SAMPARK-razorpay-buildathon-spec.md:566): a grant that was
\* rolled back by a call that is over holds neither slot nor customer margin.
NoBurnedBudget ==
  call = NoCall =>
    \A r \in Requests :
      LET c == CustomerOf[r]
          w == grants[r].window
      IN  grants[r].state = "ROLLED_BACK" =>
            /\ ~HoldsSlot(r)
            /\ (\A q \in Requests \ {r} : CustomerOf[q] = c => Owed(q, w) = 0)
                 => customer[c][w].reserved = 0

=============================================================================
