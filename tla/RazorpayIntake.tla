--------------------------- MODULE RazorpayIntake ---------------------------
(***************************************************************************)
(* From a failed Razorpay payment to a message and a settled grant:        *)
(* ui/razorpay_session.py and the routes of ui/routes_razorpay.py over     *)
(* sampark/demo/razorpay_product.py, with the gateway (RazorpayGateway)    *)
(* and identity resolution (IdentityResolution) they call.                 *)
(*                                                                         *)
(* A failed payment comes in by webhook, as often as Razorpay delivers it, *)
(* and by the operator's poll of the session's links.  The session's lock  *)
(* is held for the whole of a call; what happens meanwhile is that         *)
(* payments are made, a webhook handler waits for the lock, having looked  *)
(* at the session before, and the connection may be lost.                  *)
(***************************************************************************)
EXTENDS RazorpayGateway, IdentityResolution, Sequences, FiniteSetsExt

CONSTANTS
  HashesOf,     \* the hashes of phone and email a payment carries
  ArrivalOf,    \* when the agent's message about a payment is due
  Cap24H, Cap7D, WeekDays,
  MaxWindows,   \* MAX_WINDOWS of _mediate_forward
  MaxAttempts,  \* MAX_ATTEMPTS of the provider
  Anonymous,    \* bound: the payments whose deliveries may come without an event id
  Modes,        \* the provider failures that may be armed
  LinkOf,       \* bound: the reference of the link a payment is for
  Troubled,     \* bound: the sessions in which a provider failure is armed
  Sessions      \* bound: how many sessions are started

\* A day has three instants: 09:00, when its window opens; later in the day; and
\* the evening, in which quiet hours have begun.
DayLen == 3
WindowOf(t) == t \div DayLen
OpeningOf(w) == w * DayLen
QuietHours(t) == t % DayLen = 2

ASSUME IntakeAssumption ==
  /\ HashesOf \in [Payments -> SUBSET UNION {HashesOf[p] : p \in Payments}]
  /\ ArrivalOf \in [Payments -> Nat]
  /\ Modes \subseteq {"timeout_then_success", "accept_then_timeout", "hard_down"}
  /\ MaxWindows \in Nat \ {0} /\ MaxAttempts \in Nat \ {0, 1}
  /\ IsFiniteSet(Payments) /\ LinkOf \in [Payments -> References]
  /\ Cap24H \in Nat /\ Cap7D \in Nat /\ WeekDays \in Nat \ {0}

VARIABLES
  desk,      \* the session: which one, whether open, its links, its webhook keys
  call,      \* what the lock is held for
  hook,      \* the webhook handler that has looked at the session
  customer,  \* risk_items: the customer a payment was attributed to
  grants,    \* the grant of each payment
  outcomes,  \* _outcomes of the run
  provider   \* the run's provider

product == <<customer, grants, outcomes, provider>>
vars == <<gateway, desk, call, hook, product>>

Free == [by |-> "nobody", todo |-> <<>>, at |-> "free", payment |-> 0,
         steps |-> 0, send |-> 0, tries |-> 0]
NoHook == <<>>
Nobody == {}
NoGrant == [state |-> "none", send |-> 0]
FreshProvider == [mode |-> "none", accepted |-> {}, sent |-> [p \in Payments |-> 0]]

LockIsFree == call = Free

Init ==
  /\ GatewayInit
  /\ desk = [session |-> 0, open |-> FALSE, links |-> <<>>, seen |-> {}, alive |-> FALSE]
  /\ call = Free /\ hook = NoHook
  /\ customer = [p \in Payments |-> Nobody]
  /\ grants = [p \in Payments |-> NoGrant]
  /\ outcomes = [p \in Payments |-> "none"]
  /\ provider = FreshProvider

-----------------------------------------------------------------------------
(* The session. *)

EmptySchema ==
  /\ customer' = [p \in Payments |-> Nobody]
  /\ grants' = [p \in Payments |-> NoGrant]
  /\ outcomes' = [p \in Payments |-> "none"]
  /\ provider' = FreshProvider

\* start: what there was is torn down, and a new run prepared in a new schema.
Start ==
  /\ LockIsFree /\ desk.session < Sessions
  /\ desk' = [session |-> desk.session + 1, open |-> TRUE, links |-> <<>>,
              seen |-> {}, alive |-> TRUE]
  /\ EmptySchema
  /\ UNCHANGED <<gateway, call, hook>>

Reset ==
  /\ LockIsFree /\ desk.open
  /\ desk' = [desk EXCEPT !.open = FALSE, !.links = <<>>, !.seen = {}, !.alive = FALSE]
  /\ EmptySchema
  /\ UNCHANGED <<gateway, call, hook>>

\* The reference ids are random: the next one was not used before.  A link that
\* was created and not heard of is nobody's to pay.
Used == {desk.links[i].ref : i \in DOMAIN desk.links} \cup {attempts[p].ref : p \in Payments}
Fresh(ref) == ref \notin Used /\ \A r \in References : r < ref => r \in Used

\* create_payment_link
CreateLink(ref) ==
  /\ LockIsFree /\ desk.open /\ Fresh(ref)
  /\ \E via \in {"mcp", "rest"} :
       /\ IF via = "mcp" THEN CreatedViaMcp ELSE CreatedViaRest
       /\ desk' = [desk EXCEPT !.links = Append(@, [ref |-> ref, via |-> via])]
  /\ UNCHANGED <<mcp, attempts, call, hook, product>>

\* No transport could create it: the route answers 502.
CreateLinkFails ==
  /\ LockIsFree /\ desk.open
  /\ NoTransport
  /\ UNCHANGED <<mcp, attempts, desk, call, hook, product>>

\* arm_provider_failure
Arm(mode) ==
  /\ LockIsFree /\ desk.open /\ desk.session \in Troubled
  /\ provider' = [provider EXCEPT !.mode = mode]
  /\ UNCHANGED <<gateway, desk, call, hook, customer, grants, outcomes>>

\* A payer is shown the links of the session.  Of a call in progress only LookUp
\* can tell when a payment was made, so it is made before that or between calls.
Pay ==
  /\ LockIsFree \/ call.at = "link"
  /\ \E p \in Payments, i \in DOMAIN desk.links :
       desk.links[i].ref = LinkOf[p] /\ TryToPay(p, LinkOf[p])
  /\ UNCHANGED <<desk, call, hook, product>>

-----------------------------------------------------------------------------
(* The two ways in. *)

\* A delivery of the webhook carries the event's own id or, if it has none, a key
\* made from the payment.
Keys(p) == {<<"event", p>>} \cup (IF p \in Anonymous THEN {<<"payment", p>>} ELSE {})

\* receive_webhook, before the lock: without a session it answers 202 and leaves
\* it at that.  Steps of a call do not open or close the session, so a delivery
\* during one is as good as a delivery before or after it.
Deliver(p) ==
  /\ hook = NoHook /\ LockIsFree /\ desk.open /\ attempts[p].status = "failed"
  /\ \E key \in Keys(p) : hook' = key
  /\ UNCHANGED <<gateway, desk, call, product>>

Known(p) == outcomes[p] # "none"

\* Mistake: outcomes are not looked up, so that a payment is taken up again.
NeverKnown(p) == FALSE

\* ingest: the first outcome is returned again.
IsDuplicate(p) == Known(p)

Ingest(by, todo, p) ==
  [Free EXCEPT !.by = by, !.todo = todo, !.at = "load", !.payment = p]

\* ingest_webhook_payment: no session, a key that was seen, a payment that has an
\* outcome, or a payment to ingest.
TakeDelivery ==
  /\ hook # NoHook /\ LockIsFree
  /\ LET p == hook[2]
     IN  \/ /\ ~desk.open \/ hook \in desk.seen
            /\ hook' = NoHook
            /\ UNCHANGED <<desk, call>>
         \/ /\ desk.open /\ hook \notin desk.seen /\ IsDuplicate(p)
            /\ desk' = [desk EXCEPT !.seen = @ \cup {hook}]
            /\ hook' = NoHook
            /\ UNCHANGED call
         \/ /\ desk.open /\ hook \notin desk.seen /\ ~IsDuplicate(p)
            /\ call' = Ingest("webhook", <<>>, p)
            /\ UNCHANGED <<desk, hook>>
  /\ UNCHANGED <<gateway, product>>

\* poll_and_ingest goes over a copy of the session's links.
Poll ==
  /\ LockIsFree /\ desk.open /\ desk.links # <<>>
  /\ call' = [Free EXCEPT !.by = "poll", !.todo = desk.links, !.at = "link"]
  /\ UNCHANGED <<gateway, desk, hook, product>>

\* Where a call goes on when it is done with one payment.
AfterPayment ==
  IF call.by = "poll" /\ call.todo # <<>>
  THEN [Free EXCEPT !.by = "poll", !.todo = call.todo, !.at = "link"] ELSE Free

\* The next link: nothing found, a payment that has an outcome, or one to ingest.
LookUp ==
  /\ call.at = "link"
  /\ \E listed \in BOOLEAN :
       LET found == Found(Head(call.todo), listed)
           rest == Tail(call.todo)
       IN  \/ /\ \A p \in found : IsDuplicate(p)
              /\ call' = IF rest = <<>> THEN Free ELSE [call EXCEPT !.todo = rest]
           \/ \E p \in found : ~IsDuplicate(p) /\ call' = Ingest("poll", rest, p)
  /\ UNCHANGED <<gateway, desk, hook, product>>

\* GatewayUnavailable ends the poll; the payments already ingested stay.
LookUpFails ==
  /\ call.at = "link"
  /\ call' = Free
  /\ UNCHANGED <<gateway, desk, hook, product>>

\* The connection is lost: the call in progress ends with the exception, and so
\* will every other call that needs the database.
ConnectionLost ==
  /\ call.at \notin {"free", "link"}
  /\ desk' = [desk EXCEPT !.alive = FALSE]
  /\ call' = Free
  /\ hook' = IF call.by = "webhook" THEN NoHook ELSE hook
  /\ UNCHANGED <<gateway, product>>

-----------------------------------------------------------------------------
(* One payment, from detection to its outcome. *)

Step(at) == call' = [call EXCEPT !.at = at]

\* The call is done with its payment, which has its outcome now; a webhook's key
\* is remembered.
Finish(p, outcome) ==
  /\ outcomes' = [outcomes EXCEPT ![p] = outcome]
  /\ call' = AfterPayment
  /\ IF call.by = "webhook"
     THEN desk' = [desk EXCEPT !.seen = @ \cup {hook}] /\ hook' = NoHook
     ELSE UNCHANGED <<desk, hook>>

\* The id of a payment that is resolved by itself.
OwnId == [p \in Payments |-> CustomerIds([q \in {p} |-> HashesOf[q]])[p]]

Customers == {customer[q] : q \in Payments} \ {Nobody}

\* Mistake: a customer is looked up by the phone number only.
SamePhone(p) ==
  {c \in Customers : \E h \in HashesOf[p] : h[1] = "phone" /\ <<"hash", h>> \in c}

\* The rows of customers, whose hashes are those of the payment they were made
\* for, that share a hash with p.  Their ids being digests, which of them comes
\* first is arbitrary.
Matching(p) == {c \in Customers : \E h \in HashesOf[p] : <<"hash", h>> \in c}

\* _load_into_ledger: an existing customer is adopted and left as it is.
Load ==
  /\ call.at = "load" /\ desk.alive
  /\ LET p == call.payment
         existing == Matching(p)
     IN  /\ \E c \in IF existing = {} THEN {OwnId[p]} ELSE existing :
              customer' = [customer EXCEPT ![p] = c]
         /\ call' = [call EXCEPT !.at = "mediate", !.send = ArrivalOf[p]]
  /\ UNCHANGED <<gateway, desk, hook, grants, outcomes, provider>>

Contacts(c) ==
  {q \in Payments : customer[q] = c
                    /\ grants[q].state \in {"RESERVED", "EXECUTING", "CONFIRMED"}}

\* Mistake: only contacts before the decision count, not those promised for later.
BetweenOnly(c, t, decision) ==
  {q \in Contacts(c) : t < grants[q].send /\ grants[q].send <= decision}

\* Contacts after t, at a decision taken when a window opens.
ContactsAfter(c, t, decision) == {q \in Contacts(c) : grants[q].send > t}

BelowCaps(c, w) ==
  LET decision == OpeningOf(w)
  IN  /\ Cardinality(ContactsAfter(c, decision - DayLen, decision)) < Cap24H
      /\ Cardinality(ContactsAfter(c, decision - WeekDays * DayLen, decision)) < Cap7D

SlotTaken(c, w) == \E q \in Contacts(c) : WindowOf(grants[q].send) = w

Admissible(p) ==
  LET w == WindowOf(call.send)
  IN  /\ ~QuietHours(call.send)
      /\ ~SlotTaken(customer[p], w) /\ BelowCaps(customer[p], w)

Mediating == call.at = "mediate" /\ desk.alive

\* The hard filter defers to the opening of the next window, for which the request
\* is mediated again, MaxWindows times in all.
Defer ==
  /\ Mediating /\ ~Admissible(call.payment)
  /\ IF call.steps + 1 < MaxWindows
     THEN /\ call' = [call EXCEPT !.steps = @ + 1,
                                  !.send = OpeningOf(WindowOf(@) + 1)]
          /\ UNCHANGED <<desk, hook, outcomes>>
     ELSE Finish(call.payment, "DEFERRED")
  /\ UNCHANGED <<gateway, customer, grants, provider>>

\* The allocator finds that the contact is not worth its cost.
Deny ==
  /\ Mediating /\ Admissible(call.payment)
  /\ Finish(call.payment, "DENIED")
  /\ UNCHANGED <<gateway, customer, grants, provider>>

GrantIt ==
  /\ Mediating /\ Admissible(call.payment)
  /\ grants' = [grants EXCEPT ![call.payment] = [state |-> "RESERVED", send |-> call.send]]
  /\ Step("execute")
  /\ UNCHANGED <<gateway, desk, hook, customer, outcomes, provider>>

Execute ==
  /\ call.at = "execute" /\ desk.alive
  /\ grants' = [grants EXCEPT ![call.payment].state = "EXECUTING"]
  /\ Step("send")
  /\ UNCHANGED <<gateway, desk, hook, customer, outcomes, provider>>

\* Mistake: the provider does not know what it has accepted.
ForgetsAccepted(p) == FALSE

AlreadyAccepted(p) == p \in provider.accepted

\* An attempt that is not answered, and whether the provider took it all the same.
TimesOut == \/ provider.mode = "hard_down"
            \/ provider.mode \in {"timeout_then_success", "accept_then_timeout"}
               /\ call.tries = 0
Takes == ~TimesOut \/ provider.mode = "accept_then_timeout"

\* One round of the loop in _execute: the provider looks first at what it has
\* accepted and only then at its failure mode.
Send ==
  /\ call.at = "send"
  /\ LET p == call.payment
     IN  /\ IF ~AlreadyAccepted(p) /\ Takes
            THEN provider' = [provider EXCEPT !.accepted = @ \cup {p}, !.sent[p] = @ + 1]
            ELSE UNCHANGED provider
         /\ IF AlreadyAccepted(p) \/ ~TimesOut THEN Step("confirm")
            ELSE IF call.tries + 1 < MaxAttempts THEN call' = [call EXCEPT !.tries = @ + 1]
            ELSE Step("rollback")
  /\ UNCHANGED <<gateway, desk, hook, customer, grants, outcomes>>

Settle(at, state, outcome) ==
  /\ call.at = at /\ desk.alive
  /\ grants' = [grants EXCEPT ![call.payment].state = state]
  /\ provider' = [provider EXCEPT !.mode = "none"]
  /\ Finish(call.payment, outcome)
  /\ UNCHANGED <<gateway, customer>>

Next ==
  \/ Start \/ Reset \/ CreateLinkFails \/ Pay
  \/ \E ref \in References : CreateLink(ref)
  \/ \E mode \in Modes : Arm(mode)
  \/ \E p \in Payments : Deliver(p)
  \/ TakeDelivery \/ Poll \/ LookUp \/ LookUpFails \/ ConnectionLost
  \/ Load \/ Defer \/ Deny \/ GrantIt \/ Execute \/ Send
  \/ Settle("confirm", "CONFIRMED", "GRANTED")
  \/ Settle("rollback", "ROLLED_BACK", "ROLLED_BACK")

Spec == Init /\ [][Next]_vars

-----------------------------------------------------------------------------
(* What should hold. *)

InHand(p) == call.payment = p

\* In a session a person is written to at most once about a payment: however often
\* its webhook is delivered, under whichever key, however often it is polled for,
\* and whatever the provider did with the first attempt.  And only about a payment
\* that failed.
OneMessagePerPayment ==
  \A p \in Payments :
    /\ provider.sent[p] <= 1
    /\ provider.sent[p] > 0 => attempts[p].status = "failed"

\* What the operator is told is what became of the grant and of the message; and
\* nothing became of a payment nobody was told about, unless it is in hand or the
\* connection was lost over it.
OutcomesHold ==
  \A p \in Payments :
    /\ outcomes[p] = "GRANTED" =>
         grants[p].state = "CONFIRMED" /\ provider.sent[p] = 1
    /\ outcomes[p] = "ROLLED_BACK" =>
         grants[p].state = "ROLLED_BACK" /\ provider.sent[p] = 0
    /\ outcomes[p] \in {"DENIED", "DEFERRED"} => grants[p] = NoGrant
    /\ ~Known(p) /\ ~InHand(p) /\ desk.alive => customer[p] = Nobody
    /\ \A key \in Keys(p) : key \in desk.seen => Known(p)

\* A customer is contacted at most Cap24H times within 24 hours and Cap7D times
\* within a week, although payments come in in any order, an older one after a
\* newer one that was deferred into the days to come.
ContactBudgetHolds ==
  \A c \in Customers : \A q \in Contacts(c) :
    LET since(len) == {r \in Contacts(c) : /\ grants[q].send <= grants[r].send
                                           /\ grants[r].send < grants[q].send + len}
    IN  /\ Cardinality(since(DayLen)) <= Cap24H
        /\ Cardinality(since(WeekDays * DayLen)) <= Cap7D

SamePerson == [p \in Payments |-> {q \in Payments : OnePerson(HashesOf, p, q)}]

\* No hash is recorded in two rows, and payments attributed to one row are one person's
\* as resolve_customer_ids would have it of the whole batch: a contact budget is never
\* shared by strangers.  It may be split: that one person's payments get one row is not
\* so in every order of arrival (see MCRazorpayIntake).
RowsKeptApart ==
  \A p, q \in Payments :
    customer[p] \cap customer[q] # {} => customer[p] = customer[q] /\ q \in SamePerson[p]

=============================================================================
