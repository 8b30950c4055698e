---------------------------- MODULE ContactLedger ----------------------------
(***************************************************************************)
(* The grant ledger of SAMPARK: what sampark/budget/store.py (the          *)
(* in-memory ledger and its issuer) and sampark/mediation/lifecycle.py do  *)
(* to the grants and to the two margin pools, each call being one atomic   *)
(* step.  It is also what the PostgreSQL transaction of                    *)
(* sampark/budget/issuance.py promises: module GrantIssuance is shown to   *)
(* implement this one.                                                     *)
(*                                                                         *)
(* Time is counted in ticks from midnight (IST) of window 0, a window      *)
(* being one calendar day of DayLen ticks whose sendable band is           *)
(* OpenAt .. CloseAt - 1 (09:00 to 21:00 in the code).  Money is counted   *)
(* in units of incentive.  A call that is refused, and a repeated call     *)
(* that the code answers from what is already there, changes nothing and   *)
(* is a stuttering step.                                                   *)
(***************************************************************************)
EXTENDS Integers, FiniteSets, FiniteSetsExt

CONSTANTS
  Requests,          \* signed grant requests, one grant_id each
  Customers,
  CustomerOf,        \* the customer a request is about
  RequestedCeiling,  \* amount_paise * requested_max_incentive_bps / 10_000
  Windows,           \* calendar days
  DayLen, OpenAt, CloseAt,
  WeekDays,          \* days of the long rolling window (7 in the code)
  Cap24H, Cap7D,     \* CONTACT_CAP_24H, CONTACT_CAP_7D
  GrantTTL,          \* ticks from send_after to expires_at
  MerchantBudget,    \* merchant margin per window
  CustomerBudget,    \* 500 bps of the customer's total at risk
  Instants           \* the instants a sweep may be asked about

ASSUME RequestsAssumption ==
  /\ IsFiniteSet(Requests) /\ IsFiniteSet(Customers)
  /\ CustomerOf \in [Requests -> Customers]
  /\ RequestedCeiling \in [Requests -> Nat]

ASSUME CalendarAssumption ==
  /\ Windows \subseteq Nat /\ Instants \subseteq Nat
  /\ DayLen \in Nat /\ OpenAt \in Nat /\ CloseAt \in Nat
  /\ OpenAt < CloseAt /\ CloseAt <= DayLen
  /\ WeekDays \in Nat \ {0} /\ GrantTTL \in Nat \ {0}

ASSUME LimitsAssumption ==
  /\ Cap24H \in Nat /\ Cap7D \in Nat
  /\ MerchantBudget \in Nat
  /\ CustomerBudget \in [Customers -> Nat]

VARIABLES
  grants,     \* the grants table, by request: grant_id is a function of it
  merchant,   \* the merchant's pool of each window
  customer    \* each customer's pool of each window

vars == <<grants, merchant, customer>>

-----------------------------------------------------------------------------
(* Data. *)

CapacityConsuming == {"RESERVED", "EXECUTING", "CONFIRMED"}
Reserving == {"RESERVED", "EXECUTING"}
Terminal == {"CONFIRMED", "ROLLED_BACK", "EXPIRED"}
GrantStates == CapacityConsuming \cup Terminal

Grant == [state: GrantStates \cup {"none"}, window: Nat, sendAfter: Nat,
          expiresAt: Nat, ceiling: Nat]
NoGrant == [state |-> "none", window |-> 0, sendAfter |-> 0, expiresAt |-> 0,
            ceiling |-> 0]

Pool == [reserved: Int, spent: Int]
FreshPool == [reserved |-> 0, spent |-> 0]

WindowStart(w) == w * DayLen + OpenAt
SendTimes(w) == WindowStart(w) .. (w * DayLen + CloseAt - 1)

Lesser(a, b) == IF a <= b THEN a ELSE b
Remaining(budget, pool) == budget - pool.reserved - pool.spent
\* Mistake: the customer's pool is not consulted.
MerchantOnlyFit(ask, merchantLeft, customerLeft) == Lesser(ask, merchantLeft)

DowngradeToFit(ask, merchantLeft, customerLeft) ==
  Lesser(ask, Lesser(merchantLeft, customerLeft))

Active(c) ==
  {r \in Requests : CustomerOf[r] = c /\ grants[r].state \in CapacityConsuming}

\* Mistake: only the day after t is looked at, not what is promised for later.
PastContactsAfter(c, t) ==
  {r \in Active(c) : t < grants[r].sendAfter /\ grants[r].sendAfter <= t + DayLen}

\* Contacts of c that count against a rolling cap: those after instant t,
\* however far in the future they lie.
ContactsAfter(c, t) == {r \in Active(c) : grants[r].sendAfter > t}

\* Mistake: the weekly cap is compared with <=.
OneTooMany(c, w) ==
  /\ Cardinality(ContactsAfter(c, WindowStart(w) - DayLen)) < Cap24H
  /\ Cardinality(ContactsAfter(c, WindowStart(w) - WeekDays * DayLen)) <= Cap7D

BelowCaps(c, w) ==
  /\ Cardinality(ContactsAfter(c, WindowStart(w) - DayLen)) < Cap24H
  /\ Cardinality(ContactsAfter(c, WindowStart(w) - WeekDays * DayLen)) < Cap7D

\* Mistake: only a sent contact holds the slot.
HasSentClaim(c, w) ==
  \E r \in Active(c) : grants[r].window = w /\ grants[r].state # "RESERVED"

HasActiveClaim(c, w) == \E r \in Active(c) : grants[r].window = w

-----------------------------------------------------------------------------
Init ==
  /\ grants = [r \in Requests |-> NoGrant]
  /\ merchant = [w \in Windows |-> FreshPool]
  /\ customer = [c \in Customers |-> [w \in Windows |-> FreshPool]]

\* issue_grant: the request has no grant, both pools have something left, the
\* customer is below both caps as of the window's decision instant, and nobody
\* holds the slot.  `ask' is the ceiling after the allocator's own downgrade.
Issue(r, w, s, ask) ==
  LET c == CustomerOf[r]
      mLeft == Remaining(MerchantBudget, merchant[w])
      cLeft == Remaining(CustomerBudget[c], customer[c][w])
      ceiling == DowngradeToFit(ask, mLeft, cLeft)
  IN  /\ grants[r].state = "none"
      /\ mLeft > 0 /\ cLeft > 0
      /\ BelowCaps(c, w)
      /\ ~HasActiveClaim(c, w)
      /\ grants' = [grants EXCEPT ![r] =
                      [state |-> "RESERVED", window |-> w, sendAfter |-> s,
                       expiresAt |-> s + GrantTTL, ceiling |-> ceiling]]
      /\ merchant' = [merchant EXCEPT ![w].reserved = @ + ceiling]
      /\ customer' = [customer EXCEPT ![c][w].reserved = @ + ceiling]

\* Mistake: a released grant gets a state the tables do not know.
MoveToReleased(r, from, to) ==
  /\ grants[r].state \in from
  /\ grants' = [grants EXCEPT ![r].state =
                  IF to = "ROLLED_BACK" THEN "RELEASED" ELSE to]

Move(r, from, to) ==
  /\ grants[r].state \in from
  /\ grants' = [grants EXCEPT ![r].state = to]

\* Mistake: what was reserved and not spent stays reserved.
SettleSpendOnly(r, spend) ==
  LET w == grants[r].window
      Settled(pool) == [reserved |-> pool.reserved - spend,
                        spent |-> pool.spent + spend]
  IN  /\ merchant' = [merchant EXCEPT ![w] = Settled(@)]
      /\ customer' = [customer EXCEPT ![CustomerOf[r]][w] = Settled(@)]

\* Mistake: a release forgets the customer's pool.
SettleMerchantOnly(r, spend) ==
  LET w == grants[r].window
  IN  /\ merchant' = [merchant EXCEPT
            ![w].reserved = @ - grants[r].ceiling, ![w].spent = @ + spend]
      /\ UNCHANGED customer

\* Take the whole reservation of r out of both pools and book `spend'.
Settle(r, spend) ==
  LET w == grants[r].window
      ceiling == grants[r].ceiling
      Settled(pool) == [reserved |-> pool.reserved - ceiling,
                        spent |-> pool.spent + spend]
  IN  /\ merchant' = [merchant EXCEPT ![w] = Settled(@)]
      /\ customer' = [customer EXCEPT ![CustomerOf[r]][w] = Settled(@)]

Execute(r) ==
  /\ Move(r, {"RESERVED"}, "EXECUTING")
  /\ UNCHANGED <<merchant, customer>>

\* Mistake: a repeated confirmation is settled again.
ConfirmAgain(r, spend) ==
  Move(r, {"EXECUTING", "CONFIRMED"}, "CONFIRMED") /\ Settle(r, spend)

Confirm(r, spend) == Move(r, {"EXECUTING"}, "CONFIRMED") /\ Settle(r, spend)

\* Mistake: a provider's late failure rolls a confirmed contact back.
RollbackConfirmed(r) == Move(r, CapacityConsuming, "ROLLED_BACK") /\ Settle(r, 0)

Rollback(r) == Move(r, Reserving, "ROLLED_BACK") /\ Settle(r, 0)

\* One grant of sweep_expired(now).  The sweep expires one grant after another
\* and nothing else runs meanwhile; letting other calls in between only adds
\* behaviours.
Expire(r, now) ==
  /\ grants[r].expiresAt < now
  /\ Move(r, {"RESERVED"}, "EXPIRED")
  /\ Settle(r, 0)

Next ==
  \E r \in Requests :
    \/ \E w \in Windows : \E s \in SendTimes(w), ask \in 0..RequestedCeiling[r] :
         Issue(r, w, s, ask)
    \/ Execute(r)
    \/ \E spend \in 0..grants[r].ceiling : Confirm(r, spend)
    \/ Rollback(r)
    \/ \E now \in Instants : Expire(r, now)

Spec == Init /\ [][Next]_vars

-----------------------------------------------------------------------------
(* Correctness. *)

\* Every variable holds a value of the tables' columns.
TypeOK ==
  /\ grants \in [Requests -> Grant]
  /\ merchant \in [Windows -> Pool]
  /\ customer \in [Customers -> [Windows -> Pool]]

\* A grant that was issued is for a known window, and is to be sent inside
\* that window's sendable band (greedy.py never proposes another instant).
InItsBand(r) == /\ grants[r].window \in Windows
                /\ grants[r].sendAfter \in SendTimes(grants[r].window)

GrantsInBand == \A r \in Requests : grants[r].state # "none" => InItsBand(r)

\* No customer has two live grants for one calendar day: the partial unique
\* index on contact_slot_claims, which the in-memory issuer imitates with
\* has_active_claim.
SlotExclusive ==
  \A c \in Customers : \A q, r \in Active(c) :
    grants[q].window = grants[r].window => q = r

\* The contacts of c in the `length' ticks that end at instant t.
ContactsWithin(c, t, length) ==
  {q \in Active(c) : t - length < grants[q].sendAfter /\ grants[q].sendAfter <= t}

\* The contact caps hold over every rolling interval that ends at a contact,
\* and so over every interval, although issue_grant counts as of the window's
\* decision instant and not of the send instant, and although windows may be
\* filled in any order.
RollingCap(cap, length) ==
  \A c \in Customers : \A r \in Active(c) :
    Cardinality(ContactsWithin(c, grants[r].sendAfter, length)) <= cap
RollingCap24H == RollingCap(Cap24H, DayLen)
RollingCap7D == RollingCap(Cap7D, WeekDays * DayLen)

\* What the grant of r contributes to a pool of window w.
ReservedBy(r, w) ==
  IF grants[r].window = w /\ grants[r].state \in Reserving
  THEN grants[r].ceiling ELSE 0

\* A merchant pool's reservation is exactly that of its live grants, however
\* grants were confirmed, rolled back and swept: no reservation leaks, none is
\* released twice.  Both pools agree on what was spent.
PoolsExact ==
  \A w \in Windows :
    /\ merchant[w].reserved = MapThenSumSet(LAMBDA r : ReservedBy(r, w), Requests)
    /\ merchant[w].spent = MapThenSumSet(LAMBDA c : customer[c][w].spent, Customers)

\* Because one live grant at most holds the slot, a customer's pool of a window
\* is that grant's account: its whole ceiling while it reserves, at most its
\* ceiling spent once confirmed, and untouched when nobody holds the slot.
CustomerPoolExact ==
  \A c \in Customers, w \in Windows :
    LET holders == {r \in Active(c) : grants[r].window = w}
        pool == customer[c][w]
    IN  /\ holders = {} => pool = FreshPool
        /\ \A r \in holders :
             IF grants[r].state = "CONFIRMED"
             THEN pool.reserved = 0 /\ pool.spent \in 0..grants[r].ceiling
             ELSE pool = [reserved |-> grants[r].ceiling, spent |-> 0]

\* Neither pool is ever overdrawn: the CHECK constraints of budget_windows and
\* customer_margin_windows can never fire.
NotOverdrawn ==
  /\ \A w \in Windows : Remaining(MerchantBudget, merchant[w]) >= 0
  /\ \A c \in Customers, w \in Windows :
       /\ Remaining(CustomerBudget[c], customer[c][w]) >= 0
       /\ customer[c][w].reserved >= 0 /\ customer[c][w].spent >= 0

\* With a cap of one contact in 24 hours the customer pool never binds, as the
\* note above customer_margin_windows in schema.sql says: a request that passes
\* the cap finds its pool untouched.
CustomerPoolNeverBinds ==
  Cap24H = 1 =>
    \A c \in Customers, w \in Windows :
      Cardinality(ContactsAfter(c, WindowStart(w) - DayLen)) < Cap24H
        => customer[c][w] = FreshPool

\* No call changes a grant that was confirmed, rolled back or expired, whatever
\* calls are repeated or come late.
SettledForGood ==
  [][\A r \in Requests :
       grants[r].state \in Terminal => grants'[r] = grants[r]]_vars

=============================================================================
