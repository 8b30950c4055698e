---------------------------- MODULE GrantIssuance ----------------------------
(***************************************************************************)
(* sampark/budget/issuance.py on PostgreSQL: several callers, each with a  *)
(* connection of its own, run the issuance transaction at isolation level  *)
(* SERIALIZABLE, retrying it as a whole on SQLSTATE 40001.  Meanwhile the  *)
(* lifecycle calls of postgres_ledger.py update the same rows (here each   *)
(* as one step; GrantExecution takes them apart).                       *)
(*                                                                         *)
(* What the module assumes of PostgreSQL:                                  *)
(*  - a transaction reads the snapshot taken by its first statement;       *)
(*  - a row is locked when it is inserted, updated or selected FOR UPDATE, *)
(*    and stays locked until commit or abort; others wait, in a queue;     *)
(*  - touching a row that a commit changed since the snapshot fails with   *)
(*    40001, and so does committing two transactions each of which read    *)
(*    the rows the other was about to insert;                              *)
(*  - a transaction may also fail with 40001 for no reason of its own, as  *)
(*    predicate locks are coarse, but only if another one committed since. *)
(***************************************************************************)
EXTENDS Integers, Sequences, FiniteSets

CONSTANTS
  Requests, Customers, CustomerOf, RequestedCeiling, Windows, DayLen, OpenAt,
  CloseAt, WeekDays, Cap24H, Cap7D, GrantTTL, MerchantBudget, CustomerBudget,
  Instants,     \* all as in ContactLedger
  Callers,      \* threads or processes that call issue_grant
  MaxAttempts   \* MAX_SERIALIZATION_RETRIES

ASSUME CallersAssumption ==
  MaxAttempts \in Nat \ {0} /\ Windows # {}

ASSUME LedgerAssumption ==   \* those of ContactLedger
  /\ IsFiniteSet(Requests) /\ IsFiniteSet(Customers)
  /\ CustomerOf \in [Requests -> Customers]
  /\ RequestedCeiling \in [Requests -> Nat]
  /\ Windows \subseteq Nat /\ Instants \subseteq Nat
  /\ DayLen \in Nat /\ OpenAt \in Nat /\ CloseAt \in Nat
  /\ OpenAt < CloseAt /\ CloseAt <= DayLen
  /\ WeekDays \in Nat \ {0} /\ GrantTTL \in Nat \ {0}
  /\ Cap24H \in Nat /\ Cap7D \in Nat /\ MerchantBudget \in Nat
  /\ CustomerBudget \in [Customers -> Nat]

ASSUME CapsAssumption == Cap24H > 0 /\ Cap7D > 0

VARIABLES
  grants, merchant, customer,  \* committed rows, as in ContactLedger
  cache,                       \* contact_states: the counters of each customer
  tx                           \* the call each caller is in, and its transaction

vars == <<grants, merchant, customer, cache, tx>>

\* Customers without a row have nothing cached, and never will have.
HasState == DOMAIN cache

Ledger == INSTANCE ContactLedger

-----------------------------------------------------------------------------
(* Rows and locks. *)

\* The statements of a transaction that lock a row, in the order of the code.
\* Mistake: some requests lock the customer's pool first.
MixedOrder(r) ==
  IF r = CHOOSE q \in Requests : TRUE
  THEN <<"request", "customer", "merchant", "claim", "cache">>
  ELSE <<"request", "merchant", "customer", "claim", "cache">>

Order(r) == <<"request", "merchant", "customer", "claim", "cache">>

Rows == {<<"request", r>> : r \in Requests}
          \cup {<<"merchant", w>> : w \in Windows}
          \cup {<<"customer", c, w>> : c \in Customers, w \in Windows}
          \cup {<<"slot", c, w>> : c \in Customers, w \in Windows}
          \cup {<<"cache", c>> : c \in Customers}
          \cup {<<"contacts", c>> : c \in Customers}   \* the caps' predicate

RowOf(stage, r, w) ==
  LET c == CustomerOf[r]
  IN  CASE stage = "request" -> <<"request", r>>
        [] stage = "merchant" -> <<"merchant", w>>
        [] stage = "customer" -> <<"customer", c, w>>
        [] stage = "claim" -> <<"slot", c, w>>
        [] stage = "cache" -> <<"cache", c>>

\* tx[p].step counts the stages whose row p has locked, -1 outside a transaction.
InTransaction(p) == tx[p].step >= 0
Held(p) == {RowOf(Order(tx[p].request)[i], tx[p].request, tx[p].window) : i \in 1..tx[p].step}
Locked(row) == \E q \in Callers : row \in Held(q)
NextStage(p) == Order(tx[p].request)[tx[p].step + 1]
NextRow(p) == RowOf(NextStage(p), tx[p].request, tx[p].window)
At(p, stage) ==
  InTransaction(p) /\ tx[p].step < Len(Order(tx[p].request)) /\ NextStage(p) = stage
AtCommit(p) == InTransaction(p) /\ tx[p].step = Len(Order(tx[p].request))

Answers == {"none", "issued", "merchant_margin_exhausted", "customer_margin_exhausted",
            "contact_cap_24h", "contact_cap_7d", "contact_slot_taken"}

\* `attempt' is 0 between calls, when only the last request and its answer are kept.
Call == [request: Requests, window: Windows, sendAfter: Nat, ask: Nat,
         attempt: 0..MaxAttempts, step: -1..5, c24: Nat, c7: Nat, ceiling: Nat,
         stale: SUBSET Rows, answer: Answers]

NewCall(r, w, s, ask, attempt) ==
  [request |-> r, window |-> w, sendAfter |-> s, ask |-> ask, attempt |-> attempt,
   step |-> -1, c24 |-> 0, c7 |-> 0, ceiling |-> 0, stale |-> {}, answer |-> "none"]

AnyWindow == CHOOSE w \in Windows : TRUE
Answered(call, answer) ==
  [NewCall(call.request, AnyWindow, 0, 0, 0) EXCEPT !.answer = answer]

NewCache(c24, c7, s) == [c24 |-> c24, c7 |-> c7, last |-> s]

\* Everybody whose snapshot is older than this commit now has stale rows.
Stale(calls, rows) ==
  [q \in Callers |-> IF calls[q].step >= 0
                     THEN [calls[q] EXCEPT !.stale = @ \cup rows] ELSE calls[q]]

-----------------------------------------------------------------------------
Init ==
  /\ Ledger!Init
  /\ \E known \in SUBSET Customers : cache = [c \in known |-> NewCache(0, 0, 0)]
  /\ \E r \in Requests : tx = [p \in Callers |-> NewCall(r, AnyWindow, 0, 0, 0)]

\* issue_grant is called.
Start(p, r, w, s, ask) ==
  /\ tx[p].attempt = 0
  /\ tx' = [tx EXCEPT ![p] = NewCall(r, w, s, ask, 1)]
  /\ UNCHANGED <<grants, merchant, customer, cache>>

\* The first SELECT takes the snapshot.  A grant that is already there is the
\* answer; otherwise what the transaction will count of the customer's contacts
\* is settled now.
Begin(p) ==
  LET r == tx[p].request
      c == CustomerOf[r]
      opening == Ledger!WindowStart(tx[p].window)
  IN  /\ tx[p].attempt > 0 /\ ~InTransaction(p)
      /\ tx' = [tx EXCEPT ![p] =
           IF grants[r].state # "none" THEN Answered(@, "issued")
           ELSE [@ EXCEPT !.step = 0,
                   !.c24 = Cardinality(Ledger!ContactsAfter(c, opening - DayLen)),
                   !.c7 = Cardinality(Ledger!ContactsAfter(c, opening - WeekDays * DayLen))]]
      /\ UNCHANGED <<grants, merchant, customer, cache>>

Deny(p, reason) ==
  /\ tx' = [tx EXCEPT ![p] = Answered(@, reason)]
  /\ UNCHANGED <<grants, merchant, customer, cache>>

Advance(p) ==
  /\ tx' = [tx EXCEPT ![p].step = @ + 1]
  /\ UNCHANGED <<grants, merchant, customer, cache>>

\* Mistake: what beat the last attempt is taken for the request's own grant.
FailureAsSuccess(p) ==
  /\ InTransaction(p)
  /\ tx' = [tx EXCEPT ![p] =
        IF @.attempt = MaxAttempts THEN Answered(@, "issued")
        ELSE NewCall(@.request, @.window, @.sendAfter, @.ask, @.attempt + 1)]
  /\ UNCHANGED <<grants, merchant, customer, cache>>

\* 40001: the transaction rolls back; the last attempt of a call is answered
\* with the reason code of a taken slot.
SerializationFailure(p) ==
  /\ InTransaction(p)
  /\ tx' = [tx EXCEPT ![p] =
        IF @.attempt = MaxAttempts THEN Answered(@, "contact_slot_taken")
        ELSE NewCall(@.request, @.window, @.sendAfter, @.ask, @.attempt + 1)]
  /\ UNCHANGED <<grants, merchant, customer, cache>>

Fresh(p) == NextRow(p) \notin tx[p].stale
CanLock(p) == Fresh(p) /\ ~Locked(NextRow(p))

\* INSERT of the request, and the merchant's pool FOR UPDATE.
LockRequest(p) == At(p, "request") /\ CanLock(p) /\ Advance(p)
LockMerchant(p) == At(p, "merchant") /\ CanLock(p) /\ Advance(p)

\* The customer's pool FOR UPDATE, and then everything that is decided from what
\* has been read: the two pools, the ceiling, the two caps.
LockCustomer(p) ==
  LET w == tx[p].window
      c == CustomerOf[tx[p].request]
      mLeft == Ledger!Remaining(MerchantBudget, merchant[w])
      cLeft == Ledger!Remaining(CustomerBudget[c], customer[c][w])
  IN  /\ At(p, "customer") /\ CanLock(p)
      /\ CASE mLeft <= 0 -> Deny(p, "merchant_margin_exhausted")
           [] mLeft > 0 /\ cLeft <= 0 -> Deny(p, "customer_margin_exhausted")
           [] mLeft > 0 /\ cLeft > 0 /\ tx[p].c24 >= Cap24H -> Deny(p, "contact_cap_24h")
           [] mLeft > 0 /\ cLeft > 0 /\ tx[p].c24 < Cap24H /\ tx[p].c7 >= Cap7D ->
                Deny(p, "contact_cap_7d")
           [] OTHER ->
                /\ tx' = [tx EXCEPT ![p].step = @ + 1,
                            ![p].ceiling = Ledger!DowngradeToFit(tx[p].ask, mLeft, cLeft)]
                /\ UNCHANGED <<grants, merchant, customer, cache>>

\* INSERT of the grant and of its claim.  The unique index looks at what is
\* committed now, not at the snapshot.
InsertClaim(p) ==
  /\ At(p, "claim") /\ ~Locked(NextRow(p))
  /\ IF Ledger!HasActiveClaim(CustomerOf[tx[p].request], tx[p].window)
     THEN Deny(p, "contact_slot_taken")
     ELSE Advance(p)

\* UPDATE of contact_states, which touches no row if the customer has none.
WriteCache(p) ==
  /\ At(p, "cache")
  /\ CustomerOf[tx[p].request] \in HasState => CanLock(p)
  /\ Advance(p)

\* A row this transaction needs next was changed by a commit it does not see.
RowIsStale(p) ==
  /\ \/ At(p, "request") \/ At(p, "merchant") \/ At(p, "customer")
     \/ At(p, "cache") /\ CustomerOf[tx[p].request] \in HasState
  /\ ~Fresh(p)
  /\ SerializationFailure(p)

\* Another issuance for the customer committed since the snapshot: each read the
\* contacts without the other's.
ReadsConflict(p) ==
  /\ AtCommit(p)
  /\ <<"contacts", CustomerOf[tx[p].request]>> \in tx[p].stale
  /\ SerializationFailure(p)

\* 40001 by the coarseness of predicate locks.
FalsePositive(p) ==
  /\ \E c \in Customers : <<"contacts", c>> \in tx[p].stale
  /\ SerializationFailure(p)

\* Mistake: the transaction runs at REPEATABLE READ, which lets both commit.
WrittenUnwatched(p) ==
  {<<"request", tx[p].request>>, <<"merchant", tx[p].window>>,
   <<"customer", CustomerOf[tx[p].request], tx[p].window>>,
   <<"cache", CustomerOf[tx[p].request]>>}

\* Mistake: the transaction runs at READ COMMITTED, where an UPDATE that had to wait
\* goes on over what was committed meanwhile.
WrittenUnseen(p) == {}

\* The rows of the transaction become visible at once.
Written(p) ==
  LET r == tx[p].request
      w == tx[p].window
      c == CustomerOf[r]
  IN  {<<"request", r>>, <<"merchant", w>>, <<"customer", c, w>>, <<"cache", c>>,
       <<"contacts", c>>}

Commit(p) ==
  LET r == tx[p].request
      w == tx[p].window
      c == CustomerOf[r]
      s == tx[p].sendAfter
  IN  /\ AtCommit(p)
      /\ <<"contacts", c>> \notin tx[p].stale
      /\ grants' = [grants EXCEPT ![r] =
           [state |-> "RESERVED", window |-> w, sendAfter |-> s,
            expiresAt |-> s + GrantTTL, ceiling |-> tx[p].ceiling]]
      /\ merchant' = [merchant EXCEPT ![w].reserved = @ + tx[p].ceiling]
      /\ customer' = [customer EXCEPT ![c][w].reserved = @ + tx[p].ceiling]
      /\ cache' = IF c \in HasState
                  THEN [cache EXCEPT ![c] = NewCache(tx[p].c24 + 1, tx[p].c7 + 1, s)]
                  ELSE cache
      /\ tx' = Stale([tx EXCEPT ![p] = Answered(@, "issued")], Written(p))

\* The caller or its connection dies inside a transaction, which rolls back.
Drop(p) == InTransaction(p) /\ Deny(p, "none")

\* A lifecycle call, in autocommit: it waits for the pool rows it updates and
\* makes them stale for everybody inside a transaction.
Lifecycle(r) ==
  LET pools == {<<"merchant", grants[r].window>>,
                <<"customer", CustomerOf[r], grants[r].window>>}
  IN  /\ \/ Ledger!Execute(r) /\ tx' = tx
         \/ /\ \/ \E spend \in 0..grants[r].ceiling : Ledger!Confirm(r, spend)
               \/ Ledger!Rollback(r)
               \/ \E now \in Instants : Ledger!Expire(r, now)
            /\ \A row \in pools : ~Locked(row)
            /\ tx' = Stale(tx, pools)
      /\ UNCHANGED cache

\* What a caller inside a call does next.
Proceed(p) ==
  \/ Begin(p) \/ LockRequest(p) \/ LockMerchant(p) \/ LockCustomer(p)
  \/ InsertClaim(p) \/ WriteCache(p) \/ RowIsStale(p) \/ ReadsConflict(p)
  \/ Commit(p)

Next ==
  \/ \E p \in Callers :
       \/ \E r \in Requests, w \in Windows :
            \E s \in Ledger!SendTimes(w), ask \in 0..RequestedCeiling[r] :
              Start(p, r, w, s, ask)
       \/ Proceed(p)
       \/ FalsePositive(p)
       \/ Drop(p)
  \/ \E r \in Requests : Lifecycle(r)

Spec == Init /\ [][Next]_vars

\* Each caller goes on with its call.  Row locks are handed out in the order in
\* which they are asked for, so nobody who waits is passed over for ever: a step
\* that is possible again and again is taken.
FairSpec == Spec /\ \A p \in Callers : SF_vars(Proceed(p))

-----------------------------------------------------------------------------
(* Correctness. *)

\* Every variable holds a value of its type.
TypeOK ==
  /\ Ledger!TypeOK
  /\ HasState \subseteq Customers
  /\ cache \in [HasState -> [c24 : Nat, c7 : Nat, last : Nat]]
  /\ tx \in [Callers -> Call]

\* However the transactions of several callers and the lifecycle calls are
\* interleaved, dropped and retried, the committed tables move as the atomic
\* ledger allows: the caps and the slot are checked against a snapshot, the
\* ceiling is computed long before it is reserved, and still no two commits
\* overbook a customer or overdraw a pool.
ImplementsLedger == Ledger!Spec

\* contact_states never reports fewer contacts than the grants table holds as of
\* the decision instant of the window that was last issued for: counters are
\* recomputed in the transaction that writes them, so none of two writers'
\* contacts is lost (rollbacks make them smaller in the table only).
CacheCoversLedger ==
  \A c \in HasState :
    cache[c].last > 0 =>
      LET opening == Ledger!WindowStart(cache[c].last \div DayLen)
      IN  /\ cache[c].c24 >= Cardinality(Ledger!ContactsAfter(c, opening - DayLen))
          /\ cache[c].c7 >= Cardinality(Ledger!ContactsAfter(c, opening - WeekDays * DayLen))
          /\ cache[c].c24 <= Cap24H /\ cache[c].c7 <= Cap7D /\ cache[c].c24 <= cache[c].c7

\* A caller that was told its request is granted finds a grant, and one that was
\* told a customer is at the 24 hour cap asked for a customer that had a contact.
AnswersHold ==
  \A p \in Callers :
    /\ tx[p].answer = "issued" => grants[tx[p].request].state # "none"
    /\ tx[p].answer \in {"contact_cap_24h", "contact_cap_7d"} =>
         \E r \in Requests : /\ CustomerOf[r] = CustomerOf[tx[p].request]
                             /\ grants[r].state # "none"

\* Every call returns: callers never wait for each other in a circle, and the
\* attempts of a call are bounded.
EveryCallReturns == \A p \in Callers : tx[p].attempt > 0 ~> tx[p].attempt = 0

=============================================================================
