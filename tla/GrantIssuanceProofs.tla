------------------------- MODULE GrantIssuanceProofs -------------------------
(***************************************************************************)
(* Any number of callers that run the issuance transaction at once, with   *)
(* any interleaving of retries, dropped connections and lifecycle calls,   *)
(* implement the atomic ledger of ContactLedger; so whatever was proved of *)
(* it holds of the tables of PostgreSQL.                                   *)
(*                                                                         *)
(* A commit is the ledger's Issue because what the transaction has read is *)
(* still so when it commits (Reads): the pools from the moment it holds    *)
(* their rows, the slot from the moment it holds the claim, and what it    *)
(* counted of the customer's contacts as long as nobody else's commit has  *)
(* made the count stale.  Two transactions in one window are never both    *)
(* past its pool (Apart), which is what keeps their rows apart.            *)
(***************************************************************************)
EXTENDS GrantIssuance, FiniteSetTheorems, TLAPS

LP == INSTANCE ContactLedgerProofs

(* The invariant. *)

\* The contacts that the two caps count as of the opening of a window.
Contacts24(c, w) == Ledger!ContactsAfter(c, Ledger!WindowStart(w) - DayLen)
Contacts7(c, w) == Ledger!ContactsAfter(c, Ledger!WindowStart(w) - WeekDays * DayLen)

\* The customer has, or had, a grant.
HadContact(c) == \E r \in Requests : CustomerOf[r] = c /\ grants[r].state # "none"

\* What a transaction has read, at the step it has come to.
Reads(t) ==
  LET r == t.request
      c == CustomerOf[r]
      w == t.window
      mLeft == Ledger!Remaining(MerchantBudget, merchant[w])
      cLeft == Ledger!Remaining(CustomerBudget[c], customer[c][w])
  IN  /\ t.step >= 1 \/ <<"request", r>> \notin t.stale => grants[r].state = "none"
      /\ <<"contacts", c>> \notin t.stale =>
           t.c24 >= Cardinality(Contacts24(c, w)) /\ t.c7 >= Cardinality(Contacts7(c, w))
      /\ t.c24 <= t.c7
      /\ t.c7 > 0 => HadContact(c)
      /\ t.step >= 3 =>
           /\ mLeft > 0 /\ cLeft > 0 /\ t.c24 < Cap24H /\ t.c7 < Cap7D
           /\ t.ceiling = Ledger!DowngradeToFit(t.ask, mLeft, cLeft)
      /\ t.step >= 4 => ~Ledger!HasActiveClaim(c, w)

\* A call: its arguments, its answer, and what its transaction has read.
Sound(t) ==
  /\ t \in Call
  /\ t.attempt > 0 =>
       t.sendAfter \in Ledger!SendTimes(t.window) /\ t.ask \in 0..RequestedCeiling[t.request]
  /\ t.answer = "issued" => grants[t.request].state # "none"
  /\ t.answer \in {"contact_cap_24h", "contact_cap_7d"} => HadContact(CustomerOf[t.request])
  /\ t.step >= 0 => t.attempt > 0 /\ Reads(t)

\* Of two transactions one at most holds a request, and one the pool of a window.
Apart(t, u) ==
  /\ t.step >= 1 /\ u.step >= 1 => t.request # u.request
  /\ t.step >= 2 /\ u.step >= 2 => t.window # u.window

CacheOK ==
  HasState \subseteq Customers /\ cache \in [HasState -> [c24 : Nat, c7 : Nat, last : Nat]]

Cached ==
  /\ CacheOK
  /\ CacheCoversLedger

IssueInv ==
  /\ Ledger!TypeOK /\ Ledger!GrantsInBand
  /\ tx = [p \in Callers |-> tx[p]]
  /\ \A p \in Callers : Sound(tx[p])
  /\ \A p, q \in Callers : p # q => Apart(tx[p], tx[q])
  /\ Cached

-----------------------------------------------------------------------------
(* The tables under ContactLedgerProofs' names. *)

LEMMA SameTables ==
  /\ LP!TypeInv <=> Ledger!TypeOK /\ Ledger!GrantsInBand
  /\ LP!Init <=> Ledger!Init
  /\ LP!vars = Ledger!vars
BY DEF LP!TypeInv, LP!TypeOK, LP!GrantsInBand, LP!InItsBand, LP!SendTimes, LP!WindowStart,
       LP!Grant, LP!GrantStates, LP!CapacityConsuming, LP!Terminal, LP!Pool, LP!Init,
       LP!NoGrant, LP!FreshPool, LP!vars,
       Ledger!TypeOK, Ledger!GrantsInBand, Ledger!InItsBand, Ledger!SendTimes,
       Ledger!WindowStart, Ledger!Grant, Ledger!GrantStates, Ledger!CapacityConsuming,
       Ledger!Terminal, Ledger!Pool, Ledger!Init, Ledger!NoGrant, Ledger!FreshPool,
       Ledger!vars

LEMMA SameContacts ==
  /\ \A c : LP!Active(c) = Ledger!Active(c)
  /\ \A w : LP!WindowStart(w) = Ledger!WindowStart(w)
  /\ \A w : LP!SendTimes(w) = Ledger!SendTimes(w)
  /\ \A c, t : LP!ContactsAfter(c, t) = Ledger!ContactsAfter(c, t)
  /\ \A S : LP!Cardinality(S) = Cardinality(S) /\ Ledger!Cardinality(S) = Cardinality(S)
BY DEF LP!Active, Ledger!Active, LP!CapacityConsuming, Ledger!CapacityConsuming,
       LP!WindowStart, Ledger!WindowStart, LP!SendTimes, Ledger!SendTimes,
       LP!ContactsAfter, Ledger!ContactsAfter, LP!Cardinality, Ledger!Cardinality, Cardinality

LEMMA SameIssue ==
  ASSUME NEW r, NEW w, NEW s, NEW ask
  PROVE  Ledger!Issue(r, w, s, ask) <=> LP!Issue(r, w, s, ask)
BY DEF LP!Issue, LP!Remaining, LP!DowngradeToFit, LP!Lesser, LP!BelowCaps, LP!ContactsAfter,
       LP!Active, LP!CapacityConsuming, LP!HasActiveClaim, LP!WindowStart, LP!SendTimes,
       LP!Cardinality,
       Ledger!Issue, Ledger!Remaining, Ledger!DowngradeToFit, Ledger!Lesser,
       Ledger!BelowCaps, Ledger!ContactsAfter, Ledger!Active, Ledger!CapacityConsuming,
       Ledger!HasActiveClaim, Ledger!WindowStart, Ledger!SendTimes, Ledger!Cardinality

LEMMA SameCalls ==
  ASSUME NEW r
  PROVE  /\ Ledger!Execute(r) <=> LP!Execute(r)
         /\ Ledger!Rollback(r) <=> LP!Rollback(r)
         /\ \A spend : Ledger!Confirm(r, spend) <=> LP!Confirm(r, spend)
         /\ \A now : Ledger!Expire(r, now) <=> LP!Expire(r, now)
BY DEF LP!Execute, LP!Rollback, LP!Confirm, LP!Expire, LP!Move, LP!Settle, LP!Reserving,
       Ledger!Execute, Ledger!Rollback, Ledger!Confirm, Ledger!Expire, Ledger!Move,
       Ledger!Settle, Ledger!Reserving

LEMMA SameNext == Ledger!Next <=> LP!Next
<1>1. ASSUME NEW r
      PROVE  /\ (\E w \in Windows : \E s \in Ledger!SendTimes(w), ask \in 0..RequestedCeiling[r] :
                    Ledger!Issue(r, w, s, ask)) <=>
                (\E w \in Windows : \E s \in LP!SendTimes(w), ask \in 0..RequestedCeiling[r] :
                    LP!Issue(r, w, s, ask))
             /\ (\E spend \in 0..grants[r].ceiling : Ledger!Confirm(r, spend)) <=>
                (\E spend \in 0..grants[r].ceiling : LP!Confirm(r, spend))
             /\ (\E now \in Instants : Ledger!Expire(r, now)) <=>
                (\E now \in Instants : LP!Expire(r, now))
             /\ Ledger!Execute(r) <=> LP!Execute(r)
             /\ Ledger!Rollback(r) <=> LP!Rollback(r)
  BY SameIssue, SameCalls, SameContacts
<1> QED
  BY <1>1 DEF Ledger!Next, LP!Next

\* ContactLedgerProofs makes the assumptions of ContactLedger.
LEMMA SameFinite == LP!IsFiniteSet(Requests) /\ LP!IsFiniteSet(Customers)
BY LedgerAssumption DEF IsFiniteSet, LP!IsFiniteSet

-----------------------------------------------------------------------------
(* Steps and rows. *)

LEMMA OrderFacts ==
  ASSUME NEW r
  PROVE  /\ Len(Order(r)) = 5
         /\ Order(r)[1] = "request" /\ Order(r)[2] = "merchant" /\ Order(r)[3] = "customer"
         /\ Order(r)[4] = "claim" /\ Order(r)[5] = "cache"
BY DEF Order

\* Where a transaction is says which row it needs next.
LEMMA AtFacts ==
  ASSUME NEW p, tx[p].step \in -1..5
  PROVE  /\ At(p, "request") => tx[p].step = 0 /\ NextRow(p) = <<"request", tx[p].request>>
         /\ At(p, "merchant") => tx[p].step = 1 /\ NextRow(p) = <<"merchant", tx[p].window>>
         /\ At(p, "customer") => tx[p].step = 2
         /\ At(p, "claim") => tx[p].step = 3
         /\ At(p, "cache") => tx[p].step = 4
         /\ AtCommit(p) => tx[p].step = 5
         /\ InTransaction(p) <=> tx[p].step >= 0
<1>1. PICK r, w, k : r = tx[p].request /\ w = tx[p].window /\ k = tx[p].step
  OBVIOUS
<1>2. k \in -1..5
  BY <1>1
<1>3. \A stage : At(p, stage) =>
        (k \in 0..4 /\ Order(r)[k + 1] = stage /\ NextRow(p) = RowOf(stage, r, w))
  BY <1>1, <1>2, OrderFacts DEF At, InTransaction, NextStage, NextRow
<1>4. /\ RowOf("request", r, w) = <<"request", r>>
      /\ RowOf("merchant", r, w) = <<"merchant", w>>
  BY DEF RowOf
<1>5. \A stage : At(p, stage) =>
        \/ (k = 0 /\ stage = "request")
        \/ (k = 1 /\ stage = "merchant")
        \/ (k = 2 /\ stage = "customer")
        \/ (k = 3 /\ stage = "claim")
        \/ (k = 4 /\ stage = "cache")
  BY <1>3, OrderFacts
<1>6. AtCommit(p) => k = 5
  BY <1>1, OrderFacts DEF AtCommit
<1> QED
  BY <1>1, <1>3, <1>4, <1>5, <1>6 DEF InTransaction

\* What nobody has locked.
LEMMA Unlocked ==
  ASSUME NEW q \in Callers, tx[q].step \in -1..5
  PROVE  /\ \A r : ~Locked(<<"request", r>>) /\ tx[q].step >= 1 => tx[q].request # r
         /\ \A w : ~Locked(<<"merchant", w>>) /\ tx[q].step >= 2 => tx[q].window # w
<1>1. PICK u, v, k : u = tx[q].request /\ v = tx[q].window /\ k = tx[q].step
  OBVIOUS
<1>2. /\ RowOf(Order(u)[1], u, v) = <<"request", u>>
      /\ RowOf(Order(u)[2], u, v) = <<"merchant", v>>
  BY OrderFacts DEF RowOf
<1>3. Held(q) = {RowOf(Order(u)[i], u, v) : i \in 1..k}
  BY <1>1 DEF Held
<1>4. /\ k >= 1 => <<"request", u>> \in Held(q)
      /\ k >= 2 => <<"merchant", v>> \in Held(q)
  BY <1>1, <1>2, <1>3
<1> QED
  BY <1>1, <1>4 DEF Locked

\* Nothing is known of a call that is not known of what it is equal to.
LEMMA SoundOf ==
  ASSUME NEW p, NEW t, tx'[p] = t, Sound(t)'
  PROVE  Sound(tx[p])'
BY DEF Sound, Reads, Contacts24, Contacts7, HadContact, Ledger!ContactsAfter, Ledger!Active,
       Ledger!Remaining, Ledger!HasActiveClaim

\* A step of one caller that leaves the tables alone.
LEMMA LocalStep ==
  ASSUME IssueInv, NEW p \in Callers, NEW t, tx' = [tx EXCEPT ![p] = t],
         UNCHANGED <<grants, merchant, customer, cache>>, Sound(t),
         \A q \in Callers \ {p} : Apart(t, tx[q])
  PROVE  IssueInv'
<1>1. /\ Ledger!TypeOK' /\ Ledger!GrantsInBand' /\ Cached'
  BY DEF IssueInv, Ledger!TypeOK, Ledger!GrantsInBand, Ledger!InItsBand, Cached,
         CacheOK, HasState, CacheCoversLedger, Ledger!ContactsAfter, Ledger!Active
<1>2. /\ tx' = [q \in Callers |-> tx'[q]] /\ tx'[p] = t
      /\ \A q \in Callers \ {p} : tx'[q] = tx[q]
  BY DEF IssueInv
<1>3. ASSUME NEW u, Sound(u) PROVE Sound(u)'
  BY <1>3 DEF Sound, Reads, Contacts24, Contacts7, HadContact, Ledger!ContactsAfter,
              Ledger!Active, Ledger!Remaining, Ledger!HasActiveClaim
<1>4. ASSUME NEW q \in Callers PROVE Sound(tx[q])'
  <2>1. PICK u : u = tx'[q] /\ Sound(u)
    BY <1>2 DEF IssueInv
  <2> QED
    BY <1>3, <2>1, SoundOf
<1>5. ASSUME NEW q \in Callers, NEW o \in Callers, q # o PROVE Apart(tx[q], tx[o])'
  <2>1. CASE q # p /\ o # p
    BY <1>2, <1>5, <2>1 DEF IssueInv, Apart
  <2>2. CASE q = p
    BY <1>2, <1>5, <2>2 DEF Apart
  <2>3. CASE o = p
    BY <1>2, <1>5, <2>3 DEF Apart
  <2> QED
    BY <2>1, <2>2, <2>3
<1> QED
  BY <1>1, <1>2, <1>4, <1>5 DEF IssueInv

-----------------------------------------------------------------------------
(* Steps of one caller that leave the tables alone. *)

\* Outside a transaction nothing is held, and nothing has been read.
LEMMA Idle ==
  ASSUME NEW t, t.step = -1
  PROVE  \A u : Apart(t, u)
BY DEF Apart

LEMMA NewCallSound ==
  ASSUME NEW r \in Requests, NEW w \in Windows, NEW s \in Nat, NEW ask \in Nat,
         NEW k \in 0..MaxAttempts,
         k > 0 => s \in Ledger!SendTimes(w) /\ ask \in 0..RequestedCeiling[r]
  PROVE  NewCall(r, w, s, ask, k).step = -1 /\ Sound(NewCall(r, w, s, ask, k))
<1>1. NewCall(r, w, s, ask, k) \in Call
  BY DEF NewCall, Call, Answers
<1> QED
  BY <1>1 DEF NewCall, Sound

LEMMA AnsweredSound ==
  ASSUME NEW t, t \in Call, NEW a \in Answers,
         a = "issued" => grants[t.request].state # "none",
         a \in {"contact_cap_24h", "contact_cap_7d"} => HadContact(CustomerOf[t.request])
  PROVE  Answered(t, a).step = -1 /\ Sound(Answered(t, a))
<1>1. AnyWindow \in Windows
  BY CallersAssumption DEF AnyWindow
<1>2. t.request \in Requests
  BY DEF Call
<1>3. 0 \in 0..MaxAttempts
  BY CallersAssumption
<1> DEFINE n == NewCall(t.request, AnyWindow, 0, 0, 0)
<1>4. n \in Call /\ n.step = -1 /\ n.attempt = 0 /\ n.request = t.request
  BY <1>1, <1>2, <1>3 DEF NewCall, Call, Answers
<1>5. Answered(t, a) = [n EXCEPT !.answer = a]
  BY DEF Answered
<1> HIDE DEF n
<1>6. /\ Answered(t, a) \in Call /\ Answered(t, a).step = -1 /\ Answered(t, a).attempt = 0
      /\ Answered(t, a).request = t.request /\ Answered(t, a).answer = a
  BY <1>4, <1>5 DEF Call
<1> QED
  BY <1>6 DEF Sound

\* A call that is answered.
LEMMA AnswerStep ==
  ASSUME IssueInv, NEW p \in Callers, NEW a \in Answers,
         tx' = [tx EXCEPT ![p] = Answered(tx[p], a)],
         UNCHANGED <<grants, merchant, customer, cache>>,
         a = "issued" => grants[tx[p].request].state # "none",
         a \in {"contact_cap_24h", "contact_cap_7d"} =>
           HadContact(CustomerOf[tx[p].request])
  PROVE  IssueInv'
<1>1. PICK t : t = tx[p] /\ Sound(t)
  BY DEF IssueInv
<1>2. t \in Call
  BY <1>1 DEF Sound
<1>3. Answered(t, a).step = -1 /\ Sound(Answered(t, a))
  BY <1>1, <1>2, AnsweredSound
<1>4. \A u : Apart(Answered(t, a), u)
  BY <1>3, Idle
<1>5. tx' = [tx EXCEPT ![p] = Answered(t, a)]
  BY <1>1
<1> QED
  BY <1>3, <1>4, <1>5, LocalStep

\* A call that begins, or begins again.
LEMMA StartStep ==
  ASSUME IssueInv, NEW p \in Callers, NEW r \in Requests, NEW w \in Windows, NEW s \in Nat,
         NEW ask \in Nat, NEW k \in 0..MaxAttempts,
         k > 0 => s \in Ledger!SendTimes(w) /\ ask \in 0..RequestedCeiling[r],
         tx' = [tx EXCEPT ![p] = NewCall(r, w, s, ask, k)],
         UNCHANGED <<grants, merchant, customer, cache>>
  PROVE  IssueInv'
<1>1. NewCall(r, w, s, ask, k).step = -1 /\ Sound(NewCall(r, w, s, ask, k))
  BY NewCallSound
<1>2. \A u : Apart(NewCall(r, w, s, ask, k), u)
  BY <1>1, Idle
<1> QED
  BY <1>1, <1>2, LocalStep

LEMMA SerializationFailureStep ==
  ASSUME IssueInv, NEW p \in Callers, SerializationFailure(p)
  PROVE  IssueInv'
<1>1. PICK t : t = tx[p] /\ Sound(t) /\ t.step >= 0
  BY DEF IssueInv, SerializationFailure, InTransaction
<1>2. /\ t \in Call /\ t.attempt > 0 /\ t.sendAfter \in Ledger!SendTimes(t.window)
      /\ t.ask \in 0..RequestedCeiling[t.request]
  BY <1>1 DEF Sound
<1>3. /\ t.request \in Requests /\ t.window \in Windows /\ t.sendAfter \in Nat /\ t.ask \in Nat
      /\ t.attempt \in 0..MaxAttempts
  BY <1>2 DEF Call
<1>4. CASE t.attempt = MaxAttempts
  <2>1. tx' = [tx EXCEPT ![p] = Answered(tx[p], "contact_slot_taken")]
    BY <1>1, <1>4 DEF SerializationFailure
  <2> QED
    BY <2>1, AnswerStep DEF SerializationFailure, Answers
<1>5. CASE t.attempt # MaxAttempts
  <2>1. t.attempt + 1 \in 0..MaxAttempts
    BY <1>3, <1>5, CallersAssumption
  <2>2. tx' = [tx EXCEPT ![p] =
                 NewCall(t.request, t.window, t.sendAfter, t.ask, t.attempt + 1)]
    BY <1>1, <1>5 DEF SerializationFailure
  <2>3. UNCHANGED <<grants, merchant, customer, cache>>
    BY DEF SerializationFailure
  <2> QED
    BY <1>2, <1>3, <2>1, <2>2, <2>3, StartStep
<1> QED
  BY <1>4, <1>5

\* The contacts the caps count: the week's include the day's.
LEMMA CountFacts ==
  ASSUME IssueInv, NEW c \in Customers, NEW w \in Windows
  PROVE  /\ Cardinality(Contacts24(c, w)) \in Nat /\ Cardinality(Contacts7(c, w)) \in Nat
         /\ Cardinality(Contacts24(c, w)) <= Cardinality(Contacts7(c, w))
         /\ Cardinality(Contacts7(c, w)) > 0 => HadContact(c)
<1>1. w \in Nat /\ DayLen \in Nat /\ OpenAt \in Nat /\ WeekDays \in Nat \ {0}
  BY LedgerAssumption
<1>2. w * DayLen \in Nat
  BY <1>1
<1>3. WeekDays * DayLen \in Nat /\ DayLen <= WeekDays * DayLen
  <2>1. PICK d, k : d = DayLen /\ k = WeekDays - 1 /\ d \in Nat /\ k \in Nat
    BY <1>1
  <2>2. k * d \in Nat /\ WeekDays * d = k * d + d
    BY <1>1, <2>1
  <2> QED
    BY <2>1, <2>2
<1>4. Ledger!WindowStart(w) \in Nat
  BY <1>1, <1>2 DEF Ledger!WindowStart
<1>5. \A r \in Requests : grants[r].sendAfter \in Nat
  BY DEF IssueInv, Ledger!TypeOK, Ledger!Grant
<1>6. Contacts24(c, w) \subseteq Contacts7(c, w)
  <2>1. PICK o, d, k : o = Ledger!WindowStart(w) /\ d = DayLen /\ k = WeekDays * DayLen
    OBVIOUS
  <2>2. o - k <= o - d /\ o \in Nat /\ d \in Nat /\ k \in Nat
    BY <1>1, <1>3, <1>4, <2>1
  <2>3. \A r \in Requests : grants[r].sendAfter > o - d => grants[r].sendAfter > o - k
    BY <1>5, <2>2
  <2> QED
    BY <2>1, <2>3 DEF Contacts24, Contacts7, Ledger!ContactsAfter, Ledger!Active
<1>7. Contacts7(c, w) \subseteq Requests /\ IsFiniteSet(Requests)
  BY LedgerAssumption DEF Contacts7, Ledger!ContactsAfter, Ledger!Active
<1>8. IsFiniteSet(Contacts7(c, w))
  BY <1>7, FS_Subset
<1>9. /\ IsFiniteSet(Contacts24(c, w))
      /\ Cardinality(Contacts24(c, w)) <= Cardinality(Contacts7(c, w))
  BY <1>6, <1>8, FS_Subset
<1>10. Cardinality(Contacts24(c, w)) \in Nat /\ Cardinality(Contacts7(c, w)) \in Nat
  BY <1>8, <1>9, FS_CardinalityType
<1>11. ASSUME Contacts7(c, w) # {} PROVE HadContact(c)
  BY <1>11 DEF Contacts7, Ledger!ContactsAfter, Ledger!Active, Ledger!CapacityConsuming,
               HadContact
<1>12. Cardinality(Contacts7(c, w)) > 0 => Contacts7(c, w) # {}
  BY FS_EmptySet
<1> QED
  BY <1>9, <1>10, <1>11, <1>12

LEMMA BeginStep ==
  ASSUME IssueInv, NEW p \in Callers, Begin(p)
  PROVE  IssueInv'
<1>1. PICK t : t = tx[p] /\ Sound(t)
  BY DEF IssueInv
<1>2. /\ t \in Call /\ t.attempt > 0 /\ t.step = -1
      /\ t.request \in Requests /\ t.window \in Windows
  BY <1>1 DEF Sound, Begin, InTransaction, Call
<1>3. PICK c, w : c = CustomerOf[t.request] /\ w = t.window /\ c \in Customers /\ w \in Windows
  BY <1>2, LedgerAssumption
<1>4. CASE grants[t.request].state # "none"
  <2>1. /\ tx' = [tx EXCEPT ![p] = Answered(tx[p], "issued")]
        /\ UNCHANGED <<grants, merchant, customer, cache>>
    BY <1>1, <1>4 DEF Begin
  <2> QED
    BY <1>1, <1>4, <2>1, AnswerStep DEF Answers
<1>5. CASE grants[t.request].state = "none"
  <2> DEFINE u == [t EXCEPT !.step = 0, !.c24 = Cardinality(Contacts24(c, w)),
                            !.c7 = Cardinality(Contacts7(c, w))]
  <2>1. tx' = [tx EXCEPT ![p] = u] /\ UNCHANGED <<grants, merchant, customer, cache>>
    BY <1>1, <1>3, <1>5 DEF Begin, Contacts24, Contacts7
  <2>2. /\ Cardinality(Contacts24(c, w)) \in Nat /\ Cardinality(Contacts7(c, w)) \in Nat
        /\ Cardinality(Contacts24(c, w)) <= Cardinality(Contacts7(c, w))
        /\ Cardinality(Contacts7(c, w)) > 0 => HadContact(c)
    BY <1>3, CountFacts
  <2>3. u \in Call
    <3>1. 0 \in -1..5
      OBVIOUS
    <3> QED
      BY <1>2, <2>2, <3>1 DEF Call
  <2>4. /\ u.step = 0 /\ u.request = t.request /\ u.window = w /\ u.attempt = t.attempt
        /\ u.answer = t.answer /\ u.sendAfter = t.sendAfter /\ u.ask = t.ask
        /\ u.c24 = Cardinality(Contacts24(c, w)) /\ u.c7 = Cardinality(Contacts7(c, w))
    BY <1>2, <1>3 DEF Call
  <2> HIDE DEF u
  <2>5. Reads(u)
    BY <1>3, <1>5, <2>2, <2>4 DEF Reads
  <2>6. Sound(u)
    BY <1>1, <1>2, <1>3, <2>3, <2>4, <2>5 DEF Sound
  <2>7. \A q \in Callers \ {p} : Apart(u, tx[q])
    BY <2>4 DEF Apart
  <2> QED
    BY <2>1, <2>6, <2>7, LocalStep
<1> QED
  BY <1>4, <1>5

\* A transaction that takes its next row, and knows then what it should.
LEMMA AdvanceStep ==
  ASSUME IssueInv, NEW p \in Callers, NEW k \in 0..4, NEW x \in Nat,
         tx[p].step = k,
         tx' = [tx EXCEPT ![p] = [tx[p] EXCEPT !.step = k + 1, !.ceiling = x]],
         UNCHANGED <<grants, merchant, customer, cache>>,
         k >= 3 => x = tx[p].ceiling,
         Reads([tx[p] EXCEPT !.step = k + 1, !.ceiling = x]),
         k = 0 => ~Locked(<<"request", tx[p].request>>),
         k = 1 => ~Locked(<<"merchant", tx[p].window>>)
  PROVE  IssueInv'
<1>1. PICK t : t = tx[p] /\ Sound(t)
  BY DEF IssueInv
<1>2. t \in Call /\ t.step = k /\ t.attempt > 0
  BY <1>1 DEF Sound
<1> DEFINE u == [t EXCEPT !.step = k + 1, !.ceiling = x]
<1>3. tx' = [tx EXCEPT ![p] = u] /\ Reads(u)
  BY <1>1
<1>4. u \in Call
  <2>1. k + 1 \in -1..5
    OBVIOUS
  <2> QED
    BY <1>2, <2>1 DEF Call
<1>5. /\ u.step = k + 1 /\ u.request = t.request /\ u.window = t.window
      /\ u.attempt = t.attempt /\ u.answer = t.answer /\ u.sendAfter = t.sendAfter
      /\ u.ask = t.ask
  BY <1>2 DEF Call
<1> HIDE DEF u
<1>6. Sound(u)
  BY <1>1, <1>2, <1>3, <1>4, <1>5 DEF Sound
<1>7. ASSUME NEW q \in Callers \ {p} PROVE Apart(u, tx[q])
  <2>1. Apart(t, tx[q]) /\ tx[q].step \in -1..5
    BY <1>1 DEF IssueInv, Sound, Call
  <2>2. tx[q].step >= 1 => (k = 0 => tx[q].request # t.request)
    BY <1>1, <2>1, Unlocked
  <2>3. tx[q].step >= 2 => (k = 1 => tx[q].window # t.window)
    BY <1>1, <2>1, Unlocked
  <2> QED
    BY <1>2, <1>5, <2>1, <2>2, <2>3 DEF Apart
<1> QED
  BY <1>3, <1>6, <1>7, LocalStep

\* What a transaction has read stays read when it takes its next row, if that
\* row's own condition holds.
LEMMA ReadsOn ==
  ASSUME NEW t, t \in Call, t.step \in 0..4, Reads(t),
         t.step = 0 => grants[t.request].state = "none",
         t.step # 2,
         t.step = 3 => ~Ledger!HasActiveClaim(CustomerOf[t.request], t.window)
  PROVE  /\ Reads([t EXCEPT !.step = t.step + 1, !.ceiling = t.ceiling])
         /\ t.ceiling \in Nat
<1> DEFINE u == [t EXCEPT !.step = t.step + 1, !.ceiling = t.ceiling]
<1>1. /\ u.step = t.step + 1 /\ u.request = t.request /\ u.window = t.window
      /\ u.ask = t.ask /\ u.c24 = t.c24 /\ u.c7 = t.c7 /\ u.ceiling = t.ceiling
      /\ u.stale = t.stale /\ t.ceiling \in Nat
  BY DEF Call
<1> HIDE DEF u
<1>2. Reads(u)
  BY <1>1 DEF Reads
<1> QED
  BY <1>1, <1>2 DEF u

LEMMA PlainAdvance ==
  ASSUME IssueInv, NEW p \in Callers, Advance(p), tx[p].step \in 0..4, tx[p].step # 2,
         tx[p].step = 0 => grants[tx[p].request].state = "none",
         tx[p].step = 3 =>
           ~Ledger!HasActiveClaim(CustomerOf[tx[p].request], tx[p].window),
         tx[p].step = 0 => ~Locked(<<"request", tx[p].request>>),
         tx[p].step = 1 => ~Locked(<<"merchant", tx[p].window>>)
  PROVE  IssueInv'
<1>1. PICK t, k : t = tx[p] /\ Sound(t) /\ k = t.step
  BY DEF IssueInv
<1>2. t \in Call /\ Reads(t) /\ k \in 0..4
  BY <1>1 DEF Sound
<1>3. Reads([t EXCEPT !.step = k + 1, !.ceiling = t.ceiling]) /\ t.ceiling \in Nat
  BY <1>1, <1>2, ReadsOn
<1>4. tx' = [tx EXCEPT ![p] = [t EXCEPT !.step = k + 1, !.ceiling = t.ceiling]]
  <2>1. [t EXCEPT !.step = k + 1] = [t EXCEPT !.step = k + 1, !.ceiling = t.ceiling]
    BY <1>2 DEF Call
  <2>2. tx' = [tx EXCEPT ![p] = [t EXCEPT !.step = k + 1]]
    BY <1>1 DEF Advance
  <2> QED
    BY <2>1, <2>2
<1>5. UNCHANGED <<grants, merchant, customer, cache>>
  BY DEF Advance
<1>6. PICK x : x = t.ceiling /\ x \in Nat
  BY <1>3
<1> QED
  BY <1>1, <1>2, <1>3, <1>4, <1>5, <1>6, AdvanceStep

LEMMA StepType == ASSUME IssueInv, NEW p \in Callers PROVE tx[p].step \in -1..5
<1>1. PICK t : t = tx[p] /\ t \in Call
  BY DEF IssueInv, Sound
<1> QED
  BY <1>1 DEF Call

LEMMA LockStep ==
  ASSUME IssueInv, NEW p \in Callers, LockRequest(p) \/ LockMerchant(p)
  PROVE  IssueInv'
<1>1. tx[p].step \in -1..5
  BY StepType
<1>2. Advance(p) /\ ~Locked(NextRow(p)) /\ NextRow(p) \notin tx[p].stale
  BY DEF LockRequest, LockMerchant, CanLock, Fresh
<1>3. CASE LockRequest(p)
  <2>1. tx[p].step = 0 /\ NextRow(p) = <<"request", tx[p].request>>
    BY <1>1, <1>3, AtFacts DEF LockRequest
  <2>2. grants[tx[p].request].state = "none"
    <3>1. Reads(tx[p])
      BY <2>1 DEF IssueInv, Sound
    <3>2. <<"request", tx[p].request>> \notin tx[p].stale
      BY <1>2, <2>1
    <3> QED
      BY <3>1, <3>2 DEF Reads
  <2>3. /\ tx[p].step \in 0..4 /\ tx[p].step # 2 /\ tx[p].step # 3 /\ tx[p].step # 1
        /\ ~Locked(<<"request", tx[p].request>>)
    BY <1>2, <2>1
  <2> QED
    BY <1>2, <2>2, <2>3, PlainAdvance
<1>4. CASE LockMerchant(p)
  <2>1. tx[p].step = 1 /\ NextRow(p) = <<"merchant", tx[p].window>>
    BY <1>1, <1>4, AtFacts DEF LockMerchant
  <2>2. /\ tx[p].step \in 0..4 /\ tx[p].step # 2 /\ tx[p].step # 3 /\ tx[p].step # 0
        /\ ~Locked(<<"merchant", tx[p].window>>)
    BY <1>2, <2>1
  <2> QED
    BY <1>2, <2>2, PlainAdvance
<1> QED
  BY <1>3, <1>4

LEMMA InsertClaimStep ==
  ASSUME IssueInv, NEW p \in Callers, InsertClaim(p)
  PROVE  IssueInv'
<1>1. tx[p].step = 3
  BY StepType, AtFacts DEF InsertClaim
<1>2. CASE Ledger!HasActiveClaim(CustomerOf[tx[p].request], tx[p].window)
  <2>1. Deny(p, "contact_slot_taken")
    BY <1>2 DEF InsertClaim
  <2> QED
    BY <2>1, AnswerStep DEF Deny, Answers
<1>3. CASE ~Ledger!HasActiveClaim(CustomerOf[tx[p].request], tx[p].window)
  <2>1. Advance(p)
    BY <1>3 DEF InsertClaim
  <2>2. tx[p].step \in 0..4 /\ tx[p].step # 2 /\ tx[p].step # 1 /\ tx[p].step # 0
    BY <1>1
  <2> QED
    BY <1>3, <2>1, <2>2, PlainAdvance
<1> QED
  BY <1>2, <1>3

LEMMA WriteCacheStep ==
  ASSUME IssueInv, NEW p \in Callers, WriteCache(p)
  PROVE  IssueInv'
<1>1. tx[p].step = 4 /\ Advance(p)
  BY StepType, AtFacts DEF WriteCache
<1>2. /\ tx[p].step \in 0..4
      /\ tx[p].step # 3 /\ tx[p].step # 2 /\ tx[p].step # 1 /\ tx[p].step # 0
  BY <1>1
<1> QED
  BY <1>1, <1>2, PlainAdvance

LEMMA LockCustomerStep ==
  ASSUME IssueInv, NEW p \in Callers, LockCustomer(p)
  PROVE  IssueInv'
<1>1. PICK t : t = tx[p] /\ Sound(t)
  BY DEF IssueInv
<1>2. t.step = 2
  BY <1>1, StepType, AtFacts DEF LockCustomer
<1>3. /\ t \in Call /\ t.attempt > 0 /\ Reads(t)
      /\ t.request \in Requests /\ t.window \in Windows
      /\ t.ask \in Nat /\ t.c24 \in Nat /\ t.c7 \in Nat
  BY <1>1, <1>2 DEF Sound, Call
<1>4. PICK c, w : c = CustomerOf[t.request] /\ w = t.window /\ c \in Customers /\ w \in Windows
  BY <1>3, LedgerAssumption
<1>5. PICK m, l : /\ m = Ledger!Remaining(MerchantBudget, merchant[w])
                  /\ l = Ledger!Remaining(CustomerBudget[c], customer[c][w])
  OBVIOUS
<1>6. m \in Int /\ l \in Int
  <2>1. merchant[w] \in Ledger!Pool /\ customer[c][w] \in Ledger!Pool
    BY <1>4 DEF IssueInv, Ledger!TypeOK
  <2>2. MerchantBudget \in Nat /\ CustomerBudget[c] \in Nat
    BY <1>4, LedgerAssumption
  <2> QED
    BY <1>5, <2>1, <2>2 DEF Ledger!Pool, Ledger!Remaining
<1>7. t.c24 <= t.c7 /\ (t.c7 > 0 => HadContact(c))
  BY <1>3, <1>4 DEF Reads
<1>8. Cap24H \in Nat /\ Cap7D \in Nat /\ Cap24H > 0 /\ Cap7D > 0
  BY LedgerAssumption, CapsAssumption
<1>9. ASSUME NEW a \in Answers \ {"issued"}, Deny(p, a), t.c7 > 0 \/ a = "merchant_margin_exhausted"
                                                \/ a = "customer_margin_exhausted"
      PROVE  IssueInv'
  <2>1. a \in {"contact_cap_24h", "contact_cap_7d"} => HadContact(CustomerOf[tx[p].request])
    BY <1>1, <1>4, <1>7, <1>9
  <2> QED
    BY <1>9, <2>1, AnswerStep DEF Deny
<1> DEFINE Fit == /\ tx' = [tx EXCEPT ![p].step = @ + 1,
                             ![p].ceiling = Ledger!DowngradeToFit(t.ask, m, l)]
                  /\ UNCHANGED <<grants, merchant, customer, cache>>
<1>10. PICK a, b, h, k : a = t.c24 /\ b = t.c7 /\ h = Cap24H /\ k = Cap7D
  OBVIOUS
<1>11. (CASE m <= 0 -> Deny(p, "merchant_margin_exhausted")
          [] m > 0 /\ l <= 0 -> Deny(p, "customer_margin_exhausted")
          [] m > 0 /\ l > 0 /\ a >= h -> Deny(p, "contact_cap_24h")
          [] m > 0 /\ l > 0 /\ a < h /\ b >= k -> Deny(p, "contact_cap_7d")
          [] OTHER -> Fit)
  BY <1>1, <1>4, <1>5, <1>10 DEF LockCustomer
<1> HIDE DEF Fit
<1>12. a \in Nat /\ b \in Nat /\ h \in Nat /\ k \in Nat
  BY <1>3, <1>8, <1>10
<1>13. \/ Deny(p, "merchant_margin_exhausted") \/ Deny(p, "customer_margin_exhausted")
       \/ (Deny(p, "contact_cap_24h") /\ a >= h)
       \/ (Deny(p, "contact_cap_7d") /\ b >= k)
       \/ (Fit /\ m > 0 /\ l > 0 /\ a < h /\ b < k)
  BY <1>6, <1>11, <1>12
<1>14. \/ Deny(p, "merchant_margin_exhausted") \/ Deny(p, "customer_margin_exhausted")
       \/ (Deny(p, "contact_cap_24h") /\ t.c24 >= Cap24H)
       \/ (Deny(p, "contact_cap_7d") /\ t.c7 >= Cap7D)
       \/ (Fit /\ m > 0 /\ l > 0 /\ t.c24 < Cap24H /\ t.c7 < Cap7D)
  BY <1>10, <1>13
<1>15. CASE Fit /\ m > 0 /\ l > 0 /\ t.c24 < Cap24H /\ t.c7 < Cap7D
  <2> DEFINE x == Ledger!DowngradeToFit(t.ask, m, l)
             u == [t EXCEPT !.step = 2 + 1, !.ceiling = x]
  <2>1. x \in Nat
    BY <1>3, <1>6, <1>15 DEF Ledger!DowngradeToFit, Ledger!Lesser
  <2>2. /\ tx' = [tx EXCEPT ![p].step = @ + 1, ![p].ceiling = x]
        /\ UNCHANGED <<grants, merchant, customer, cache>>
    BY <1>15 DEF Fit
  <2> HIDE DEF x
  <2>3. tx' = [tx EXCEPT ![p] = u]
    <3>1. tx' = [tx EXCEPT ![p] = [[t EXCEPT !.step = t.step + 1] EXCEPT !.ceiling = x]]
      BY <1>1, <2>2 DEF IssueInv
    <3> QED
      BY <1>2, <3>1
  <2>4. /\ u.step = 3 /\ u.request = t.request /\ u.window = t.window /\ u.ask = t.ask
        /\ u.c24 = t.c24 /\ u.c7 = t.c7 /\ u.ceiling = x /\ u.stale = t.stale
    BY <1>3 DEF Call
  <2>5. tx' = [tx EXCEPT ![p] = [tx[p] EXCEPT !.step = 2 + 1, !.ceiling = x]]
    BY <1>1, <2>3
  <2>6. u = [tx[p] EXCEPT !.step = 2 + 1, !.ceiling = x]
    BY <1>1
  <2> HIDE DEF u
  <2>7. Reads(u)
    <3>1. /\ grants[t.request].state = "none"
          /\ <<"contacts", c>> \notin t.stale =>
               t.c24 >= Cardinality(Contacts24(c, w)) /\ t.c7 >= Cardinality(Contacts7(c, w))
      BY <1>2, <1>3, <1>4 DEF Reads
    <3>2. x = Ledger!DowngradeToFit(t.ask, m, l)
      BY DEF x
    <3>3. /\ u.step >= 3 /\ ~(u.step >= 4)
          /\ CustomerOf[u.request] = c /\ u.window = w
          /\ Ledger!Remaining(MerchantBudget, merchant[u.window]) = m
          /\ Ledger!Remaining(CustomerBudget[CustomerOf[u.request]],
                              customer[CustomerOf[u.request]][u.window]) = l
      BY <1>4, <1>5, <2>4
    <3> QED
      BY <1>7, <1>15, <2>4, <3>1, <3>2, <3>3 DEF Reads
  <2>8. /\ 2 \in 0..4 /\ ~(2 >= 3) /\ 2 # 0 /\ 2 # 1 /\ tx[p].step = 2
        /\ Reads([tx[p] EXCEPT !.step = 2 + 1, !.ceiling = x])
    BY <1>1, <1>2, <2>6, <2>7
  <2>9. PICK n : /\ n = 2 /\ n \in 0..4 /\ ~(n >= 3) /\ n # 0 /\ n # 1 /\ tx[p].step = n
                 /\ Reads([tx[p] EXCEPT !.step = n + 1, !.ceiling = x])
                 /\ tx' = [tx EXCEPT ![p] = [tx[p] EXCEPT !.step = n + 1, !.ceiling = x]]
    BY <2>5, <2>8
  <2> QED
    BY <2>1, <2>2, <2>9, AdvanceStep
<1>16. CASE \/ Deny(p, "merchant_margin_exhausted") \/ Deny(p, "customer_margin_exhausted")
            \/ (Deny(p, "contact_cap_24h") /\ t.c24 >= Cap24H)
            \/ (Deny(p, "contact_cap_7d") /\ t.c7 >= Cap7D)
  <2>1. t.c24 >= Cap24H \/ t.c7 >= Cap7D => t.c7 > 0
    BY <1>3, <1>7, <1>8
  <2> QED
    BY <1>9, <1>16, <2>1 DEF Answers
<1> QED
  BY <1>15, <1>16, <1>14

\* Every step of a caller but its commit.
LEMMA CallerStep ==
  ASSUME IssueInv, NEW p \in Callers,
         \/ \E r \in Requests, w \in Windows :
              \E s \in Ledger!SendTimes(w), ask \in 0..RequestedCeiling[r] :
                Start(p, r, w, s, ask)
         \/ Begin(p) \/ LockRequest(p) \/ LockMerchant(p) \/ LockCustomer(p)
         \/ InsertClaim(p) \/ WriteCache(p) \/ RowIsStale(p) \/ ReadsConflict(p)
         \/ FalsePositive(p) \/ Drop(p)
  PROVE  IssueInv' /\ UNCHANGED <<grants, merchant, customer>>
<1>1. ASSUME NEW r \in Requests, NEW w \in Windows, NEW s \in Ledger!SendTimes(w),
             NEW ask \in 0..RequestedCeiling[r], Start(p, r, w, s, ask)
      PROVE  IssueInv' /\ UNCHANGED <<grants, merchant, customer>>
  <2>1. s \in Nat
    <3>1. s \in LP!SendTimes(w)
      BY SameContacts
    <3> QED
      BY <3>1, LP!SendTimesFacts, LedgerAssumption, SameFinite
  <2>2. 1 \in 0..MaxAttempts /\ ask \in Nat
    BY CallersAssumption, LedgerAssumption
  <2>3. /\ tx' = [tx EXCEPT ![p] = NewCall(r, w, s, ask, 1)]
        /\ UNCHANGED <<grants, merchant, customer, cache>>
    BY <1>1 DEF Start
  <2> QED
    BY <2>1, <2>2, <2>3, StartStep
<1>2. CASE RowIsStale(p) \/ ReadsConflict(p) \/ FalsePositive(p)
  <2>1. SerializationFailure(p)
    BY <1>2 DEF RowIsStale, ReadsConflict, FalsePositive
  <2> QED
    BY <2>1, SerializationFailureStep DEF SerializationFailure
<1>3. CASE Drop(p)
  BY <1>3, AnswerStep DEF Drop, Deny, Answers
<1>4. CASE Begin(p)
  BY <1>4, BeginStep DEF Begin
<1>5. CASE LockRequest(p) \/ LockMerchant(p)
  BY <1>5, LockStep DEF LockRequest, LockMerchant, Advance
<1>6. CASE LockCustomer(p)
  <2>1. UNCHANGED <<grants, merchant, customer>>
    BY <1>6 DEF LockCustomer, Deny
  <2> QED
    BY <1>6, <2>1, LockCustomerStep
<1>7. CASE InsertClaim(p)
  BY <1>7, InsertClaimStep DEF InsertClaim, Deny, Advance
<1>8. CASE WriteCache(p)
  BY <1>8, WriteCacheStep DEF WriteCache, Advance
<1> QED
  BY <1>1, <1>2, <1>3, <1>4, <1>5, <1>6, <1>7, <1>8

-----------------------------------------------------------------------------
(* What a step of the tables leaves true of the callers that did not take it. *)

\* Contacts that become no more count for no more.
LEMMA FewerContacts ==
  ASSUME NEW c, Ledger!Active(c)' \subseteq Ledger!Active(c),
         \A q \in Ledger!Active(c)' : grants'[q].sendAfter = grants[q].sendAfter
  PROVE  \A t : /\ Ledger!ContactsAfter(c, t)' \subseteq Ledger!ContactsAfter(c, t)
                /\ Cardinality(Ledger!ContactsAfter(c, t))' \in Nat
                /\ Cardinality(Ledger!ContactsAfter(c, t)) \in Nat
                /\ Cardinality(Ledger!ContactsAfter(c, t))'
                     <= Cardinality(Ledger!ContactsAfter(c, t))
<1> TAKE t
<1> DEFINE A == Ledger!ContactsAfter(c, t)
           B == {r \in Ledger!Active(c)' : grants'[r].sendAfter > t}
<1>1. Ledger!ContactsAfter(c, t)' = B
  BY DEF Ledger!ContactsAfter
<1>2. B \subseteq A
  BY DEF Ledger!ContactsAfter
<1>3. A \subseteq Requests /\ IsFiniteSet(Requests)
  BY LedgerAssumption DEF Ledger!ContactsAfter, Ledger!Active
<1> HIDE DEF A, B
<1>4. IsFiniteSet(A)
  BY <1>3, FS_Subset
<1>5. IsFiniteSet(B) /\ Cardinality(B) <= Cardinality(A)
  BY <1>2, <1>4, FS_Subset
<1>6. Cardinality(A) \in Nat /\ Cardinality(B) \in Nat
  BY <1>4, <1>5, FS_CardinalityType
<1>7. Cardinality(Ledger!ContactsAfter(c, t))' = Cardinality(B)
  BY <1>1
<1> QED
  BY <1>1, <1>2, <1>5, <1>6, <1>7 DEF A

\* A caller's call after somebody else's step: its snapshot may be older than
\* more rows, and what it has read is as it was.
LEMMA OthersStay ==
  ASSUME NEW t, Sound(t), NEW rows \in SUBSET Rows, NEW u,
         u = IF t.step >= 0 THEN [t EXCEPT !.stale = @ \cup rows] ELSE t,
         NEW c \in Customers, NEW w \in Windows, c = CustomerOf[t.request], w = t.window,
         \A q \in Requests : grants[q].state # "none" => grants'[q].state # "none",
         t.step >= 0 /\ grants[t.request].state = "none" =>
           grants'[t.request].state = "none"
             \/ (t.step < 1 /\ <<"request", t.request>> \in rows),
         t.step >= 0 /\ <<"contacts", c>> \notin rows =>
           /\ Ledger!Active(c)' \subseteq Ledger!Active(c)
           /\ \A q \in Ledger!Active(c)' : grants'[q].sendAfter = grants[q].sendAfter,
         t.step >= 3 => merchant'[w] = merchant[w] /\ customer'[c][w] = customer[c][w],
         t.step >= 4 => (Ledger!HasActiveClaim(c, w)' => Ledger!HasActiveClaim(c, w))
  PROVE  Sound(u)'
<1>1. t \in Call /\ t.request \in Requests
  BY DEF Sound, Call
<1>2. HadContact(c) => HadContact(c)'
  BY DEF HadContact
<1>3. CASE ~(t.step >= 0)
  <2>1. u = t
    BY <1>3
  <2> QED
    BY <1>1, <1>2, <1>3, <2>1 DEF Sound
<1>4. CASE t.step >= 0
  <2>1. /\ u \in Call /\ u.request = t.request /\ u.window = w /\ u.sendAfter = t.sendAfter
        /\ u.ask = t.ask /\ u.attempt = t.attempt /\ u.step = t.step /\ u.c24 = t.c24
        /\ u.c7 = t.c7 /\ u.ceiling = t.ceiling /\ u.answer = t.answer
        /\ u.stale = t.stale \cup rows
        /\ t.c24 \in Nat /\ t.c7 \in Nat /\ t.step \in -1..5
    BY <1>1, <1>4 DEF Call
  <2>2. Reads(t) /\ t.attempt > 0
    BY <1>4 DEF Sound
  <2>3. u.step >= 1 \/ <<"request", u.request>> \notin u.stale =>
          grants'[u.request].state = "none"
    BY <1>4, <2>1, <2>2 DEF Reads
  <2>4. <<"contacts", c>> \notin u.stale =>
          /\ u.c24 >= Cardinality(Contacts24(c, w)')
          /\ u.c7 >= Cardinality(Contacts7(c, w)')
    <3> SUFFICES ASSUME <<"contacts", c>> \notin u.stale
                 PROVE  /\ u.c24 >= Cardinality(Contacts24(c, w)')
                        /\ u.c7 >= Cardinality(Contacts7(c, w)')
      OBVIOUS
    <3>1. <<"contacts", c>> \notin t.stale /\ <<"contacts", c>> \notin rows
      BY <2>1
    <3>2. t.c24 >= Cardinality(Contacts24(c, w)) /\ t.c7 >= Cardinality(Contacts7(c, w))
      BY <2>2, <3>1 DEF Reads
    <3>3. PICK a, b : /\ a = Ledger!WindowStart(w) - DayLen
                      /\ b = Ledger!WindowStart(w) - WeekDays * DayLen
      OBVIOUS
    <3>4. \A x : /\ Cardinality(Ledger!ContactsAfter(c, x))' \in Nat
                 /\ Cardinality(Ledger!ContactsAfter(c, x)) \in Nat
                 /\ Cardinality(Ledger!ContactsAfter(c, x))'
                      <= Cardinality(Ledger!ContactsAfter(c, x))
      BY <1>4, <3>1, FewerContacts
    <3>5. /\ Contacts24(c, w) = Ledger!ContactsAfter(c, a)
          /\ Contacts24(c, w)' = Ledger!ContactsAfter(c, a)'
          /\ Contacts7(c, w) = Ledger!ContactsAfter(c, b)
          /\ Contacts7(c, w)' = Ledger!ContactsAfter(c, b)'
      BY <3>3 DEF Contacts24, Contacts7, Ledger!ContactsAfter, Ledger!WindowStart
    <3> QED
      BY <2>1, <3>2, <3>4, <3>5
  <2>5. /\ u.c24 <= u.c7 /\ (u.c7 > 0 => HadContact(c)')
    BY <1>2, <2>1, <2>2 DEF Reads
  <2>6. u.step >= 3 =>
          /\ Ledger!Remaining(MerchantBudget, merchant'[w]) > 0
          /\ Ledger!Remaining(CustomerBudget[c], customer'[c][w]) > 0
          /\ u.c24 < Cap24H /\ u.c7 < Cap7D
          /\ u.ceiling = Ledger!DowngradeToFit(u.ask,
                           Ledger!Remaining(MerchantBudget, merchant'[w]),
                           Ledger!Remaining(CustomerBudget[c], customer'[c][w]))
    BY <2>1, <2>2 DEF Reads
  <2>7. u.step >= 4 => ~Ledger!HasActiveClaim(c, w)'
    BY <2>1, <2>2 DEF Reads
  <2>8. Reads(u)'
    BY <2>1, <2>3, <2>4, <2>5, <2>6, <2>7 DEF Reads, Ledger!Remaining
  <2>9. /\ u.answer = "issued" => grants'[u.request].state # "none"
        /\ u.answer \in {"contact_cap_24h", "contact_cap_7d"} => HadContact(c)'
        /\ u.sendAfter \in Ledger!SendTimes(w) /\ u.ask \in 0..RequestedCeiling[u.request]
    BY <1>1, <1>2, <2>1, <2>2 DEF Sound
  <2> QED
    BY <2>1, <2>2, <2>8, <2>9 DEF Sound, Ledger!SendTimes
<1> QED
  BY <1>3, <1>4

-----------------------------------------------------------------------------
(* Commits and lifecycle calls. *)

\* Whoever commits knows all that the ledger's Issue asks for.
LEMMA CommitIsIssue ==
  ASSUME IssueInv, NEW p \in Callers, Commit(p), NEW t, t = tx[p]
  PROVE  /\ t \in Call /\ t.step = 5 /\ Reads(t)
         /\ t.request \in Requests /\ t.window \in Windows
         /\ t.sendAfter \in Ledger!SendTimes(t.window)
         /\ t.ask \in 0..RequestedCeiling[t.request]
         /\ <<"contacts", CustomerOf[t.request]>> \notin t.stale
         /\ Ledger!Issue(t.request, t.window, t.sendAfter, t.ask)
<1>1. Sound(t) /\ t.step = 5
  BY StepType, AtFacts DEF IssueInv, Commit
<1>2. /\ t \in Call /\ Reads(t) /\ t.attempt > 0
      /\ t.request \in Requests /\ t.window \in Windows
      /\ t.sendAfter \in Ledger!SendTimes(t.window)
      /\ t.ask \in 0..RequestedCeiling[t.request]
      /\ t.c24 \in Nat /\ t.c7 \in Nat
  BY <1>1 DEF Sound, Call
<1>3. PICK r, w, c, s, ask, x :
        /\ r = t.request /\ w = t.window /\ c = CustomerOf[r] /\ s = t.sendAfter
        /\ ask = t.ask /\ x = t.ceiling /\ c \in Customers /\ w \in Windows
  BY <1>2, LedgerAssumption
<1>4. PICK m, l : /\ m = Ledger!Remaining(MerchantBudget, merchant[w])
                  /\ l = Ledger!Remaining(CustomerBudget[c], customer[c][w])
  OBVIOUS
<1>5. <<"contacts", c>> \notin t.stale
  BY <1>3 DEF Commit
<1>6. /\ grants[r].state = "none" /\ m > 0 /\ l > 0
      /\ t.c24 < Cap24H /\ t.c7 < Cap7D
      /\ x = Ledger!DowngradeToFit(ask, m, l) /\ ~Ledger!HasActiveClaim(c, w)
      /\ t.c24 >= Cardinality(Contacts24(c, w)) /\ t.c7 >= Cardinality(Contacts7(c, w))
  BY <1>1, <1>2, <1>3, <1>4, <1>5 DEF Reads
<1>7. Ledger!BelowCaps(c, w)
  <2>1. /\ Cardinality(Contacts24(c, w)) \in Nat /\ Cardinality(Contacts7(c, w)) \in Nat
        /\ Cap24H \in Nat /\ Cap7D \in Nat
    BY <1>3, CountFacts, LedgerAssumption
  <2>2. Cardinality(Contacts24(c, w)) < Cap24H /\ Cardinality(Contacts7(c, w)) < Cap7D
    BY <1>2, <1>6, <2>1
  <2> QED
    BY <2>2, SameContacts DEF Ledger!BelowCaps, Contacts24, Contacts7
<1>8. /\ grants' = [grants EXCEPT ![r] =
           [state |-> "RESERVED", window |-> w, sendAfter |-> s,
            expiresAt |-> s + GrantTTL, ceiling |-> x]]
      /\ merchant' = [merchant EXCEPT ![w].reserved = @ + x]
      /\ customer' = [customer EXCEPT ![c][w].reserved = @ + x]
  BY <1>3 DEF Commit
<1>9. Ledger!Issue(r, w, s, ask)
  BY <1>3, <1>4, <1>6, <1>7, <1>8 DEF Ledger!Issue
<1> QED
  BY <1>1, <1>2, <1>3, <1>5, <1>9

\* What an issue changes, and what it leaves alone.
LEMMA IssueChanges ==
  ASSUME IssueInv, NEW r \in Requests, NEW w \in Windows, NEW s \in Ledger!SendTimes(w),
         NEW ask \in 0..RequestedCeiling[r], Ledger!Issue(r, w, s, ask),
         NEW c, c = CustomerOf[r]
  PROVE  /\ c \in Customers
         /\ Ledger!TypeOK' /\ Ledger!GrantsInBand'
         /\ grants[r].state = "none" /\ grants'[r].state = "RESERVED"
         /\ grants'[r].window = w /\ grants'[r].sendAfter = s
         /\ \A q \in Requests \ {r} : grants'[q] = grants[q]
         /\ r \notin Ledger!Active(c) /\ Ledger!Active(c)' = Ledger!Active(c) \cup {r}
         /\ \A d \in Customers \ {c} : Ledger!Active(d)' = Ledger!Active(d)
         /\ \A v \in Windows \ {w} : merchant'[v] = merchant[v]
         /\ \A d \in Customers, v \in Windows : v # w => customer'[d][v] = customer[d][v]
<1>1. LP!TypeInv
  BY SameTables DEF IssueInv
<1>2. s \in LP!SendTimes(w) /\ LP!Issue(r, w, s, ask)
  BY SameContacts, SameIssue
<1>3. LP!TypeInv'
  BY <1>1, <1>2, LP!IssueType, LedgerAssumption, SameFinite
<1>4. Ledger!TypeOK' /\ Ledger!GrantsInBand'
  BY <1>3, SameTables, PTL
<1>5. /\ grants[r].state = "none" /\ grants'[r].state = "RESERVED"
      /\ grants'[r].window = w /\ grants'[r].sendAfter = s
      /\ \A q \in Requests \ {r} : grants'[q] = grants[q]
  BY <1>1, <1>2, LP!IssueAdds, LedgerAssumption, SameFinite
<1>6. c \in Customers
  BY LedgerAssumption
<1>7. /\ r \notin Ledger!Active(c) /\ Ledger!Active(c)' = Ledger!Active(c) \cup {r}
      /\ \A d \in Customers \ {c} : Ledger!Active(d)' = Ledger!Active(d)
  BY <1>5 DEF Ledger!Active, Ledger!CapacityConsuming
<1>8. PICK x : /\ merchant' = [merchant EXCEPT ![w].reserved = @ + x]
               /\ customer' = [customer EXCEPT ![c][w].reserved = @ + x]
  BY DEF Ledger!Issue
<1>9. merchant \in [Windows -> Ledger!Pool] /\ customer \in [Customers -> [Windows -> Ledger!Pool]]
  BY DEF IssueInv, Ledger!TypeOK
<1>10. \A v \in Windows \ {w} : merchant'[v] = merchant[v]
  BY <1>8, <1>9
<1>11. \A d \in Customers, v \in Windows : v # w => customer'[d][v] = customer[d][v]
  BY <1>6, <1>8, <1>9
<1> QED
  BY <1>4, <1>5, <1>6, <1>7, <1>10, <1>11

\* What a lifecycle call of the ledger changes, and what it leaves alone.
LEMMA CallChanges ==
  ASSUME IssueInv, NEW r \in Requests,
         \/ Ledger!Execute(r)
         \/ \E spend \in 0..grants[r].ceiling : Ledger!Confirm(r, spend)
         \/ Ledger!Rollback(r)
         \/ \E now \in Instants : Ledger!Expire(r, now)
  PROVE  /\ Ledger!TypeOK' /\ Ledger!GrantsInBand' /\ Ledger!Next
         /\ \A d \in Customers : Ledger!Active(d)' \subseteq Ledger!Active(d)
         /\ \A q \in Requests : /\ grants'[q].sendAfter = grants[q].sendAfter
                                /\ grants'[q].window = grants[q].window
                                /\ grants[q].state = "none" <=> grants'[q].state = "none"
         /\ \A v \in Windows \ {grants[r].window} :
              /\ merchant'[v] = merchant[v]
              /\ \A d \in Customers : customer'[d][v] = customer[d][v]
         /\ Ledger!Execute(r) => UNCHANGED <<merchant, customer>>
<1>1. LP!TypeInv
  BY SameTables DEF IssueInv
<1>2. LP!Step(r) /\ Ledger!Next
  <2>1. Ledger!Next
    BY DEF Ledger!Next
  <2>2. LP!Step(r)
    BY SameCalls DEF LP!Step
  <2> QED
    BY <2>1, <2>2
<1>3. grants[r].state # "none"
  BY DEF Ledger!Execute, Ledger!Confirm, Ledger!Rollback, Ledger!Expire, Ledger!Move,
         Ledger!Reserving
<1>4. LP!TypeInv' /\ LP!Lifecycle(r)
  <2>1. /\ LP!TypeInv'
        /\ \/ \E w \in Windows : \E s \in LP!SendTimes(w), ask \in 0..RequestedCeiling[r] :
                LP!Issue(r, w, s, ask)
           \/ LP!Lifecycle(r)
    BY <1>1, <1>2, LP!StepKinds, LedgerAssumption, SameFinite
  <2> QED
    BY <1>3, <2>1 DEF LP!Issue
<1>5. Ledger!TypeOK' /\ Ledger!GrantsInBand'
  BY <1>4, SameTables, PTL
<1>6. \A d \in Customers :
        /\ Ledger!Active(d)' \subseteq Ledger!Active(d)
        /\ \A q \in Requests : /\ grants'[q].window = grants[q].window
                               /\ grants'[q].sendAfter = grants[q].sendAfter
  BY <1>4 DEF LP!Lifecycle, Ledger!Active, LP!Reserving, Ledger!CapacityConsuming
<1>7. \A q \in Requests : /\ grants'[q].sendAfter = grants[q].sendAfter
                          /\ grants'[q].window = grants[q].window
                          /\ grants[q].state = "none" <=> grants'[q].state = "none"
  BY <1>4 DEF LP!Lifecycle, LP!Reserving, LP!Terminal
<1>8. Ledger!Execute(r) => UNCHANGED <<merchant, customer>>
  BY DEF Ledger!Execute
<1>9. \A v \in Windows \ {grants[r].window} :
        /\ merchant'[v] = merchant[v]
        /\ \A d \in Customers : customer'[d][v] = customer[d][v]
  <2>1. CASE UNCHANGED <<merchant, customer>>
    BY <2>1
  <2>2. ASSUME NEW spend, LP!Settle(r, spend)
        PROVE  \A v \in Windows \ {grants[r].window} :
                 /\ merchant'[v] = merchant[v]
                 /\ \A d \in Customers : customer'[d][v] = customer[d][v]
    <3>1. /\ merchant \in [Windows -> Ledger!Pool]
          /\ customer \in [Customers -> [Windows -> Ledger!Pool]]
      BY DEF IssueInv, Ledger!TypeOK
    <3>2. PICK u, c, a, b : /\ u = grants[r].window /\ c = CustomerOf[r]
                 /\ merchant' = [merchant EXCEPT ![u] = a]
                 /\ customer' = [customer EXCEPT ![c][u] = b]
      BY <2>2 DEF LP!Settle
    <3> QED
      BY <3>1, <3>2, LedgerAssumption
  <2> QED
    BY <1>4, <2>1, <2>2 DEF LP!Lifecycle
<1> QED
  BY <1>2, <1>5, <1>6, <1>7, <1>8, <1>9

\* The rows that a commit or a lifecycle call writes are rows.
LEMMA RowTypes ==
  ASSUME NEW r \in Requests, NEW w \in Windows, NEW c \in Customers
  PROVE  /\ <<"request", r>> \in Rows /\ <<"merchant", w>> \in Rows
         /\ <<"customer", c, w>> \in Rows /\ <<"cache", c>> \in Rows
         /\ <<"contacts", c>> \in Rows
BY DEF Rows

\* After a step that only makes snapshots older, calls are as much apart as before.
LEMMA StaleApart ==
  ASSUME NEW t, NEW u, NEW v, NEW x, Apart(t, u), NEW rows,
         t \in Call, u \in Call,
         v.step = -1 \/ v = IF t.step >= 0 THEN [t EXCEPT !.stale = @ \cup rows] ELSE t,
         x.step = -1 \/ x = IF u.step >= 0 THEN [u EXCEPT !.stale = @ \cup rows] ELSE u
  PROVE  Apart(v, x)
<1>1. v.step = -1 \/ (v.step = t.step /\ v.request = t.request /\ v.window = t.window)
  BY DEF Call
<1>2. x.step = -1 \/ (x.step = u.step /\ x.request = u.request /\ x.window = u.window)
  BY DEF Call
<1> QED
  BY <1>1, <1>2 DEF Apart

\* An answer is right if it is when it is given.
LEMMA IssuedFacts ==
  ASSUME NEW t, t \in Call
  PROVE  /\ Answered(t, "issued") \in Call /\ Answered(t, "issued").step = -1
         /\ Answered(t, "issued").attempt = 0 /\ Answered(t, "issued").answer = "issued"
         /\ Answered(t, "issued").request = t.request
<1>1. AnyWindow \in Windows /\ 0 \in 0..MaxAttempts
  BY CallersAssumption DEF AnyWindow
<1> DEFINE n == NewCall(t.request, AnyWindow, 0, 0, 0)
<1>2. n \in Call /\ n.step = -1 /\ n.attempt = 0 /\ n.request = t.request
  BY <1>1 DEF NewCall, Call, Answers
<1>3. Answered(t, "issued") = [n EXCEPT !.answer = "issued"]
  BY DEF Answered
<1> HIDE DEF n
<1> QED
  BY <1>2, <1>3 DEF Call, Answers

\* The counters that a commit writes cover the contact it adds.
LEMMA CommitCaches ==
  ASSUME IssueInv, NEW p \in Callers, Commit(p)
  PROVE  Cached'
<1>1. PICK t : t = tx[p]
  OBVIOUS
<1>2. PICK r, w, c, s, ask :
        /\ r = t.request /\ w = t.window /\ c = CustomerOf[r] /\ s = t.sendAfter
        /\ ask = t.ask
  OBVIOUS
<1>3. /\ t \in Call /\ t.step = 5 /\ Reads(t) /\ r \in Requests /\ w \in Windows
      /\ s \in Ledger!SendTimes(w) /\ ask \in 0..RequestedCeiling[r]
      /\ <<"contacts", c>> \notin t.stale /\ Ledger!Issue(r, w, s, ask)
  BY <1>1, <1>2, CommitIsIssue
<1>4. /\ c \in Customers /\ Ledger!TypeOK'
      /\ grants'[r].sendAfter = s
      /\ \A q \in Requests \ {r} : grants'[q] = grants[q]
      /\ r \notin Ledger!Active(c) /\ Ledger!Active(c)' = Ledger!Active(c) \cup {r}
      /\ \A d \in Customers \ {c} : Ledger!Active(d)' = Ledger!Active(d)
  BY <1>2, <1>3, IssueChanges
<1>5. t.c24 \in Nat /\ t.c7 \in Nat /\ t.sendAfter \in Nat
  BY <1>3 DEF Call
<1>6. /\ t.c24 < Cap24H /\ t.c7 < Cap7D /\ t.c24 <= t.c7
      /\ t.c24 >= Cardinality(Contacts24(c, w)) /\ t.c7 >= Cardinality(Contacts7(c, w))
  BY <1>2, <1>3 DEF Reads
<1>7. s \div DayLen = w
  <2>1. /\ w \in Nat /\ DayLen \in Nat /\ OpenAt \in Nat /\ CloseAt \in Nat
        /\ OpenAt < CloseAt /\ CloseAt <= DayLen /\ s \in Nat
    BY <1>2, <1>3, <1>5, LedgerAssumption
  <2>2. PICK d, k : d = DayLen /\ k = w * d /\ d \in Nat /\ k \in Nat
    BY <2>1
  <2>3. k + OpenAt <= s /\ s <= k + CloseAt - 1
    BY <1>3, <2>1, <2>2 DEF Ledger!SendTimes, Ledger!WindowStart
  <2>4. k <= s /\ s < k + d /\ d > 0
    BY <2>1, <2>2, <2>3
  <2>5. s \div d = w
    BY <2>1, <2>2, <2>4
  <2> QED
    BY <2>2, <2>5
<1>8. /\ HasState \subseteq Customers
      /\ cache \in [HasState -> [c24 : Nat, c7 : Nat, last : Nat]]
      /\ CacheCoversLedger
  BY DEF IssueInv, Cached, CacheOK
<1>9. NewCache(t.c24 + 1, t.c7 + 1, s) \in [c24 : Nat, c7 : Nat, last : Nat]
  BY <1>2, <1>5 DEF NewCache
<1>10. cache' = IF c \in HasState
                THEN [cache EXCEPT ![c] = NewCache(t.c24 + 1, t.c7 + 1, s)] ELSE cache
  BY <1>1, <1>2 DEF Commit
<1>11. /\ cache' \in [HasState -> [c24 : Nat, c7 : Nat, last : Nat]]
       /\ HasState' = HasState
  <2>1. cache' \in [HasState -> [c24 : Nat, c7 : Nat, last : Nat]]
    BY <1>8, <1>9, <1>10
  <2> QED
    BY <2>1 DEF HasState
<1>12. ASSUME NEW x
       PROVE  Cardinality(Ledger!ContactsAfter(c, x)') <=
                Cardinality(Ledger!ContactsAfter(c, x)) + 1
  <2> DEFINE A == Ledger!ContactsAfter(c, x)
             B == {q \in Ledger!Active(c)' : grants'[q].sendAfter > x}
  <2>1. Ledger!ContactsAfter(c, x)' = B
    BY DEF Ledger!ContactsAfter
  <2>2. B \subseteq A \cup {r}
    BY <1>4 DEF Ledger!ContactsAfter, Ledger!Active
  <2>3. IsFiniteSet(A)
    <3>1. A \subseteq Requests /\ IsFiniteSet(Requests)
      BY LedgerAssumption DEF Ledger!ContactsAfter, Ledger!Active
    <3> QED
      BY <3>1, FS_Subset
  <2>4. r \notin A
    BY <1>4 DEF Ledger!ContactsAfter
  <2> HIDE DEF A, B
  <2>5. IsFiniteSet(A \cup {r}) /\ Cardinality(A \cup {r}) = Cardinality(A) + 1
    BY <2>3, <2>4, FS_AddElement
  <2>6. Cardinality(B) <= Cardinality(A \cup {r})
    BY <2>2, <2>5, FS_Subset
  <2> QED
    BY <2>1, <2>5, <2>6 DEF A
<1>13. ASSUME NEW d \in Customers \ {c}, NEW x
       PROVE  Cardinality(Ledger!ContactsAfter(d, x)') <= Cardinality(Ledger!ContactsAfter(d, x))
              /\ Cardinality(Ledger!ContactsAfter(d, x)') \in Nat
              /\ Cardinality(Ledger!ContactsAfter(d, x)) \in Nat
  <2>1. \A q \in Ledger!Active(d)' : q \in Requests /\ CustomerOf[q] = d
    BY DEF Ledger!Active
  <2>2. \A q \in Ledger!Active(d)' : grants'[q].sendAfter = grants[q].sendAfter
    BY <1>2, <1>4, <2>1
  <2>3. Ledger!Active(d)' \subseteq Ledger!Active(d)
    BY <1>4
  <2> QED
    BY <2>2, <2>3, FewerContacts
<1>14. ASSUME NEW d \in HasState, cache'[d].last > 0, NEW a, NEW b,
              a = Ledger!WindowStart(cache'[d].last \div DayLen) - DayLen,
              b = Ledger!WindowStart(cache'[d].last \div DayLen) - WeekDays * DayLen
       PROVE  /\ cache'[d].c24 >= Cardinality(Ledger!ContactsAfter(d, a)')
              /\ cache'[d].c7 >= Cardinality(Ledger!ContactsAfter(d, b)')
              /\ cache'[d].c24 <= Cap24H /\ cache'[d].c7 <= Cap7D
              /\ cache'[d].c24 <= cache'[d].c7
  <2>1. CASE d = c
    <3>1. cache'[d] = NewCache(t.c24 + 1, t.c7 + 1, s)
      BY <1>4, <1>8, <1>10, <1>14, <2>1
    <3>2. cache'[d].c24 = t.c24 + 1 /\ cache'[d].c7 = t.c7 + 1 /\ cache'[d].last = s
      BY <3>1 DEF NewCache
    <3>3. a = Ledger!WindowStart(w) - DayLen /\ b = Ledger!WindowStart(w) - WeekDays * DayLen
      BY <1>7, <1>14, <3>2
    <3>4. /\ t.c24 >= Cardinality(Ledger!ContactsAfter(c, a))
          /\ t.c7 >= Cardinality(Ledger!ContactsAfter(c, b))
      BY <1>6, <3>3 DEF Contacts24, Contacts7
    <3>5. /\ Cardinality(Ledger!ContactsAfter(c, a)) \in Nat
          /\ Cardinality(Ledger!ContactsAfter(c, b)) \in Nat
      BY <1>2, <1>3, <1>4, <3>3, CountFacts DEF Contacts24, Contacts7
    <3>6. \A x : Cardinality(Ledger!ContactsAfter(c, x)') \in Nat
      <4>1. \A x : Ledger!ContactsAfter(c, x)' \subseteq Requests
        BY DEF Ledger!ContactsAfter, Ledger!Active
      <4> QED
        BY <4>1, FS_Subset, FS_CardinalityType, LedgerAssumption
    <3>7. /\ t.c24 + 1 >= Cardinality(Ledger!ContactsAfter(c, a)')
          /\ t.c7 + 1 >= Cardinality(Ledger!ContactsAfter(c, b)')
      BY <1>5, <1>12, <3>4, <3>5, <3>6
    <3>8. /\ t.c24 + 1 <= Cap24H /\ t.c7 + 1 <= Cap7D /\ t.c24 + 1 <= t.c7 + 1
      BY <1>5, <1>6, LedgerAssumption
    <3> QED
      BY <2>1, <3>2, <3>7, <3>8
  <2>2. CASE d # c
    <3>1. d \in Customers /\ cache'[d] = cache[d]
      BY <1>8, <1>10, <1>14, <2>2
    <3>2. /\ a = Ledger!WindowStart(cache[d].last \div DayLen) - DayLen
          /\ b = Ledger!WindowStart(cache[d].last \div DayLen) - WeekDays * DayLen
      BY <1>14, <3>1
    <3>3. /\ cache[d].c24 >= Cardinality(Ledger!ContactsAfter(d, a))
          /\ cache[d].c7 >= Cardinality(Ledger!ContactsAfter(d, b))
          /\ cache[d].c24 <= Cap24H /\ cache[d].c7 <= Cap7D /\ cache[d].c24 <= cache[d].c7
      BY <1>8, <1>14, <3>1, <3>2 DEF CacheCoversLedger
    <3>4. cache[d].c24 \in Nat /\ cache[d].c7 \in Nat
      BY <1>8, <3>1
    <3>5. /\ cache[d].c24 >= Cardinality(Ledger!ContactsAfter(d, a)')
          /\ cache[d].c7 >= Cardinality(Ledger!ContactsAfter(d, b)')
      BY <1>13, <2>2, <3>1, <3>3, <3>4
    <3> QED
      BY <3>1, <3>2, <3>3, <3>5
  <2> QED
    BY <2>1, <2>2
<1>15. CacheCoversLedger'
  <2>1. ASSUME NEW d \in HasState, cache'[d].last > 0
        PROVE  LET opening == Ledger!WindowStart(cache'[d].last \div DayLen)
               IN  /\ cache'[d].c24 >=
                        Cardinality({q \in Ledger!Active(d)' :
                                       grants'[q].sendAfter > opening - DayLen})
                   /\ cache'[d].c7 >=
                        Cardinality({q \in Ledger!Active(d)' :
                                       grants'[q].sendAfter > opening - WeekDays * DayLen})
                   /\ cache'[d].c24 <= Cap24H /\ cache'[d].c7 <= Cap7D
                   /\ cache'[d].c24 <= cache'[d].c7
    <3>1. PICK a, b :
            /\ a = Ledger!WindowStart(cache'[d].last \div DayLen) - DayLen
            /\ b = Ledger!WindowStart(cache'[d].last \div DayLen) - WeekDays * DayLen
      OBVIOUS
    <3>2. /\ cache'[d].c24 >= Cardinality(Ledger!ContactsAfter(d, a)')
          /\ cache'[d].c7 >= Cardinality(Ledger!ContactsAfter(d, b)')
          /\ cache'[d].c24 <= Cap24H /\ cache'[d].c7 <= Cap7D
          /\ cache'[d].c24 <= cache'[d].c7
      BY <1>14, <2>1, <3>1
    <3>3. /\ Ledger!ContactsAfter(d, a)' = {q \in Ledger!Active(d)' : grants'[q].sendAfter > a}
          /\ Ledger!ContactsAfter(d, b)' = {q \in Ledger!Active(d)' : grants'[q].sendAfter > b}
      BY DEF Ledger!ContactsAfter
    <3> QED
      BY <3>1, <3>2, <3>3
  <2> QED
    BY <1>11, <2>1 DEF CacheCoversLedger, Ledger!WindowStart, Ledger!ContactsAfter
<1> QED
  BY <1>8, <1>11, <1>15 DEF Cached, CacheOK

LEMMA CommitStep ==
  ASSUME IssueInv, NEW p \in Callers, Commit(p)
  PROVE  IssueInv' /\ Ledger!Next
<1>1. PICK t, rows : t = tx[p] /\ rows = Written(p)
  OBVIOUS
<1>2. PICK r, w, c, s, ask :
        /\ r = t.request /\ w = t.window /\ c = CustomerOf[r] /\ s = t.sendAfter
        /\ ask = t.ask
  OBVIOUS
<1>3. /\ t \in Call /\ t.step = 5 /\ Reads(t) /\ r \in Requests /\ w \in Windows
      /\ s \in Ledger!SendTimes(w) /\ ask \in 0..RequestedCeiling[r]
      /\ <<"contacts", c>> \notin t.stale /\ Ledger!Issue(r, w, s, ask)
  BY <1>1, <1>2, CommitIsIssue
<1>4. /\ c \in Customers
      /\ Ledger!TypeOK' /\ Ledger!GrantsInBand'
      /\ grants[r].state = "none" /\ grants'[r].state = "RESERVED"
      /\ grants'[r].window = w /\ grants'[r].sendAfter = s
      /\ \A q \in Requests \ {r} : grants'[q] = grants[q]
      /\ r \notin Ledger!Active(c) /\ Ledger!Active(c)' = Ledger!Active(c) \cup {r}
      /\ \A d \in Customers \ {c} : Ledger!Active(d)' = Ledger!Active(d)
      /\ \A v \in Windows \ {w} : merchant'[v] = merchant[v]
      /\ \A d \in Customers, v \in Windows : v # w => customer'[d][v] = customer[d][v]
  BY <1>2, <1>3, IssueChanges
<1>5. Ledger!Next
  BY <1>3 DEF Ledger!Next
<1>6. rows = {<<"request", r>>, <<"merchant", w>>, <<"customer", c, w>>, <<"cache", c>>,
              <<"contacts", c>>}
  BY <1>1, <1>2 DEF Written
<1>7. rows \in SUBSET Rows
  BY <1>3, <1>4, <1>6, RowTypes
<1>8. /\ tx' = [q \in Callers |-> tx'[q]]
      /\ tx'[p] = Answered(t, "issued")
      /\ \A q \in Callers \ {p} :
           tx'[q] = IF tx[q].step >= 0 THEN [tx[q] EXCEPT !.stale = @ \cup rows] ELSE tx[q]
  <2>1. tx = [q \in Callers |-> tx[q]]
    BY DEF IssueInv
  <2>2. PICK y : y = Answered(t, "issued") /\ y.step = -1
    BY <1>3, IssuedFacts
  <2>3. PICK calls : calls = [tx EXCEPT ![p] = y]
    OBVIOUS
  <2>4. calls[p] = y /\ \A q \in Callers \ {p} : calls[q] = tx[q]
    BY <2>1, <2>3
  <2> DEFINE Older(q) == IF calls[q].step >= 0
                         THEN [calls[q] EXCEPT !.stale = @ \cup rows] ELSE calls[q]
  <2>5. tx' = [q \in Callers |-> Older(q)]
    <3>1. tx' = Stale([tx EXCEPT ![p] = Answered(@, "issued")], Written(p))
      BY DEF Commit
    <3>2. tx' = Stale(calls, rows)
      BY <1>1, <2>2, <2>3, <3>1
    <3> QED
      BY <3>2 DEF Stale
  <2> HIDE DEF Older
  <2>6. \A q \in Callers : tx'[q] = Older(q)
    BY <2>5
  <2>7. tx'[p] = y
    <3>1. ~(y.step >= 0) /\ calls[p] = y
      BY <2>2, <2>4
    <3>2. Older(p) = y
      BY <3>1, Zenon DEF Older
    <3> QED
      BY <2>6, <3>2
  <2>8. tx' = [q \in Callers |-> tx'[q]]
    BY <2>5, <2>6
  <2>9. \A q \in Callers \ {p} :
          tx'[q] = IF tx[q].step >= 0 THEN [tx[q] EXCEPT !.stale = @ \cup rows] ELSE tx[q]
    BY <2>4, <2>6 DEF Older
  <2> QED
    BY <2>2, <2>7, <2>8, <2>9
<1>9. ASSUME NEW q \in Callers PROVE Sound(tx[q])'
  <2>1. CASE q = p
    <3>1. PICK u : u = Answered(t, "issued")
      OBVIOUS
    <3>2. /\ u \in Call /\ u.step = -1 /\ u.attempt = 0 /\ u.answer = "issued" /\ u.request = r
      BY <1>2, <1>3, <3>1, IssuedFacts
    <3>3. grants'[u.request].state # "none"
      BY <1>4, <3>2
    <3>4. Sound(u)'
      BY <3>2, <3>3 DEF Sound
    <3> QED
      BY <1>8, <2>1, <3>1, <3>4, SoundOf
  <2>2. CASE q # p
    <3>1. PICK o : o = tx[q] /\ Sound(o)
      BY DEF IssueInv
    <3>2. PICK u : u = IF o.step >= 0 THEN [o EXCEPT !.stale = @ \cup rows] ELSE o
      OBVIOUS
    <3>3. tx'[q] = u
      BY <1>8, <2>2, <3>1, <3>2
    <3>4. o \in Call /\ o.request \in Requests /\ o.window \in Windows
      BY <3>1 DEF Sound, Call
    <3>5. PICK d, v : /\ d = CustomerOf[o.request] /\ v = o.window
                      /\ d \in Customers /\ v \in Windows
      BY <3>4, LedgerAssumption
    <3>6. Apart(t, o)
      BY <1>1, <2>2, <3>1 DEF IssueInv
    <3>7. (o.step >= 1 => o.request # r) /\ (o.step >= 2 => v # w)
      BY <1>2, <1>3, <3>5, <3>6 DEF Apart
    <3>8. o.step \in Int
      BY <3>4 DEF Call
    <3>9. \A x \in Requests : grants[x].state # "none" => grants'[x].state # "none"
      BY <1>4
    <3>10. o.step >= 0 /\ grants[o.request].state = "none" =>
             grants'[o.request].state = "none"
               \/ (o.step < 1 /\ <<"request", o.request>> \in rows)
      BY <1>4, <1>6, <3>4, <3>7, <3>8
    <3>11. o.step >= 0 /\ <<"contacts", d>> \notin rows =>
             /\ Ledger!Active(d)' \subseteq Ledger!Active(d)
             /\ \A x \in Ledger!Active(d)' : grants'[x].sendAfter = grants[x].sendAfter
      <4> SUFFICES ASSUME <<"contacts", d>> \notin rows
                   PROVE  /\ Ledger!Active(d)' \subseteq Ledger!Active(d)
                          /\ \A x \in Ledger!Active(d)' :
                               grants'[x].sendAfter = grants[x].sendAfter
        OBVIOUS
      <4>1. d # c
        BY <1>6
      <4>2. \A x \in Ledger!Active(d)' : x \in Requests /\ CustomerOf[x] = d
        BY DEF Ledger!Active
      <4>3. \A x \in Ledger!Active(d)' : x # r
        BY <1>2, <4>1, <4>2
      <4> QED
        BY <1>4, <3>5, <4>1, <4>2, <4>3
    <3>12. o.step >= 3 => merchant'[v] = merchant[v] /\ customer'[d][v] = customer[d][v]
      BY <1>4, <3>5, <3>7, <3>8
    <3>13. o.step >= 4 => (Ledger!HasActiveClaim(d, v)' => Ledger!HasActiveClaim(d, v))
      <4> SUFFICES ASSUME o.step >= 4, NEW x \in Ledger!Active(d)', grants'[x].window = v
                   PROVE  \E z \in Ledger!Active(d) : grants[z].window = v
        BY DEF Ledger!HasActiveClaim
      <4>1. x # r
        BY <1>4, <3>7, <3>8
      <4>2. x \in Requests
        BY DEF Ledger!Active
      <4>3. x \in Ledger!Active(d) /\ grants'[x] = grants[x]
        BY <1>4, <3>5, <4>1, <4>2
      <4>4. grants[x].window = v
        BY <4>3
      <4> QED
        BY <4>3, <4>4
    <3>14. Sound(u)'
      BY <1>7, <3>1, <3>2, <3>5, <3>9, <3>10, <3>11, <3>12, <3>13, OthersStay, ZenonT(60)
    <3> QED
      BY <3>3, <3>14, SoundOf
  <2> QED
    BY <2>1, <2>2
<1>10. ASSUME NEW q \in Callers, NEW o \in Callers, q # o PROVE Apart(tx[q], tx[o])'
  <2>1. PICK a, b, u, v : a = tx[q] /\ b = tx[o] /\ u = tx'[q] /\ v = tx'[o]
    OBVIOUS
  <2>2. Apart(a, b) /\ a \in Call /\ b \in Call
    BY <1>10, <2>1 DEF IssueInv, Sound
  <2>3. Answered(t, "issued").step = -1
    BY <1>3, IssuedFacts
  <2>4. /\ u.step = -1 \/ u = IF a.step >= 0 THEN [a EXCEPT !.stale = @ \cup rows] ELSE a
        /\ v.step = -1 \/ v = IF b.step >= 0 THEN [b EXCEPT !.stale = @ \cup rows] ELSE b
    BY <1>8, <2>1, <2>3
  <2>5. Apart(u, v)
    BY <2>2, <2>4, StaleApart
  <2> QED
    BY <2>1, <2>5 DEF Apart
<1>11. Cached'
  BY CommitCaches
<1> QED
  BY <1>4, <1>5, <1>8, <1>9, <1>10, <1>11 DEF IssueInv

\* A lifecycle call, as a call of the ledger and by what it does to the callers.
LEMMA CallOf ==
  ASSUME NEW r, Lifecycle(r)
  PROVE  /\ \/ Ledger!Execute(r)
            \/ \E spend \in 0..grants[r].ceiling : Ledger!Confirm(r, spend)
            \/ Ledger!Rollback(r)
            \/ \E now \in Instants : Ledger!Expire(r, now)
         /\ \/ Ledger!Execute(r) /\ tx' = tx
            \/ LET pools == {<<"merchant", grants[r].window>>,
                             <<"customer", CustomerOf[r], grants[r].window>>}
               IN  tx' = Stale(tx, pools) /\ ~Locked(<<"merchant", grants[r].window>>)
         /\ UNCHANGED cache
BY DEF Lifecycle

LEMMA LifecycleStep ==
  ASSUME IssueInv, NEW r \in Requests, Lifecycle(r)
  PROVE  IssueInv' /\ Ledger!Next
<1>1. PICK w, c, pools :
        /\ w = grants[r].window /\ c = CustomerOf[r]
        /\ pools = {<<"merchant", w>>, <<"customer", c, w>>}
  OBVIOUS
<1>2. /\ Ledger!TypeOK' /\ Ledger!GrantsInBand' /\ Ledger!Next
      /\ \A d \in Customers : Ledger!Active(d)' \subseteq Ledger!Active(d)
      /\ \A q \in Requests : /\ grants'[q].sendAfter = grants[q].sendAfter
                             /\ grants'[q].window = grants[q].window
                             /\ grants[q].state = "none" <=> grants'[q].state = "none"
      /\ \A v \in Windows \ {w} :
           /\ merchant'[v] = merchant[v]
           /\ \A d \in Customers : customer'[d][v] = customer[d][v]
      /\ Ledger!Execute(r) => UNCHANGED <<merchant, customer>>
  BY <1>1, CallOf, CallChanges
<1>3. /\ cache' = cache
      /\ \/ Ledger!Execute(r) /\ tx' = tx
         \/ tx' = Stale(tx, pools) /\ ~Locked(<<"merchant", w>>)
  BY <1>1, CallOf
<1>4. PICK rows : /\ rows \in SUBSET Rows
                  /\ tx' = [q \in Callers |-> tx'[q]]
                  /\ \A q \in Callers :
                       tx'[q] = IF tx[q].step >= 0
                                THEN [tx[q] EXCEPT !.stale = @ \cup rows] ELSE tx[q]
  <2>1. tx = [q \in Callers |-> tx[q]] /\ \A q \in Callers : tx[q] \in Call
    BY DEF IssueInv, Sound
  <2>2. CASE tx' = tx
    <3>1. ASSUME NEW q \in Callers
          PROVE  tx[q] = IF tx[q].step >= 0
                         THEN [tx[q] EXCEPT !.stale = @ \cup {}] ELSE tx[q]
      <4>1. PICK t : t = tx[q] /\ t \in Call
        BY <2>1
      <4>2. [t EXCEPT !.stale = @ \cup {}] = t
        BY <4>1 DEF Call
      <4> QED
        BY <4>1, <4>2
    <3> QED
      BY <2>1, <2>2, <3>1
  <2>3. CASE tx' = Stale(tx, pools)
    <3> DEFINE more == pools \cap Rows
               Older(q) == IF tx[q].step >= 0
                           THEN [tx[q] EXCEPT !.stale = @ \cup pools] ELSE tx[q]
    <3>1. tx' = [q \in Callers |-> Older(q)]
      BY <2>3 DEF Stale
    <3> HIDE DEF Older
    <3>2. /\ \A q \in Callers : tx'[q] = Older(q)
          /\ tx' = [q \in Callers |-> tx'[q]]
      BY <3>1
    <3>3. pools \in SUBSET Rows
      <4>1. /\ r \in Requests /\ c \in Customers /\ w \in Windows
        <5>1. grants[r].state # "none"
          BY CallOf DEF Ledger!Execute, Ledger!Confirm, Ledger!Rollback, Ledger!Expire,
                        Ledger!Move, Ledger!Reserving
        <5> QED
          BY <1>1, <5>1, LedgerAssumption DEF IssueInv, Ledger!GrantsInBand, Ledger!InItsBand
      <4> QED
        BY <1>1, <4>1, RowTypes
    <3> QED
      BY <3>2, <3>3 DEF Older
  <2> QED
    BY <1>3, <2>2, <2>3
<1>5. \A q \in Callers : tx[q].step >= 2 =>
        UNCHANGED <<merchant, customer>> \/ tx[q].window # w
  BY <1>2, <1>3, StepType, Unlocked
<1>6. ASSUME NEW q \in Callers PROVE Sound(tx[q])'
  <2>1. PICK o : o = tx[q] /\ Sound(o)
    BY DEF IssueInv
  <2>2. PICK u : u = IF o.step >= 0 THEN [o EXCEPT !.stale = @ \cup rows] ELSE o
    OBVIOUS
  <2>3. tx'[q] = u
    BY <1>4, <2>1, <2>2
  <2>4. o \in Call /\ o.request \in Requests /\ o.window \in Windows /\ o.step \in Int
    BY <2>1 DEF Sound, Call
  <2>5. PICK d, v : /\ d = CustomerOf[o.request] /\ v = o.window
                    /\ d \in Customers /\ v \in Windows
    BY <2>4, LedgerAssumption
  <2>6. \A x \in Requests : grants[x].state # "none" => grants'[x].state # "none"
    BY <1>2
  <2>7. o.step >= 0 /\ grants[o.request].state = "none" =>
          grants'[o.request].state = "none"
            \/ (o.step < 1 /\ <<"request", o.request>> \in rows)
    BY <1>2, <2>4
  <2>8. \A x \in Ledger!Active(d)' : x \in Requests
    BY DEF Ledger!Active
  <2>9. o.step >= 0 /\ <<"contacts", d>> \notin rows =>
          /\ Ledger!Active(d)' \subseteq Ledger!Active(d)
          /\ \A x \in Ledger!Active(d)' : grants'[x].sendAfter = grants[x].sendAfter
    BY <1>2, <2>5, <2>8
  <2>10. o.step >= 3 => merchant'[v] = merchant[v] /\ customer'[d][v] = customer[d][v]
    <3> SUFFICES ASSUME o.step >= 3
                 PROVE  merchant'[v] = merchant[v] /\ customer'[d][v] = customer[d][v]
      OBVIOUS
    <3>1. o.step >= 2
      BY <2>4
    <3>2. UNCHANGED <<merchant, customer>> \/ v # w
      BY <1>5, <2>1, <2>5, <3>1
    <3> QED
      BY <1>2, <2>5, <3>2
  <2>11. o.step >= 4 => (Ledger!HasActiveClaim(d, v)' => Ledger!HasActiveClaim(d, v))
    <3> SUFFICES ASSUME NEW x \in Ledger!Active(d)', grants'[x].window = v
                 PROVE  \E z \in Ledger!Active(d) : grants[z].window = v
      BY DEF Ledger!HasActiveClaim
    <3>1. x \in Ledger!Active(d) /\ grants[x].window = v
      BY <1>2, <2>5, <2>8
    <3> QED
      BY <3>1
  <2>12. rows \in SUBSET Rows
    BY <1>4
  <2>13. Sound(u)'
    BY <2>1, <2>2, <2>5, <2>6, <2>7, <2>9, <2>10, <2>11, <2>12, OthersStay, ZenonT(60)
  <2> QED
    BY <2>3, <2>13, SoundOf
<1>7. ASSUME NEW q \in Callers, NEW o \in Callers, q # o PROVE Apart(tx[q], tx[o])'
  <2>1. PICK a, b, u, v : a = tx[q] /\ b = tx[o] /\ u = tx'[q] /\ v = tx'[o]
    OBVIOUS
  <2>2. Apart(a, b) /\ a \in Call /\ b \in Call
    BY <1>7, <2>1 DEF IssueInv, Sound
  <2>3. /\ u = IF a.step >= 0 THEN [a EXCEPT !.stale = @ \cup rows] ELSE a
        /\ v = IF b.step >= 0 THEN [b EXCEPT !.stale = @ \cup rows] ELSE b
    BY <1>4, <2>1
  <2>4. Apart(u, v)
    BY <2>2, <2>3, StaleApart
  <2> QED
    BY <2>1, <2>4 DEF Apart
<1>8. Cached'
  <2>1. ASSUME NEW d \in Customers, NEW x
        PROVE  /\ Cardinality(Ledger!ContactsAfter(d, x)') \in Nat
               /\ Cardinality(Ledger!ContactsAfter(d, x)) \in Nat
               /\ Cardinality(Ledger!ContactsAfter(d, x)')
                    <= Cardinality(Ledger!ContactsAfter(d, x))
    <3>1. \A y \in Ledger!Active(d)' : grants'[y].sendAfter = grants[y].sendAfter
      <4>1. \A y \in Ledger!Active(d)' : y \in Requests
        BY DEF Ledger!Active
      <4> QED
        BY <1>2, <4>1
    <3>2. Ledger!Active(d)' \subseteq Ledger!Active(d)
      BY <1>2
    <3> QED
      BY <3>1, <3>2, FewerContacts
  <2>2. /\ HasState \subseteq Customers
        /\ cache \in [HasState -> [c24 : Nat, c7 : Nat, last : Nat]]
        /\ CacheCoversLedger
    BY DEF IssueInv, Cached, CacheOK
  <2>3. ASSUME NEW d \in HasState, cache[d].last > 0, NEW a, NEW b,
               a = Ledger!WindowStart(cache[d].last \div DayLen) - DayLen,
               b = Ledger!WindowStart(cache[d].last \div DayLen) - WeekDays * DayLen
        PROVE  /\ cache[d].c24 >= Cardinality({q \in Ledger!Active(d)' :
                                                 grants'[q].sendAfter > a})
               /\ cache[d].c7 >= Cardinality({q \in Ledger!Active(d)' :
                                                grants'[q].sendAfter > b})
               /\ cache[d].c24 <= Cap24H /\ cache[d].c7 <= Cap7D
               /\ cache[d].c24 <= cache[d].c7
    <3>1. d \in Customers /\ cache[d].c24 \in Nat /\ cache[d].c7 \in Nat
      BY <2>2
    <3>2. /\ cache[d].c24 >= Cardinality(Ledger!ContactsAfter(d, a))
          /\ cache[d].c7 >= Cardinality(Ledger!ContactsAfter(d, b))
          /\ cache[d].c24 <= Cap24H /\ cache[d].c7 <= Cap7D /\ cache[d].c24 <= cache[d].c7
      BY <2>2, <2>3 DEF CacheCoversLedger
    <3>3. /\ cache[d].c24 >= Cardinality(Ledger!ContactsAfter(d, a)')
          /\ cache[d].c7 >= Cardinality(Ledger!ContactsAfter(d, b)')
      BY <2>1, <3>1, <3>2
    <3>4. /\ Ledger!ContactsAfter(d, a)' = {q \in Ledger!Active(d)' : grants'[q].sendAfter > a}
          /\ Ledger!ContactsAfter(d, b)' = {q \in Ledger!Active(d)' : grants'[q].sendAfter > b}
      BY DEF Ledger!ContactsAfter
    <3> QED
      BY <3>2, <3>3, <3>4
  <2>4. CacheCoversLedger'
    BY <1>3, <2>3 DEF CacheCoversLedger, HasState, Ledger!WindowStart, Ledger!ContactsAfter
  <2> QED
    BY <1>3, <2>2, <2>4 DEF Cached, CacheOK, HasState
<1> QED
  BY <1>2, <1>4, <1>6, <1>7, <1>8 DEF IssueInv

-----------------------------------------------------------------------------
(* The theorems. *)

LEMMA IssueInit == Init => IssueInv /\ Ledger!Init
<1> SUFFICES ASSUME Init PROVE IssueInv
  BY DEF Init
<1>1. LP!TypeInv
  BY SameTables, LP!TypeInit, LedgerAssumption, SameFinite DEF Init
<1>2. Ledger!TypeOK /\ Ledger!GrantsInBand
  BY <1>1, SameTables
<1>3. PICK r \in Requests : tx = [p \in Callers |-> NewCall(r, AnyWindow, 0, 0, 0)]
  BY DEF Init
<1>4. AnyWindow \in Windows /\ 0 \in 0..MaxAttempts
  BY CallersAssumption DEF AnyWindow
<1>5. PICK t : t = NewCall(r, AnyWindow, 0, 0, 0) /\ t.step = -1 /\ Sound(t)
  BY <1>4, NewCallSound
<1>6. tx = [p \in Callers |-> t]
  BY <1>3, <1>5
<1>7. /\ tx = [p \in Callers |-> tx[p]]
      /\ \A p \in Callers : Sound(tx[p])
      /\ \A p, q \in Callers : Apart(tx[p], tx[q])
  BY <1>5, <1>6, Idle
<1>8. Cached
  <2>1. PICK known \in SUBSET Customers :
          cache = [c \in known |-> [c24 |-> 0, c7 |-> 0, last |-> 0]]
    BY DEF Init, NewCache
  <2>2. HasState = known /\ \A c \in HasState : cache[c].last = 0
    BY <2>1 DEF HasState
  <2>3. CacheCoversLedger
    BY <2>2 DEF CacheCoversLedger
  <2>4. CacheOK
    BY <2>1, <2>2 DEF CacheOK
  <2> QED
    BY <2>3, <2>4 DEF Cached
<1> QED
  BY <1>2, <1>7, <1>8 DEF IssueInv

LEMMA IssueStep ==
  IssueInv /\ [Next]_vars => IssueInv' /\ [Ledger!Next]_(Ledger!vars)
<1> SUFFICES ASSUME IssueInv, [Next]_vars
             PROVE  IssueInv' /\ [Ledger!Next]_(Ledger!vars)
  OBVIOUS
<1>1. ASSUME NEW p \in Callers,
             \/ \E r \in Requests, w \in Windows :
                  \E s \in Ledger!SendTimes(w), ask \in 0..RequestedCeiling[r] :
                    Start(p, r, w, s, ask)
             \/ Begin(p) \/ LockRequest(p) \/ LockMerchant(p) \/ LockCustomer(p)
             \/ InsertClaim(p) \/ WriteCache(p) \/ RowIsStale(p) \/ ReadsConflict(p)
             \/ FalsePositive(p) \/ Drop(p)
      PROVE  IssueInv' /\ [Ledger!Next]_(Ledger!vars)
  BY <1>1, CallerStep DEF Ledger!vars
<1>2. ASSUME NEW p \in Callers, Commit(p)
      PROVE  IssueInv' /\ [Ledger!Next]_(Ledger!vars)
  BY <1>2, CommitStep
<1>3. ASSUME NEW r \in Requests, Lifecycle(r)
      PROVE  IssueInv' /\ [Ledger!Next]_(Ledger!vars)
  BY <1>3, LifecycleStep
<1>4. ASSUME UNCHANGED vars PROVE IssueInv' /\ [Ledger!Next]_(Ledger!vars)
  <2>1. /\ grants' = grants /\ merchant' = merchant /\ customer' = customer
        /\ cache' = cache /\ tx' = tx
    BY <1>4 DEF vars
  <2>2. /\ Ledger!TypeOK' /\ Ledger!GrantsInBand' /\ Cached'
    BY <2>1 DEF IssueInv, Ledger!TypeOK, Ledger!GrantsInBand, Ledger!InItsBand, Cached,
                CacheOK, HasState, CacheCoversLedger, Ledger!ContactsAfter, Ledger!Active
  <2>3. ASSUME NEW p \in Callers PROVE Sound(tx[p])'
    <3>1. PICK t : t = tx[p] /\ Sound(t)
      BY DEF IssueInv
    <3>2. Sound(t)'
      BY <2>1, <3>1 DEF Sound, Reads, Contacts24, Contacts7, HadContact,
              Ledger!ContactsAfter, Ledger!Active, Ledger!Remaining, Ledger!HasActiveClaim
    <3> QED
      BY <2>1, <3>1, <3>2, SoundOf
  <2>4. ASSUME NEW p \in Callers, NEW q \in Callers, p # q PROVE Apart(tx[p], tx[q])'
    BY <2>1, <2>4 DEF IssueInv, Apart
  <2>5. tx' = [p \in Callers |-> tx'[p]]
    BY <2>1 DEF IssueInv
  <2> QED
    BY <2>1, <2>2, <2>3, <2>4, <2>5 DEF IssueInv, Ledger!vars
<1> QED
  BY <1>1, <1>2, <1>3, <1>4 DEF Next, Proceed

\* Whatever callers do at once, retry and drop, the tables of PostgreSQL move as
\* the atomic ledger's do.
THEOREM IssuanceRefinesLedger == Spec => ImplementsLedger
BY IssueInit, IssueStep, PTL DEF Spec, ImplementsLedger, Ledger!Spec

\* Every value stays in its column, and every call in its range.
THEOREM IssuanceTypes == Spec => []TypeOK
<1>1. ASSUME IssueInv PROVE TypeOK
  <2>1. tx = [p \in Callers |-> tx[p]] /\ \A p \in Callers : tx[p] \in Call
    BY <1>1 DEF IssueInv, Sound
  <2> QED
    BY <1>1, <2>1 DEF IssueInv, Cached, CacheOK, TypeOK
<1> QED
  BY <1>1, IssueInit, IssueStep, PTL DEF Spec

\* Whoever is told that a request is granted finds its grant, and nobody is told
\* of a contact cap who has no contact.
THEOREM AnswersAreTrue == Spec => []AnswersHold
<1>1. ASSUME IssueInv PROVE AnswersHold
  <2> SUFFICES ASSUME NEW p \in Callers
               PROVE  /\ tx[p].answer = "issued" => grants[tx[p].request].state # "none"
                      /\ tx[p].answer \in {"contact_cap_24h", "contact_cap_7d"} =>
                           \E r \in Requests : /\ CustomerOf[r] = CustomerOf[tx[p].request]
                                               /\ grants[r].state # "none"
    BY DEF AnswersHold
  <2>1. Sound(tx[p])
    BY <1>1 DEF IssueInv
  <2> QED
    BY <2>1 DEF Sound, HadContact
<1> QED
  BY <1>1, IssueInit, IssueStep, PTL DEF Spec

\* The counters of contact_states never fall behind the grants table, and never
\* pass the caps.
THEOREM CacheCovers == Spec => []CacheCoversLedger
<1>1. IssueInv => CacheCoversLedger
  BY DEF IssueInv, Cached
<1> QED
  BY <1>1, IssueInit, IssueStep, PTL DEF Spec

\* The properties of the ledger that talk of one state, under both names.
LEMMA SameProperties ==
  /\ LP!RollingCap24H <=> Ledger!RollingCap24H
  /\ LP!RollingCap7D <=> Ledger!RollingCap7D
  /\ LP!SlotExclusive <=> Ledger!SlotExclusive
  /\ LP!NotOverdrawn <=> Ledger!NotOverdrawn
<1>1. /\ LP!SlotExclusive <=> Ledger!SlotExclusive
      /\ LP!NotOverdrawn <=> Ledger!NotOverdrawn
  BY DEF LP!SlotExclusive, Ledger!SlotExclusive, LP!NotOverdrawn, Ledger!NotOverdrawn,
         LP!Active, Ledger!Active, LP!CapacityConsuming, Ledger!CapacityConsuming,
         LP!Remaining, Ledger!Remaining
<1>2. \A c, t, n : LP!ContactsWithin(c, t, n) = Ledger!ContactsWithin(c, t, n)
  BY SameContacts DEF LP!ContactsWithin, Ledger!ContactsWithin
<1>3. \A cap, n : LP!RollingCap(cap, n) <=> Ledger!RollingCap(cap, n)
  BY <1>2, SameContacts DEF LP!RollingCap, Ledger!RollingCap
<1> QED
  BY <1>1, <1>3 DEF LP!RollingCap24H, Ledger!RollingCap24H, LP!RollingCap7D, Ledger!RollingCap7D

\* A step of these tables is a step of the ledger that was proved about.
LEMMA LedgerStep == IssueInv /\ [Next]_vars => [LP!Next]_(LP!vars)
BY IssueStep, SameNext, SameTables DEF LP!vars, Ledger!vars

\* In PostgreSQL too, nobody is promised more contacts in 24 hours or in 7 days
\* than the caps allow, although each transaction counts in a snapshot.
THEOREM PostgresKeepsCaps == Spec => [](Ledger!RollingCap24H /\ Ledger!RollingCap7D)
<1>1. LP!Init => LP!CapInv
  BY LP!CapInit, LedgerAssumption, SameFinite
<1>2. LP!CapInv /\ [LP!Next]_(LP!vars) => LP!CapInv'
  BY LP!CapStep, LedgerAssumption, SameFinite
<1>3. LP!CapInv => Ledger!RollingCap24H /\ Ledger!RollingCap7D
  BY SameProperties DEF LP!CapInv
<1>4. Init => LP!Init
  BY SameTables DEF Init
<1> QED
  BY <1>1, <1>2, <1>3, <1>4, IssueInit, IssueStep, LedgerStep, PTL DEF Spec

\* Nor is a calendar day granted to a customer twice, or a pool overdrawn, although
\* the ceiling is computed long before it is reserved.
THEOREM PostgresKeepsPools == Spec => [](Ledger!SlotExclusive /\ Ledger!NotOverdrawn)
<1>1. LP!Init => LP!MoneyInv
  BY LP!MoneyInit, LedgerAssumption, SameFinite
<1>2. LP!MoneyInv /\ [LP!Next]_(LP!vars) => LP!MoneyInv'
  BY LP!MoneyStep, LedgerAssumption, SameFinite
<1>3. LP!MoneyInv => Ledger!SlotExclusive /\ Ledger!NotOverdrawn
  BY SameProperties, LP!MoneyCovers, LedgerAssumption, SameFinite DEF LP!MoneyInv, LP!SlotInv
<1>4. Init => LP!Init
  BY SameTables DEF Init
<1> QED
  BY <1>1, <1>2, <1>3, <1>4, IssueInit, IssueStep, LedgerStep, PTL DEF Spec

=============================================================================
