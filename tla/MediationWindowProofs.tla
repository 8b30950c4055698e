------------------------ MODULE MediationWindowProofs ------------------------
(***************************************************************************)
(* Proofs about the decision path, for any number of customers, requests   *)
(* and windows, whatever the scores are and whenever the panel opts        *)
(* somebody out, opens a dispute or kills the scorer.  What issuance and   *)
(* the lifecycle do to the ledger is cited from ContactLedgerProofs.       *)
(***************************************************************************)
EXTENDS MediationWindow, FiniteSetTheorems, WellFoundedInduction, TLAPS

LP == INSTANCE ContactLedgerProofs WITH Instants <- {}

-----------------------------------------------------------------------------
(* The calendar. *)

\* A nonempty set of naturals has a least element.  (ContactLedgerProofs has this
\* too, but only for a calendar that is known to consist of naturals.)
LEMMA LeastNumber ==
  ASSUME NEW S \in SUBSET Nat, S # {}
  PROVE  \E m \in S : \A n \in S : m <= n
<1>1. PICK m \in S : \A n \in S : ~(<<n, m>> \in OpToRel(<, Nat))
  BY WFMin, NatLessThanWellFounded
<1>2. \A n \in S : ~(n < m)
  BY <1>1 DEF OpToRel
<1> QED
  BY <1>2

LEMMA MinIsIn ==
  ASSUME NEW S \in SUBSET Nat, S # {}
  PROVE  Min(S) \in S
BY LeastNumber DEF Min

\* ContactLedgerProofs makes the assumptions of ContactLedger.
LEMMA SameFinite == LP!IsFiniteSet(Requests) /\ LP!IsFiniteSet(Customers)
BY LedgerAssumption DEF IsFiniteSet, LP!IsFiniteSet

\* Some request arrives last: a least number of requests without one would be one
\* request more than a set that has one.
LEMMA LastArrival ==
  \E q \in Requests : \A r \in Requests : Arrival[q] >= Arrival[r]
<1> DEFINE HasLast(s) == \E q \in s : \A r \in s : Arrival[q] >= Arrival[r]
           Bad == {n \in Nat : \E s \in SUBSET Requests :
                     s # {} /\ Cardinality(s) = n /\ ~HasLast(s)}
<1>1. \A s \in SUBSET Requests : IsFiniteSet(s) /\ Cardinality(s) \in Nat
  BY LedgerAssumption, FS_Subset, FS_CardinalityType
<1>2. Bad = {}
  <2> SUFFICES ASSUME Bad # {} PROVE FALSE
    OBVIOUS
  <2>1. PICK n \in Bad : \A m \in Bad : n <= m
    BY LeastNumber
  <2>0. n \in Nat
    OBVIOUS
  <2>2. PICK s \in SUBSET Requests : s # {} /\ Cardinality(s) = n /\ ~HasLast(s)
    BY <2>1
  <2> HIDE DEF Bad
  <2>3. PICK x \in s : TRUE
    BY <2>2
  <2> DEFINE t == s \ {x}
  <2>4. Cardinality(t) = n - 1 /\ Cardinality(t) \in Nat /\ t \in SUBSET Requests
    <3>1. t \in SUBSET Requests /\ IsFiniteSet(s)
      BY <1>1, <2>2
    <3>2. Cardinality(t) = Cardinality(s) - 1
      BY <2>3, <3>1, FS_RemoveElement
    <3> QED
      BY <1>1, <2>2, <3>1, <3>2
  <2>5. \A r \in s : r \in Requests /\ Arrival[r] \in Nat /\ (r = x \/ r \in t)
    BY <2>2, WindowAssumption
  <2>6. CASE t = {}
    BY <2>2, <2>3, <2>5, <2>6
  <2>7. CASE t # {}
    <3>1. HasLast(t)
      <4>1. Cardinality(t) \notin Bad
        BY <2>0, <2>1, <2>4
      <4> QED
        BY <2>4, <2>7, <4>1 DEF Bad
    <3>2. PICK y \in t : \A r \in t : Arrival[y] >= Arrival[r]
      BY <3>1
    <3>3. \A r \in s : Arrival[x] >= Arrival[y] => Arrival[x] >= Arrival[r]
      BY <2>3, <2>5, <3>2
    <3>4. \A r \in s : Arrival[y] >= Arrival[x] => Arrival[y] >= Arrival[r]
      BY <2>3, <2>5, <3>2
    <3> QED
      BY <2>2, <2>3, <2>5, <3>2, <3>3, <3>4
  <2> QED
    BY <2>6, <2>7
<1> HIDE DEF HasLast
<1>3. HasLast(Requests)
  BY <1>1, <1>2, WindowAssumption
<1> QED
  BY <1>3 DEF HasLast

\* The last window is more than MAX_DEFERRAL_WINDOWS after every arrival.
LEMMA WindowFacts ==
  /\ LastWindow \in Nat /\ NotYet \in Nat /\ Windows \subseteq Nat
  /\ \A r \in Requests : Arrival[r] + MaxDeferrals + 1 <= LastWindow
<1> DEFINE S == {Arrival[r] : r \in Requests}
<1>1. PICK q \in Requests : \A r \in Requests : Arrival[q] >= Arrival[r]
  BY LastArrival
<1>2. \E m \in S : \A n \in S : m >= n
  BY <1>1
<1>3. Max(S) \in S /\ \A n \in S : Max(S) >= n
  BY <1>2 DEF Max
<1>4. Max(S) \in Nat /\ \A r \in Requests : Arrival[r] \in Nat /\ Max(S) >= Arrival[r]
  BY <1>3, WindowAssumption
<1> HIDE DEF S
<1>5. LastWindow = Max(S) + MaxDeferrals + 1
  BY DEF LastWindow, S
<1> QED
  BY <1>4, <1>5, WindowAssumption DEF NotYet, Windows

-----------------------------------------------------------------------------
(* The ledger under ContactLedgerProofs' names. *)

TypeInv == TypeOK /\ Ledger!GrantsInBand

LEMMA SameTables ==
  /\ LP!TypeInv <=> Ledger!TypeOK /\ Ledger!GrantsInBand
  /\ LP!Init <=> Ledger!Init
BY DEF LP!TypeInv, LP!TypeOK, LP!GrantsInBand, LP!InItsBand, LP!SendTimes, LP!WindowStart,
       LP!Grant, LP!GrantStates, LP!CapacityConsuming, LP!Terminal, LP!Pool, LP!Init,
       LP!NoGrant, LP!FreshPool,
       Ledger!TypeOK, Ledger!GrantsInBand, Ledger!InItsBand, Ledger!SendTimes,
       Ledger!WindowStart, Ledger!Grant, Ledger!GrantStates, Ledger!CapacityConsuming,
       Ledger!Terminal, Ledger!Pool, Ledger!Init, Ledger!NoGrant, Ledger!FreshPool

LEMMA SameIssue ==
  ASSUME NEW r, NEW w, NEW s, NEW ask
  PROVE  /\ Ledger!Issue(r, w, s, ask) <=> LP!Issue(r, w, s, ask)
         /\ Ledger!SendTimes(w) = LP!SendTimes(w)
BY DEF LP!Issue, LP!Remaining, LP!DowngradeToFit, LP!Lesser, LP!BelowCaps, LP!ContactsAfter,
       LP!Active, LP!CapacityConsuming, LP!HasActiveClaim, LP!WindowStart, LP!SendTimes,
       LP!Cardinality,
       Ledger!Issue, Ledger!Remaining, Ledger!DowngradeToFit, Ledger!Lesser,
       Ledger!BelowCaps, Ledger!ContactsAfter, Ledger!Active, Ledger!CapacityConsuming,
       Ledger!HasActiveClaim, Ledger!WindowStart, Ledger!SendTimes, Ledger!Cardinality

LEMMA SameCalls ==
  ASSUME NEW r, NEW spend
  PROVE  /\ Ledger!Execute(r) <=> LP!Execute(r)
         /\ Ledger!Confirm(r, spend) <=> LP!Confirm(r, spend)
         /\ Ledger!Rollback(r) <=> LP!Rollback(r)
BY DEF LP!Execute, LP!Confirm, LP!Rollback, LP!Move, LP!Settle, LP!Reserving,
       Ledger!Execute, Ledger!Confirm, Ledger!Rollback, Ledger!Move, Ledger!Settle,
       Ledger!Reserving

\* Issuing in this window keeps the types, and makes one grant live with the terms
\* of the call.
LEMMA IssueFacts ==
  ASSUME TypeInv, NEW r \in Requests, NEW s \in Ledger!SendTimes(window),
         Ledger!Issue(r, window, s, RequestedCeiling[r])
  PROVE  /\ Ledger!TypeOK' /\ Ledger!GrantsInBand'
         /\ grants[r].state = "none" /\ grants'[r].state = "RESERVED"
         /\ grants'[r].window = window
         /\ \A q \in Requests \ {r} : grants'[q] = grants[q]
<1>1. /\ LP!TypeInv /\ LP!Issue(r, window, s, RequestedCeiling[r])
      /\ s \in LP!SendTimes(window) /\ window \in Windows
      /\ RequestedCeiling[r] \in 0..RequestedCeiling[r]
  BY SameTables, SameIssue, LedgerAssumption DEF TypeInv, TypeOK
<1>2. LP!TypeInv'
  BY <1>1, LP!IssueType, LedgerAssumption, SameFinite, WindowFacts
<1>3. /\ grants[r].state = "none" /\ grants'[r].state = "RESERVED"
      /\ grants'[r].window = window
      /\ \A q \in Requests \ {r} : grants'[q] = grants[q]
  BY <1>1, LP!IssueAdds, LedgerAssumption, SameFinite, WindowFacts
<1> QED
  BY <1>2, <1>3, SameTables, PTL

\* A lifecycle call keeps the types, and moves one grant that reserved capacity.
LEMMA LifecycleFacts ==
  ASSUME TypeInv, NEW r \in Requests,
         \/ Ledger!Execute(r)
         \/ Ledger!Confirm(r, grants[r].ceiling)
         \/ Ledger!Rollback(r)
  PROVE  /\ Ledger!TypeOK' /\ Ledger!GrantsInBand'
         /\ grants[r].state \in {"RESERVED", "EXECUTING"}
         /\ grants'[r].state \in {"EXECUTING", "CONFIRMED", "ROLLED_BACK"}
         /\ grants'[r].window = grants[r].window
         /\ \A q \in Requests \ {r} : grants'[q] = grants[q]
<1>1. /\ LP!TypeInv
      /\ grants[r].ceiling \in 0..grants[r].ceiling
      /\ grants \in [Requests -> LP!Grant]
  BY SameTables DEF TypeInv, TypeOK, Ledger!TypeOK, Ledger!Grant, LP!TypeInv, LP!TypeOK
<1>2. \/ LP!Execute(r)
      \/ LP!Confirm(r, grants[r].ceiling)
      \/ LP!Rollback(r)
  BY SameCalls
<1>3. LP!Step(r)
  BY <1>1, <1>2 DEF LP!Step
<1>4. LP!TypeInv'
  BY <1>1, <1>3, LP!StepKinds, LedgerAssumption, SameFinite, WindowFacts
<1>5. /\ grants[r].state \in {"RESERVED", "EXECUTING"}
      /\ grants'[r].state \in {"EXECUTING", "CONFIRMED", "ROLLED_BACK"}
      /\ grants'[r].window = grants[r].window
      /\ \A q \in Requests \ {r} : grants'[q] = grants[q]
  BY <1>1, <1>2
  DEF LP!Execute, LP!Confirm, LP!Rollback, LP!Move, LP!Reserving, LP!Grant
<1> QED
  BY <1>4, <1>5, SameTables, PTL

-----------------------------------------------------------------------------
(* The inductive invariant. *)

\* A candidate's count is its age, and what is deferred is young enough for it.
AgeInv ==
  /\ \A r \in Requests : Arrival[r] > window => deferred[r] = 0 /\ r \notin hand
  /\ phase \in {"mediate", "failed"} => \A r \in hand : deferred[r] = window - Arrival[r]
  /\ phase = "mediate" => \A r \in Deferrals : deferred[r] + 1 < MaxDeferrals
  /\ phase = "execute" => \A r \in hand : deferred[r] = window + 1 - Arrival[r]
  /\ phase = "over" => hand = {}

\* Nothing that the panel had done by window w forbids r.
Allowed(r, w) ==
  /\ r \in WhatsApp => w <= optedOut[CustomerOf[r]]
  /\ RequestedCeiling[r] > 0 => w <= disputed[CustomerOf[r]]

\* Who survived the filter was allowed then, and who got a grant in its window.
ConsentInv ==
  /\ phase = "mediate" => \A r \in hand : verdict[r] = "survivor" => Allowed(r, window)
  /\ \A r \in Requests :
       grants[r].state # "none" =>
         grants[r].window <= window /\ Allowed(r, grants[r].window)

\* As long as the scorer is never killed, every reserved grant is a decision of this
\* window that has yet to be executed.
DecidedInv ==
  kills = 0 =>
    /\ ~scorer.killed
    /\ \A r \in Requests : grants[r].state = "RESERVED" => verdict[r] = "GRANTED"

WindowInv == TypeInv /\ AgeInv /\ VerdictsStayTrue /\ ConsentInv /\ DecidedInv

\* What the invariants say of single values.
LEMMA ValueFacts ==
  ASSUME TypeInv
  PROVE  /\ window \in Nat /\ window <= LastWindow
         /\ \A c \in Customers :
              /\ optedOut[c] \in Nat /\ optedOut[c] <= NotYet
              /\ disputed[c] \in Nat /\ disputed[c] <= NotYet
         /\ \A r \in Requests :
              /\ Arrival[r] \in Nat /\ deferred[r] \in Nat /\ deferred[r] < MaxDeferrals
              /\ CustomerOf[r] \in Customers
              /\ grants[r].window \in Nat
              /\ RequestedCeiling[r] \in Nat
         /\ hand \subseteq Requests /\ MaxDeferrals \in Nat
         /\ NotYet = LastWindow + 1 /\ LastWindow \in Nat
BY WindowFacts, WindowAssumption, LedgerAssumption
DEF TypeInv, TypeOK, Windows, NotYet, Ledger!TypeOK, Ledger!Grant

LEMMA HardVerdictFacts ==
  ASSUME TypeInv, NEW r \in Requests
  PROVE  /\ HardVerdict(r) \in {"DENIED", "DEFERRED", "survivor"}
         /\ HardVerdict(r) = "survivor" => ~Forbidden(r) /\ ~Blocked(r)
         /\ HardVerdict(r) = "DEFERRED" => deferred[r] + 1 < MaxDeferrals
<1>1. DeferOrDeny(r) \in {"DENIED", "DEFERRED"}
  BY DEF DeferOrDeny
<1>2. DeferOrDeny(r) = "DEFERRED" => deferred[r] + 1 < MaxDeferrals
  BY ValueFacts DEF DeferOrDeny
<1>3. CASE Forbidden(r)
  BY <1>3 DEF HardVerdict
<1>4. CASE ~Forbidden(r) /\ Blocked(r)
  BY <1>1, <1>2, <1>4 DEF HardVerdict
<1>5. CASE ~Forbidden(r) /\ ~Blocked(r)
  BY <1>5 DEF HardVerdict
<1> QED
  BY <1>3, <1>4, <1>5

\* What somebody else's grants are makes no difference to a customer's slot and caps.
LEMMA SlotsKept ==
  ASSUME NEW c \in Customers, window' = window,
         \A q \in Requests : CustomerOf[q] = c => grants'[q] = grants[q]
  PROVE  /\ Ledger!HasActiveClaim(c, window)' <=> Ledger!HasActiveClaim(c, window)
         /\ Ledger!BelowCaps(c, window)' <=> Ledger!BelowCaps(c, window)
<1>1. Ledger!Active(c)' = Ledger!Active(c)
      /\ \A q \in Ledger!Active(c) : grants'[q] = grants[q]
  BY DEF Ledger!Active
<1>2. \A t : Ledger!ContactsAfter(c, t)' = Ledger!ContactsAfter(c, t)
  BY <1>1 DEF Ledger!ContactsAfter
<1> QED
  BY <1>1, <1>2 DEF Ledger!HasActiveClaim, Ledger!BelowCaps, Ledger!WindowStart

LEMMA WindowInit == Init => WindowInv
<1> SUFFICES ASSUME Init PROVE WindowInv
  OBVIOUS
<1>1. Ledger!TypeOK /\ Ledger!GrantsInBand
  BY SameTables, LP!TypeInit, LedgerAssumption, SameFinite, WindowFacts DEF Init
<1>2. \A r \in Requests : grants[r].state = "none"
  BY DEF Init, Ledger!Init, Ledger!NoGrant
<1>3. TypeOK
  BY <1>1, WindowAssumption, WindowFacts
  DEF Init, TypeOK, Windows, NotYet, Arriving, Undecided, Verdicts
<1>4. AgeInv
  BY WindowAssumption DEF Init, AgeInv, Arriving, Deferrals, Undecided
<1>5. VerdictsStayTrue
  BY DEF Init, VerdictsStayTrue, Survivors, Arriving, Undecided
<1>6. ConsentInv
  BY <1>2 DEF Init, ConsentInv, Arriving, Undecided
<1>7. DecidedInv
  BY <1>2 DEF Init, DecidedInv
<1> QED
  BY <1>1, <1>3, <1>4, <1>5, <1>6, <1>7 DEF WindowInv, TypeInv

-----------------------------------------------------------------------------
(* The steps of a window. *)

LEMMA FilterKeeps ==
  ASSUME WindowInv, Filter
  PROVE  WindowInv'
<1>1. PICK r \in Unfiltered : verdict' = [verdict EXCEPT ![r] = HardVerdict(r)]
  <2>1. Unfiltered \in SUBSET Nat /\ Unfiltered # {}
    BY WindowAssumption DEF Filter, Unfiltered, WindowInv, TypeInv, TypeOK
  <2>2. Min(Unfiltered) \in Unfiltered
    BY <2>1, MinIsIn
  <2> QED
    BY <2>2 DEF Filter
<1>2. /\ phase = "mediate" /\ verdict[r] = "none"
      /\ UNCHANGED <<grants, merchant, customer, optedOut, disputed, kills, window, phase,
                     hand, night, deferred, scorer, allocated>>
      /\ r \in hand /\ r \in Requests /\ hand \subseteq Requests /\ TypeInv
      /\ verdict \in [Requests -> Verdicts]
  BY <1>1 DEF Filter, Unfiltered, ledger, panel, WindowInv, TypeInv, TypeOK
<1>3. /\ HardVerdict(r) \in {"DENIED", "DEFERRED", "survivor"}
      /\ HardVerdict(r) = "survivor" => ~Forbidden(r) /\ ~Blocked(r)
      /\ HardVerdict(r) = "DEFERRED" => deferred[r] + 1 < MaxDeferrals
  BY <1>2, HardVerdictFacts
<1>4. /\ verdict' \in [Requests -> Verdicts] /\ verdict'[r] = HardVerdict(r)
      /\ \A q \in Requests \ {r} : verdict'[q] = verdict[q]
  BY <1>1, <1>2, <1>3 DEF Verdicts
<1>5. TypeInv'
  <2>1. Ledger!TypeOK' /\ Ledger!GrantsInBand'
    BY <1>2 DEF TypeInv, TypeOK, Ledger!TypeOK, Ledger!GrantsInBand, Ledger!InItsBand
  <2> QED
    BY <1>2, <1>4, <2>1 DEF TypeInv, TypeOK
<1>6. AgeInv'
  BY <1>2, <1>3, <1>4 DEF WindowInv, AgeInv, Deferrals
<1>7. VerdictsStayTrue'
  <2> SUFFICES ASSUME NEW c \in Customers \ allocated, NEW q \in Survivors(c)'
               PROVE  ~Ledger!HasActiveClaim(c, window)' /\ Ledger!BelowCaps(c, window)'
    BY <1>2 DEF VerdictsStayTrue
  <2>1. q \in hand /\ verdict'[q] = "survivor" /\ CustomerOf[q] = c /\ q \in Requests
    BY <1>2 DEF Survivors, TypeInv, TypeOK
  <2>2. ~Ledger!HasActiveClaim(c, window) /\ Ledger!BelowCaps(c, window)
    <3>1. CASE q = r
      BY <1>3, <1>4, <2>1, <3>1 DEF Blocked
    <3>2. CASE q # r
      BY <1>2, <1>4, <2>1, <3>2 DEF WindowInv, VerdictsStayTrue, Survivors
    <3> QED
      BY <3>1, <3>2
  <2> QED
    BY <1>2, <2>2, SlotsKept
<1>8. ConsentInv'
  <2>1. verdict'[r] = "survivor" => Allowed(r, window)
    BY <1>2, <1>3, <1>4, ValueFacts DEF Forbidden, Allowed
  <2> QED
    BY <1>2, <1>4, <2>1 DEF WindowInv, ConsentInv, Allowed
<1>9. DecidedInv'
  BY <1>2, <1>4 DEF WindowInv, DecidedInv
<1> QED
  BY <1>5, <1>6, <1>7, <1>8, <1>9 DEF WindowInv

\* Allocating for a customer decides about its survivors and issues for one of them
\* at most, which is granted.
LEMMA AllocateFacts ==
  ASSUME WindowInv, Allocate
  PROVE  /\ phase = "mediate"
         /\ UNCHANGED <<optedOut, disputed, kills, window, phase, hand, night, deferred, scorer>>
         /\ \E c \in Customers \ allocated :
              /\ allocated' = allocated \cup {c}
              /\ \A r \in Requests : r \notin Survivors(c) => verdict'[r] = verdict[r]
              /\ \A r \in Survivors(c) :
                   /\ verdict'[r] \in {"GRANTED", "DENIED", "DEFERRED", "survivor"}
                   /\ verdict'[r] = "DEFERRED" => deferred[r] + 1 < MaxDeferrals
              /\ \/ UNCHANGED <<grants, merchant, customer>>
                 \/ \E r \in Survivors(c), s \in Ledger!SendTimes(window) :
                      /\ Ledger!Issue(r, window, s, RequestedCeiling[r])
                      /\ verdict'[r] = "GRANTED"
              /\ verdict' \in [Requests -> Verdicts]
<1> DEFINE c == Min(Waiting)
<1>1. c \in Waiting
  <2>1. Waiting \in SUBSET Nat /\ Waiting # {}
    BY WindowAssumption DEF Allocate, Waiting
  <2> QED
    BY <2>1, MinIsIn
<1>2. c \in Customers \ allocated
  BY <1>1 DEF Waiting
<1>3. PICK net \in [Survivors(c) -> Scores], worthless \in SUBSET Squeezed(c) :
        /\ verdict' = Allocation(c, net, Winner(c, net, worthless))
        /\ IF \E r \in Winner(c, net, worthless) : grants[r].state = "none"
           THEN \E r \in Winner(c, net, worthless) : \E s \in SendTimes(r) :
                  Ledger!Issue(r, window, s, RequestedCeiling[r])
           ELSE UNCHANGED ledger
  BY DEF Allocate
<1>4. /\ allocated' = allocated \cup {c} /\ phase = "mediate"
      /\ UNCHANGED <<optedOut, disputed, kills, window, phase, hand, night, deferred, scorer>>
  BY DEF Allocate, panel
<1> DEFINE winner == Winner(c, net, worthless)
<1>5. winner \subseteq Survivors(c) /\ Survivors(c) \subseteq Requests
  BY DEF Winner, Survivors, WindowInv, TypeInv, TypeOK
<1> HIDE DEF c, winner
<1>6. \A r \in Requests :
        /\ DeferOrDeny(r) \in {"DENIED", "DEFERRED"}
        /\ DeferOrDeny(r) = "DEFERRED" => deferred[r] + 1 < MaxDeferrals
  BY ValueFacts DEF DeferOrDeny, WindowInv
<1>7. \A r \in Requests :
        verdict'[r] = IF r \notin Survivors(c) THEN verdict[r]
                      ELSE IF r \in winner THEN "GRANTED"
                      ELSE IF net[r] <= 0 THEN "DENIED"
                      ELSE IF \E q \in winner : RiskOf[q] = RiskOf[r] THEN "survivor"
                      ELSE DeferOrDeny(r)
  BY <1>3 DEF Allocation, winner
<1>8. \A r \in Survivors(c) :
        /\ verdict'[r] \in {"GRANTED", "DENIED", "DEFERRED", "survivor"}
        /\ verdict'[r] = "DEFERRED" => deferred[r] + 1 < MaxDeferrals
  BY <1>5, <1>6, <1>7
<1>9. \A r \in Requests : r \notin Survivors(c) => verdict'[r] = verdict[r]
  BY <1>7
<1>10. verdict' \in [Requests -> Verdicts]
  <2>1. verdict \in [Requests -> Verdicts]
    BY DEF WindowInv, TypeInv, TypeOK
  <2>2. \A r \in Requests : verdict'[r] \in Verdicts
    BY <1>8, <1>9, <2>1 DEF Verdicts
  <2>3. verdict' = [r \in Requests |-> verdict'[r]]
    BY <1>3 DEF Allocation
  <2> QED
    BY <2>2, <2>3
<1>11. \/ UNCHANGED <<grants, merchant, customer>>
       \/ \E r \in Survivors(c), s \in Ledger!SendTimes(window) :
            Ledger!Issue(r, window, s, RequestedCeiling[r]) /\ verdict'[r] = "GRANTED"
  <2>1. CASE \E r \in winner : grants[r].state = "none"
    <3>0. PICK r \in winner : \E s \in SendTimes(r) :
            Ledger!Issue(r, window, s, RequestedCeiling[r])
      BY <1>3, <2>1 DEF winner
    <3>1. PICK s \in SendTimes(r) : Ledger!Issue(r, window, s, RequestedCeiling[r])
      BY <3>0
    <3>2. s \in Ledger!SendTimes(window)
      BY <3>1, ValueFacts, LedgerAssumption
      DEF SendTimes, Ledger!SendTimes, Ledger!WindowStart, WindowInv
    <3>3. verdict'[r] = "GRANTED"
      BY <1>5, <1>7, <3>1
    <3> QED
      BY <1>5, <3>1, <3>2, <3>3
  <2>2. CASE ~\E r \in winner : grants[r].state = "none"
    BY <1>3, <2>2 DEF winner, ledger
  <2> QED
    BY <2>1, <2>2
<1> QED
  BY <1>2, <1>4, <1>8, <1>9, <1>10, <1>11

LEMMA AllocateKeeps ==
  ASSUME WindowInv, Allocate
  PROVE  WindowInv'
<1>1. PICK c \in Customers \ allocated :
        /\ allocated' = allocated \cup {c}
        /\ \A r \in Requests : r \notin Survivors(c) => verdict'[r] = verdict[r]
        /\ \A r \in Survivors(c) :
             /\ verdict'[r] \in {"GRANTED", "DENIED", "DEFERRED", "survivor"}
             /\ verdict'[r] = "DEFERRED" => deferred[r] + 1 < MaxDeferrals
        /\ \/ UNCHANGED <<grants, merchant, customer>>
           \/ \E r \in Survivors(c), s \in Ledger!SendTimes(window) :
                /\ Ledger!Issue(r, window, s, RequestedCeiling[r])
                /\ verdict'[r] = "GRANTED"
        /\ verdict' \in [Requests -> Verdicts]
  BY AllocateFacts
<1>2. /\ phase = "mediate" /\ TypeInv
      /\ UNCHANGED <<optedOut, disputed, kills, window, phase, hand, night, deferred, scorer>>
      /\ Survivors(c) \subseteq Requests /\ hand \subseteq Requests
      /\ \A r \in Survivors(c) : r \in hand /\ verdict[r] = "survivor" /\ CustomerOf[r] = c
  BY AllocateFacts DEF Survivors, WindowInv, TypeInv, TypeOK
\* Either nothing is issued, or one survivor gets a grant of this window.
<1>3. /\ Ledger!TypeOK' /\ Ledger!GrantsInBand'
      /\ \/ \A q \in Requests : grants'[q] = grants[q]
         \/ \E r \in Survivors(c) :
              /\ verdict'[r] = "GRANTED" /\ grants'[r].window = window
              /\ \A q \in Requests \ {r} : grants'[q] = grants[q]
  <2>1. CASE UNCHANGED <<grants, merchant, customer>>
    BY <1>2, <2>1
    DEF TypeInv, TypeOK, Ledger!TypeOK, Ledger!GrantsInBand, Ledger!InItsBand
  <2>2. CASE \E r \in Survivors(c), s \in Ledger!SendTimes(window) :
               Ledger!Issue(r, window, s, RequestedCeiling[r]) /\ verdict'[r] = "GRANTED"
    <3>1. PICK r \in Survivors(c), s \in Ledger!SendTimes(window) :
            Ledger!Issue(r, window, s, RequestedCeiling[r]) /\ verdict'[r] = "GRANTED"
      BY <2>2
    <3> QED
      BY <1>2, <3>1, IssueFacts
  <2> QED
    BY <1>1, <2>1, <2>2
<1>4. TypeInv'
  BY <1>1, <1>2, <1>3 DEF TypeInv, TypeOK
<1>5. AgeInv'
  BY <1>1, <1>2 DEF WindowInv, AgeInv, Deferrals
<1>6. VerdictsStayTrue'
  <2> SUFFICES ASSUME NEW d \in Customers \ (allocated \cup {c}), NEW q \in Survivors(d)'
               PROVE  ~Ledger!HasActiveClaim(d, window)' /\ Ledger!BelowCaps(d, window)'
    BY <1>1, <1>2 DEF VerdictsStayTrue
  <2>1. q \in hand /\ verdict'[q] = "survivor" /\ CustomerOf[q] = d /\ q \in Requests
    BY <1>2 DEF Survivors
  <2>2. q \in Survivors(d)
    BY <1>1, <1>2, <2>1 DEF Survivors
  <2>3. ~Ledger!HasActiveClaim(d, window) /\ Ledger!BelowCaps(d, window)
    BY <1>2, <2>2 DEF WindowInv, VerdictsStayTrue
  <2>4. \A p \in Requests : CustomerOf[p] = d => grants'[p] = grants[p]
    BY <1>2, <1>3
  <2> QED
    BY <1>2, <2>3, <2>4, SlotsKept
<1>7. ConsentInv'
  <2>1. \A r \in Survivors(c) : Allowed(r, window)
    BY <1>2 DEF WindowInv, ConsentInv
  <2>2. \A r \in Requests, w \in Nat : Allowed(r, w)' <=> Allowed(r, w)
    BY <1>2 DEF Allowed
  <2>3. \A r \in hand : verdict'[r] = "survivor" => Allowed(r, window)
    BY <1>1, <1>2, <2>1 DEF WindowInv, ConsentInv
  <2>4. \A r \in Requests : grants'[r].state # "none" =>
          grants'[r].window <= window /\ Allowed(r, grants'[r].window)
    BY <1>2, <1>3, <2>1, ValueFacts DEF WindowInv, ConsentInv
  <2> QED
    BY <1>2, <2>3, <2>4 DEF ConsentInv, Allowed
<1>8. DecidedInv'
  <2>1. ASSUME kills = 0, NEW r \in Requests, grants'[r].state = "RESERVED"
        PROVE  verdict'[r] = "GRANTED"
    <3>1. CASE grants'[r] = grants[r]
      <4>1. verdict[r] = "GRANTED"
        BY <2>1, <3>1 DEF WindowInv, DecidedInv
      <4> QED
        BY <1>1, <1>2, <4>1
    <3>2. CASE grants'[r] # grants[r]
      BY <1>3, <3>2
    <3> QED
      BY <3>1, <3>2
  <2> QED
    BY <1>2, <2>1 DEF WindowInv, DecidedInv
<1> QED
  BY <1>4, <1>5, <1>6, <1>7, <1>8 DEF WindowInv

\* What a step that leaves the ledger alone keeps of the types.
LEMMA LedgerKept ==
  ASSUME TypeInv, UNCHANGED <<grants, merchant, customer>>
  PROVE  Ledger!TypeOK' /\ Ledger!GrantsInBand'
BY DEF TypeInv, TypeOK, Ledger!TypeOK, Ledger!GrantsInBand, Ledger!InItsBand

LEMMA ScorerRaisesKeeps ==
  ASSUME WindowInv, ScorerRaises
  PROVE  WindowInv'
<1>1. /\ phase = "mediate" /\ scorer.killed /\ TypeInv
      /\ UNCHANGED <<grants, merchant, customer, optedOut, disputed, kills, window, hand, night,
                     deferred>>
      /\ \/ phase' = "failed" /\ UNCHANGED <<verdict, allocated, scorer>>
         \/ /\ phase' = phase /\ allocated' = {}
            /\ verdict' = [r \in Requests |-> "none"]
            /\ scorer' = [killed |-> FALSE, again |-> TRUE]
  BY DEF ScorerRaises, ledger, panel, attempt, Undecided, WindowInv
<1>2. kills # 0
  BY <1>1 DEF WindowInv, DecidedInv
<1>3. TypeInv'
  <2>1. /\ verdict' \in [Requests -> Verdicts] /\ allocated' \subseteq Customers
        /\ phase' \in {"mediate", "failed"}
    BY <1>1 DEF TypeInv, TypeOK, Verdicts
  <2>2. scorer' \in [killed : BOOLEAN, again : BOOLEAN]
    <3>1. scorer \in [killed : BOOLEAN, again : BOOLEAN]
      BY <1>1 DEF TypeInv, TypeOK
    <3>2. [killed |-> FALSE, again |-> TRUE] \in [killed : BOOLEAN, again : BOOLEAN]
      OBVIOUS
    <3>3. scorer' = scorer \/ scorer' = [killed |-> FALSE, again |-> TRUE]
      BY <1>1
    <3> QED
      BY <3>1, <3>2, <3>3, Zenon
  <2> QED
    BY <1>1, <2>1, <2>2, LedgerKept DEF TypeInv, TypeOK
<1>4. AgeInv'
  BY <1>1 DEF WindowInv, AgeInv, Deferrals, TypeInv, TypeOK
<1>5. VerdictsStayTrue'
  BY <1>1 DEF VerdictsStayTrue, Survivors, TypeInv, TypeOK
<1>6. ConsentInv'
  <2>1. \A r \in Requests, w \in Nat : Allowed(r, w)' <=> Allowed(r, w)
    BY <1>1 DEF Allowed
  <2> QED
    BY <1>1, <2>1, ValueFacts DEF WindowInv, ConsentInv
<1>7. DecidedInv'
  BY <1>1, <1>2 DEF DecidedInv
<1> QED
  BY <1>3, <1>4, <1>5, <1>6, <1>7 DEF WindowInv

LEMMA DecideKeeps ==
  ASSUME WindowInv, Decide
  PROVE  WindowInv'
<1>1. /\ phase = "mediate" /\ phase' = "execute" /\ TypeInv
      /\ UNCHANGED <<grants, merchant, customer, optedOut, disputed, kills, window, verdict,
                     allocated>>
      /\ deferred' = [r \in Requests |-> IF r \in Deferrals THEN deferred[r] + 1
                                         ELSE deferred[r]]
      /\ hand' = Deferrals /\ night' = {}
      /\ scorer' = [scorer EXCEPT !.again = FALSE]
  BY DEF Decide, Aged, ledger, attempt, panel, WindowInv
<1>2. /\ Deferrals \subseteq hand /\ hand \subseteq Requests
      /\ \A r \in Deferrals : deferred[r] + 1 < MaxDeferrals
  BY <1>1 DEF Deferrals, TypeInv, TypeOK, WindowInv, AgeInv
<1>3. \A r \in Requests : deferred'[r] \in 0..(MaxDeferrals - 1)
  BY <1>1, <1>2, ValueFacts
<1>4. TypeInv'
  <2>1. deferred' \in [Requests -> 0..(MaxDeferrals - 1)]
    BY <1>1, <1>3
  <2>2. scorer' \in [killed : BOOLEAN, again : BOOLEAN] /\ scorer'.killed = scorer.killed
    BY <1>1 DEF TypeInv, TypeOK
  <2> QED
    BY <1>1, <1>2, <2>1, <2>2, LedgerKept DEF TypeInv, TypeOK
<1>5. AgeInv'
  <2>1. \A r \in Requests : Arrival[r] > window => deferred'[r] = 0 /\ r \notin hand'
    BY <1>1, <1>2 DEF WindowInv, AgeInv
  <2>2. \A r \in hand' : deferred'[r] = window + 1 - Arrival[r]
    BY <1>1, <1>2, ValueFacts DEF WindowInv, AgeInv
  <2> QED
    BY <1>1, <2>1, <2>2 DEF AgeInv
<1>6. VerdictsStayTrue'
  BY <1>1 DEF VerdictsStayTrue
<1>7. ConsentInv'
  <2>1. \A r \in Requests, w \in Nat : Allowed(r, w)' <=> Allowed(r, w)
    BY <1>1 DEF Allowed
  <2> QED
    BY <1>1, <2>1, ValueFacts DEF WindowInv, ConsentInv
<1>8. DecidedInv'
  <2>1. scorer'.killed = scorer.killed
    BY <1>1 DEF TypeInv, TypeOK
  <2> QED
    BY <1>1, <2>1 DEF WindowInv, DecidedInv
<1> QED
  BY <1>4, <1>5, <1>6, <1>7, <1>8 DEF WindowInv

\* Executing and settling moves a grant that was reserving, which no longer is if it
\* was a decision of this window.
LEMMA RunnerKeeps ==
  ASSUME WindowInv, Execute \/ Settle
  PROVE  WindowInv'
<1>1. /\ phase = "execute" /\ TypeInv
      /\ UNCHANGED <<optedOut, disputed, kills, window, phase, hand, night, deferred, scorer,
                     allocated>>
  BY DEF Execute, Settle, panel, attempt, WindowInv
<1>2. \E r \in Requests :
        /\ \/ Ledger!Execute(r)
           \/ Ledger!Confirm(r, grants[r].ceiling)
           \/ Ledger!Rollback(r)
        /\ verdict' \in {verdict, [verdict EXCEPT ![r] = "executed"]}
        /\ grants'[r].state # "RESERVED"
  <2>1. CASE Execute
    <3>1. Granted \in SUBSET Nat /\ Granted # {} /\ Granted \subseteq Requests
      BY <2>1, WindowAssumption DEF Execute, Granted
    <3>2. Min(Granted) \in Requests
      BY <3>1, MinIsIn
    <3>3. PICK r \in Requests : Ledger!Execute(r) /\ verdict' = [verdict EXCEPT ![r] = "executed"]
      BY <2>1, <3>2 DEF Execute
    <3>4. grants'[r].state # "RESERVED"
      BY <1>1, <3>3 DEF Ledger!Execute, Ledger!Move, TypeInv, TypeOK, Ledger!TypeOK, Ledger!Grant
    <3> QED
      BY <3>3, <3>4
  <2>2. CASE Settle
    <3>1. PICK r \in Requests : Ledger!Confirm(r, grants[r].ceiling) \/ Ledger!Rollback(r)
      BY <2>2 DEF Settle, Executing
    <3>2. grants'[r].state # "RESERVED" /\ verdict' = verdict
      BY <1>1, <2>2, <3>1
      DEF Settle, attempt, Ledger!Confirm, Ledger!Rollback, Ledger!Move, TypeInv, TypeOK,
          Ledger!TypeOK, Ledger!Grant
    <3> QED
      BY <3>1, <3>2
  <2> QED
    BY <2>1, <2>2
<1>3. PICK r \in Requests :
        /\ Ledger!TypeOK' /\ Ledger!GrantsInBand'
        /\ grants[r].state \in {"RESERVED", "EXECUTING"} /\ grants'[r].state # "RESERVED"
        /\ grants'[r].window = grants[r].window
        /\ \A q \in Requests \ {r} : grants'[q] = grants[q]
        /\ verdict' \in {verdict, [verdict EXCEPT ![r] = "executed"]}
  BY <1>1, <1>2, LifecycleFacts
<1>4. /\ verdict' \in [Requests -> Verdicts]
      /\ \A q \in Requests \ {r} : verdict'[q] = verdict[q]
  BY <1>1, <1>3 DEF TypeInv, TypeOK, Verdicts
<1>5. TypeInv'
  BY <1>1, <1>3, <1>4 DEF TypeInv, TypeOK
<1>6. AgeInv'
  BY <1>1 DEF WindowInv, AgeInv
<1>7. VerdictsStayTrue'
  BY <1>1 DEF VerdictsStayTrue
<1>8. ConsentInv'
  <2>1. \A q \in Requests, w \in Nat : Allowed(q, w)' <=> Allowed(q, w)
    BY <1>1 DEF Allowed
  <2>2. \A q \in Requests : /\ grants'[q].window = grants[q].window
                            /\ grants'[q].state # "none" => grants[q].state # "none"
    BY <1>3
  <2> QED
    BY <1>1, <2>1, <2>2, ValueFacts DEF WindowInv, ConsentInv
<1>9. DecidedInv'
  BY <1>1, <1>3, <1>4 DEF WindowInv, DecidedInv
<1> QED
  BY <1>5, <1>6, <1>7, <1>8, <1>9 DEF WindowInv

LEMMA NextWindowKeeps ==
  ASSUME WindowInv, NextWindow
  PROVE  WindowInv'
<1>1. /\ phase = "execute" /\ Granted = {} /\ TypeInv
      /\ UNCHANGED <<grants, merchant, customer, optedOut, disputed, kills, deferred, scorer>>
      /\ verdict' = [r \in Requests |-> "none"] /\ allocated' = {}
      /\ \/ window = LastWindow /\ phase' = "over" /\ UNCHANGED <<window, hand, night>>
         \/ /\ window # LastWindow /\ phase' = "mediate" /\ window' = window + 1
            /\ hand' = hand \cup Arriving(window + 1)
            /\ night' \subseteq Arriving(window + 1)
  BY DEF NextWindow, ledger, panel, Undecided, WindowInv
<1>2. /\ hand \subseteq Requests /\ Arriving(window + 1) \subseteq Requests
      /\ window \in Nat /\ window' \in Nat /\ window <= window'
  BY <1>1, ValueFacts DEF Arriving, TypeInv, TypeOK
<1>3. TypeInv'
  <2>1. window' \in Windows
    BY <1>1, <1>2, ValueFacts DEF Windows
  <2>2. night' \subseteq hand' /\ hand' \subseteq Requests
    BY <1>1, <1>2 DEF TypeInv, TypeOK
  <2> QED
    BY <1>1, <2>1, <2>2, LedgerKept DEF TypeInv, TypeOK, Verdicts
<1>4. AgeInv'
  <2>1. CASE phase' = "over"
    <3>1. window = LastWindow /\ window' = window /\ hand' = hand
      BY <1>1, <2>1
    <3>2. \A r \in hand : FALSE
      BY <1>1, <1>2, <3>1, WindowFacts, ValueFacts DEF WindowInv, AgeInv
    <3> QED
      BY <1>1, <2>1, <3>1, <3>2 DEF WindowInv, AgeInv
  <2>2. CASE phase' = "mediate"
    <3>1. /\ window' = window + 1 /\ hand' = hand \cup Arriving(window + 1)
          /\ \A r \in Requests : Arrival[r] \in Nat
      BY <1>1, <2>2, ValueFacts
    <3>2. \A r \in Requests : Arrival[r] > window' => deferred[r] = 0 /\ r \notin hand'
      BY <1>2, <3>1 DEF WindowInv, AgeInv, Arriving
    <3>3. \A r \in hand' : deferred[r] = window' - Arrival[r]
      <4> SUFFICES ASSUME NEW r \in hand' PROVE deferred[r] = window' - Arrival[r]
        OBVIOUS
      <4>1. CASE r \in hand
        BY <1>1, <1>2, <3>1, <4>1 DEF WindowInv, AgeInv
      <4>2. CASE r \in Arriving(window + 1)
        <5>1. r \in Requests /\ Arrival[r] = window + 1
          BY <4>2 DEF Arriving
        <5> QED
          BY <1>2, <3>1, <5>1 DEF WindowInv, AgeInv
      <4> QED
        BY <3>1, <4>1, <4>2
    <3>4. Deferrals' = {}
      BY <1>1, <1>2, <3>1 DEF Deferrals
    <3> QED
      BY <1>1, <2>2, <3>2, <3>3, <3>4 DEF AgeInv
  <2> QED
    BY <1>1, <2>1, <2>2
<1>5. VerdictsStayTrue'
  <2>1. \A c \in Customers : Survivors(c)' = {}
    <3>1. hand' \subseteq Requests
      BY <1>1, <1>2
    <3> QED
      BY <1>1, <3>1 DEF Survivors
  <2> QED
    BY <2>1 DEF VerdictsStayTrue
<1>6. ConsentInv'
  <2>1. \A r \in Requests, w \in Nat : Allowed(r, w)' <=> Allowed(r, w)
    BY <1>1 DEF Allowed
  <2>2. \A r \in hand' : verdict'[r] # "survivor"
    BY <1>1, <1>2
  <2>3. \A r \in Requests : grants[r].state # "none" =>
          grants[r].window <= window' /\ Allowed(r, grants[r].window)
    BY <1>1, <1>2, ValueFacts DEF WindowInv, ConsentInv
  <2> QED
    BY <1>1, <2>1, <2>2, <2>3, ValueFacts DEF ConsentInv
<1>7. DecidedInv'
  BY <1>1 DEF WindowInv, DecidedInv, Granted
<1> QED
  BY <1>3, <1>4, <1>5, <1>6, <1>7 DEF WindowInv

\* The panel can forbid from this window on, and kill the scorer.
LEMMA PanelKeeps ==
  ASSUME WindowInv,
         \/ KillModel
         \/ \E c \in MayOptOut : OptOut(c)
         \/ \E c \in MayDispute : Dispute(c)
         \/ UNCHANGED vars
  PROVE  WindowInv'
<1>1. /\ UNCHANGED <<grants, merchant, customer, window, phase, hand, night, deferred, verdict,
                     allocated>>
      /\ TypeInv /\ hand \subseteq Requests
      /\ \A r \in Requests : grants[r].window \in Nat /\ CustomerOf[r] \in Customers
  BY ValueFacts
  DEF KillModel, OptOut, Dispute, vars, ledger, attempt, panel, WindowInv, TypeInv, TypeOK
<1>2. /\ optedOut' \in [Customers -> 0..NotYet] /\ disputed' \in [Customers -> 0..NotYet]
      /\ \A c \in Customers :
           /\ optedOut'[c] = optedOut[c] \/ optedOut'[c] = window
           /\ disputed'[c] = disputed[c] \/ disputed'[c] = window
  <2>1. window \in 0..NotYet
    BY <1>1, ValueFacts
  <2>2. optedOut \in [Customers -> 0..NotYet] /\ disputed \in [Customers -> 0..NotYet]
    BY <1>1 DEF TypeInv, TypeOK
  <2>3. CASE KillModel
    BY <2>2, <2>3 DEF KillModel
  <2>4. CASE \E c \in MayOptOut : OptOut(c)
    BY <2>1, <2>2, <2>4, WindowAssumption DEF OptOut
  <2>5. CASE \E c \in MayDispute : Dispute(c)
    BY <2>1, <2>2, <2>5, WindowAssumption DEF Dispute
  <2>6. CASE UNCHANGED vars
    BY <2>2, <2>6 DEF vars, panel
  <2> QED
    BY <2>3, <2>4, <2>5, <2>6
<1>3. /\ scorer' \in [killed : BOOLEAN, again : BOOLEAN] /\ kills' \in 0..MaxKills
      /\ kills' = 0 => kills = 0 /\ scorer' = scorer
  <2>1. /\ scorer \in [killed : BOOLEAN, again : BOOLEAN]
        /\ kills \in Nat /\ kills <= MaxKills /\ MaxKills \in Nat
    BY <1>1, WindowAssumption DEF TypeInv, TypeOK
  <2>2. CASE KillModel
    <3>1. kills' = kills + 1 /\ kills < MaxKills /\ scorer' = [scorer EXCEPT !.killed = TRUE]
      BY <2>2 DEF KillModel
    <3>2. scorer' \in [killed : BOOLEAN, again : BOOLEAN]
      BY <2>1, <3>1
    <3> QED
      BY <2>1, <3>1, <3>2
  <2>3. CASE ~KillModel
    <3>1. scorer' = scorer /\ kills' = kills
      BY <2>3 DEF OptOut, Dispute, vars, panel
    <3> QED
      BY <2>1, <3>1
  <2> QED
    BY <2>2, <2>3
<1>4. TypeInv'
  BY <1>1, <1>2, <1>3, LedgerKept DEF TypeInv, TypeOK
<1>5. AgeInv'
  BY <1>1 DEF WindowInv, AgeInv, Deferrals
<1>6. VerdictsStayTrue'
  <2> SUFFICES ASSUME phase = "mediate", NEW c \in Customers \ allocated,
                      NEW r \in Survivors(c)
               PROVE  ~Ledger!HasActiveClaim(c, window)' /\ Ledger!BelowCaps(c, window)'
    BY <1>1 DEF VerdictsStayTrue, Survivors
  <2>1. ~Ledger!HasActiveClaim(c, window) /\ Ledger!BelowCaps(c, window)
    BY DEF WindowInv, VerdictsStayTrue
  <2> QED
    BY <1>1, <2>1, SlotsKept
<1>7. ConsentInv'
  <2>1. \A r \in Requests, w \in Nat : w <= window /\ Allowed(r, w) => Allowed(r, w)'
    <3> SUFFICES ASSUME NEW r \in Requests, NEW w \in Nat, w <= window, Allowed(r, w)
                 PROVE  Allowed(r, w)'
      OBVIOUS
    <3>1. \/ optedOut'[CustomerOf[r]] = optedOut[CustomerOf[r]]
          \/ optedOut'[CustomerOf[r]] = window
      BY <1>1, <1>2
    <3>2. \/ disputed'[CustomerOf[r]] = disputed[CustomerOf[r]]
          \/ disputed'[CustomerOf[r]] = window
      BY <1>1, <1>2
    <3> QED
      BY <3>1, <3>2 DEF Allowed
  <2>2. \A r \in hand : phase = "mediate" /\ verdict[r] = "survivor" => Allowed(r, window)'
    BY <1>1, <2>1, ValueFacts DEF WindowInv, ConsentInv
  <2>3. \A r \in Requests : grants[r].state # "none" =>
          grants[r].window <= window /\ Allowed(r, grants[r].window)'
    BY <1>1, <2>1 DEF WindowInv, ConsentInv
  <2> QED
    BY <1>1, <2>2, <2>3 DEF ConsentInv, Allowed
<1>8. DecidedInv'
  BY <1>1, <1>3 DEF WindowInv, DecidedInv
<1> QED
  BY <1>4, <1>5, <1>6, <1>7, <1>8 DEF WindowInv

LEMMA WindowStep == WindowInv /\ [Next]_vars => WindowInv'
BY FilterKeeps, AllocateKeeps, ScorerRaisesKeeps, DecideKeeps, RunnerKeeps, NextWindowKeeps,
   PanelKeeps
DEF Next, Ended

LEMMA WindowInvHolds == Spec => []WindowInv
BY WindowInit, WindowStep, PTL DEF Spec

-----------------------------------------------------------------------------
(* What the decision path promises. *)

\* Every variable holds what the program's can; no request is deferred as often as
\* MAX_DEFERRAL_WINDOWS.
THEOREM WindowTypes == Spec => []TypeOK
BY WindowInvHolds, PTL DEF WindowInv, TypeInv

\* Whatever arrives is decided for good before the last window is over.
THEOREM HorizonIsEnough == Spec => []HorizonSuffices
<1>1. WindowInv => HorizonSuffices
  BY DEF WindowInv, AgeInv, HorizonSuffices
<1> QED
  BY <1>1, WindowInvHolds, PTL

\* However often a window is mediated, a candidate ages once in it if it is deferred.
THEOREM AgesOnce == Spec => []AgedOncePerWindow
<1>1. WindowInv => AgedOncePerWindow
  BY DEF WindowInv, AgeInv, AgedOncePerWindow
<1> QED
  BY <1>1, WindowInvHolds, PTL

\* What the filter found out about a customer's slot and caps holds until the
\* allocator comes to the customer.
THEOREM VerdictsTrue == Spec => []VerdictsStayTrue
BY WindowInvHolds, PTL DEF WindowInv

\* No grant is issued for a request in a window after the one in which its customer
\* opted out of its channel, or disputed while it carries an incentive.
THEOREM OptOutsHonoured == Spec => []OptOutHonoured
<1>1. WindowInv => OptOutHonoured
  BY DEF WindowInv, ConsentInv, Allowed, OptOutHonoured
<1> QED
  BY <1>1, WindowInvHolds, PTL

\* As long as the scorer is not killed, no grant is left reserved between windows.
THEOREM NothingStranded == Spec => []NoneStranded
<1>1. WindowInv => NoneStranded
  BY DEF WindowInv, DecidedInv, NoneStranded, Between, Stranded, Granted, Executing,
         Ledger!Reserving
<1> QED
  BY <1>1, WindowInvHolds, PTL

\* What the decision path does to the ledger are calls that ContactLedger allows.
LEMMA WindowCalls == WindowInv /\ [Next]_vars => [Ledger!Next]_(Ledger!vars)
<1> SUFFICES ASSUME WindowInv, [Next]_vars
             PROVE  Ledger!Next \/ UNCHANGED Ledger!vars
  OBVIOUS
<1>1. TypeInv /\ window \in Windows
  BY DEF WindowInv, TypeInv, TypeOK
<1>2. CASE UNCHANGED <<grants, merchant, customer>>
  BY <1>2 DEF Ledger!vars
<1>3. CASE Allocate
  <2>1. \/ UNCHANGED <<grants, merchant, customer>>
        \/ \E c \in Customers : \E r \in Survivors(c), s \in Ledger!SendTimes(window) :
             Ledger!Issue(r, window, s, RequestedCeiling[r])
    BY <1>3, AllocateFacts
  <2>2. \A c \in Customers : Survivors(c) \subseteq Requests
    BY <1>1 DEF Survivors, TypeInv, TypeOK
  <2>3. \A r \in Requests : RequestedCeiling[r] \in 0..RequestedCeiling[r]
    BY LedgerAssumption
  <2> QED
    BY <1>1, <1>2, <2>1, <2>2, <2>3 DEF Ledger!Next
<1>4. CASE Execute
  <2>1. Granted \in SUBSET Nat /\ Granted # {} /\ Granted \subseteq Requests
    BY <1>4, WindowAssumption DEF Execute, Granted
  <2>2. Min(Granted) \in Requests
    BY <2>1, MinIsIn
  <2> QED
    BY <1>4, <2>2 DEF Execute, Ledger!Next
<1>5. CASE Settle
  <2>1. PICK r \in Requests : Ledger!Confirm(r, grants[r].ceiling) \/ Ledger!Rollback(r)
    BY <1>5 DEF Settle, Executing
  <2>2. grants[r].ceiling \in 0..grants[r].ceiling
    BY <1>1 DEF TypeInv, TypeOK, Ledger!TypeOK, Ledger!Grant
  <2> QED
    BY <2>1, <2>2 DEF Ledger!Next
<1> QED
  BY <1>2, <1>3, <1>4, <1>5
  DEF Next, Filter, ScorerRaises, Decide, NextWindow, KillModel, OptOut, Dispute, Ended, ledger,
      vars

\* Whatever the scores are and whatever the panel does, the ledger sees calls that
\* ContactLedger allows and no others, so that what is proved of its slots, caps and
\* pools holds on the decision path.
THEOREM WindowsRefineLedger == Spec => Ledger!Spec
<1>1. Init => Ledger!Init
  BY DEF Init
<1> QED
  BY <1>1, WindowCalls, WindowInvHolds, PTL DEF Spec, Ledger!Spec

=============================================================================
