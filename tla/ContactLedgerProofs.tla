------------------------- MODULE ContactLedgerProofs -------------------------
(***************************************************************************)
(* Proofs about the grant ledger, for every set of requests, customers and *)
(* windows and for all caps and budgets.  Each theorem is laid out as      *)
(* Init, one step, and the temporal conclusion; the step rests on a lemma  *)
(* for each kind of step: Issue, which adds a live grant, and the          *)
(* lifecycle calls, which add none and move none.                          *)
(***************************************************************************)
EXTENDS ContactLedger, FiniteSetTheorems, WellFoundedInduction, TLAPS

\* One call of Next about request r, as one formula.
Step(r) ==
  \/ \E w \in Windows : \E s \in SendTimes(w), ask \in 0..RequestedCeiling[r] :
       Issue(r, w, s, ask)
  \/ Execute(r)
  \/ \E spend \in 0..grants[r].ceiling : Confirm(r, spend)
  \/ Rollback(r)
  \/ \E now \in Instants : Expire(r, now)

\* Every window opens at a natural instant, and a send instant is not before
\* the opening of its window.
LEMMA SendTimesFacts ==
  ASSUME NEW w \in Windows
  PROVE  /\ WindowStart(w) \in Nat
         /\ \A s \in SendTimes(w) : s \in Nat /\ s >= WindowStart(w)
<1>1. w \in Nat /\ DayLen \in Nat /\ OpenAt \in Nat /\ CloseAt \in Nat
  BY CalendarAssumption
<1>2. w * DayLen \in Nat
  BY <1>1
<1> DEFINE d == w * DayLen
<1>3. d \in Nat
  BY <1>2
<1>4. WindowStart(w) = d + OpenAt /\ SendTimes(w) = (d + OpenAt)..(d + CloseAt - 1)
  BY DEF WindowStart, SendTimes
<1> HIDE DEF d
<1> QED
  BY <1>1, <1>3, <1>4

\* The ceiling of a grant is a natural number, no more than was asked for and no
\* more than either pool has left.
LEMMA DowngradeFacts ==
  ASSUME NEW ask \in Nat, NEW m \in Int, NEW k \in Int, m > 0, k > 0
  PROVE  /\ DowngradeToFit(ask, m, k) \in Nat
         /\ DowngradeToFit(ask, m, k) <= m
         /\ DowngradeToFit(ask, m, k) <= k
         /\ DowngradeToFit(ask, m, k) <= ask
BY DEF DowngradeToFit, Lesser

\* What is left of a pool is a number.
LEMMA RemainingType ==
  ASSUME NEW b \in Nat, NEW p \in Pool
  PROVE  Remaining(b, p) \in Int
BY DEF Remaining, Pool

-----------------------------------------------------------------------------
(* Types, and the sendable band. *)

TypeInv == TypeOK /\ GrantsInBand

\* A new grant keeps the types and is sent inside its window's band.
LEMMA IssueType ==
  ASSUME TypeInv, NEW r \in Requests, NEW w \in Windows, NEW s \in SendTimes(w),
         NEW ask \in 0..RequestedCeiling[r], Issue(r, w, s, ask)
  PROVE  TypeInv'
<1> DEFINE c == CustomerOf[r]
           mLeft == Remaining(MerchantBudget, merchant[w])
           cLeft == Remaining(CustomerBudget[c], customer[c][w])
           ceiling == DowngradeToFit(ask, mLeft, cLeft)
           g == [state |-> "RESERVED", window |-> w, sendAfter |-> s,
                 expiresAt |-> s + GrantTTL, ceiling |-> ceiling]
<1>1. c \in Customers /\ w \in Nat /\ s \in Nat /\ ask \in Nat /\ GrantTTL \in Nat
  BY RequestsAssumption, CalendarAssumption, SendTimesFacts
<1>2. merchant[w] \in Pool /\ customer[c][w] \in Pool
  BY <1>1 DEF TypeInv, TypeOK
<1>3. mLeft \in Int /\ cLeft \in Int
  BY <1>1, <1>2, LimitsAssumption, RemainingType
<1>4. mLeft > 0 /\ cLeft > 0
  BY DEF Issue
<1>5. ceiling \in Nat
  BY <1>1, <1>3, <1>4, DowngradeFacts
<1>6. /\ grants' = [grants EXCEPT ![r] = g]
      /\ merchant' = [merchant EXCEPT ![w].reserved = @ + ceiling]
      /\ customer' = [customer EXCEPT ![c][w].reserved = @ + ceiling]
  BY DEF Issue
<1> HIDE DEF ceiling
<1>7. g \in Grant
  BY <1>1, <1>5 DEF Grant, GrantStates, CapacityConsuming
<1> HIDE DEF c
<1>8. TypeOK'
  <2>1. grants' \in [Requests -> Grant]
    BY <1>6, <1>7 DEF TypeInv, TypeOK
  <2>2. merchant' \in [Windows -> Pool]
    BY <1>2, <1>5, <1>6 DEF TypeInv, TypeOK, Pool
  <2>3. customer' \in [Customers -> [Windows -> Pool]]
    <3> DEFINE p == [customer[c][w] EXCEPT !.reserved = @ + ceiling]
    <3>1. p \in Pool
      BY <1>2, <1>5 DEF Pool
    <3>2. customer' = [customer EXCEPT ![c] = [customer[c] EXCEPT ![w] = p]]
      BY <1>1, <1>6 DEF TypeInv, TypeOK
    <3> HIDE DEF p
    <3>3. customer[c] \in [Windows -> Pool]
      BY <1>1 DEF TypeInv, TypeOK
    <3>4. [customer[c] EXCEPT ![w] = p] \in [Windows -> Pool]
      BY <3>1, <3>3
    <3> QED
      BY <3>2, <3>4 DEF TypeInv, TypeOK
  <2> QED
    BY <2>1, <2>2, <2>3 DEF TypeOK
<1>9. GrantsInBand'
  BY <1>6 DEF TypeInv, TypeOK, GrantsInBand, InItsBand
<1> QED
  BY <1>8, <1>9 DEF TypeInv

\* A transition keeps the terms of every grant and changes the state of one.
LEMMA MoveFacts ==
  ASSUME TypeInv, NEW r \in Requests, NEW from, NEW to,
         from \subseteq Reserving, to \in GrantStates, Move(r, from, to)
  PROVE  /\ grants' \in [Requests -> Grant]
         /\ grants[r].state \in from /\ grants'[r].state = to
         /\ grants'[r].window = grants[r].window
         /\ grants'[r].sendAfter = grants[r].sendAfter
         /\ grants'[r].ceiling = grants[r].ceiling
         /\ grants[r].window \in Windows
         /\ grants[r].ceiling \in Nat
         /\ \A q \in Requests \ {r} : grants'[q] = grants[q]
         /\ GrantsInBand'
<1>1. /\ grants \in [Requests -> Grant]
      /\ grants[r].state \in from
      /\ grants' = [grants EXCEPT ![r].state = to]
  BY DEF TypeInv, TypeOK, Move
<1>2. grants[r] \in Grant /\ grants'[r] = [grants[r] EXCEPT !.state = to]
  BY <1>1
<1>3. /\ grants'[r].state = to
      /\ grants'[r].window = grants[r].window
      /\ grants'[r].sendAfter = grants[r].sendAfter
      /\ grants'[r].ceiling = grants[r].ceiling
      /\ grants[r].ceiling \in Nat
      /\ grants'[r] \in Grant
  BY <1>2 DEF Grant
<1>4. grants' \in [Requests -> Grant] /\ \A q \in Requests \ {r} : grants'[q] = grants[q]
  BY <1>1, <1>3
<1>5. grants[r].state # "none"
  BY <1>1 DEF Reserving
<1>6. GrantsInBand'
  BY <1>3, <1>4, <1>5 DEF TypeInv, GrantsInBand, InItsBand
<1> QED
  BY <1>1, <1>3, <1>4, <1>5, <1>6 DEF TypeInv, GrantsInBand, InItsBand

\* Settling moves numbers between the columns of the two pools of one window.
LEMMA SettleFacts ==
  ASSUME TypeInv, NEW r \in Requests, NEW spend \in Nat,
         grants[r].window \in Windows, grants[r].ceiling \in Nat, Settle(r, spend)
  PROVE  LET w == grants[r].window
             c == CustomerOf[r]
             Settled(pool) == [reserved |-> pool.reserved - grants[r].ceiling,
                               spent |-> pool.spent + spend]
         IN  /\ merchant' \in [Windows -> Pool]
             /\ customer' \in [Customers -> [Windows -> Pool]]
             /\ merchant'[w] = Settled(merchant[w])
             /\ customer'[c][w] = Settled(customer[c][w])
             /\ \A x \in Windows \ {w} : merchant'[x] = merchant[x]
             /\ \A d \in Customers, x \in Windows :
                  (d # c \/ x # w) => customer'[d][x] = customer[d][x]
<1> DEFINE w == grants[r].window
           c == CustomerOf[r]
           Settled(pool) == [reserved |-> pool.reserved - grants[r].ceiling,
                             spent |-> pool.spent + spend]
<1>1. c \in Customers /\ w \in Windows
  BY RequestsAssumption
<1>2. \A p \in Pool : Settled(p) \in Pool
  BY DEF Pool
<1>3. /\ merchant \in [Windows -> Pool]
      /\ customer \in [Customers -> [Windows -> Pool]]
      /\ merchant' = [merchant EXCEPT ![w] = Settled(@)]
      /\ customer' = [customer EXCEPT ![c][w] = Settled(@)]
  BY DEF TypeInv, TypeOK, Settle
<1> HIDE DEF Settled, c, w
<1>4. /\ merchant' \in [Windows -> Pool]
      /\ merchant'[w] = Settled(merchant[w])
      /\ \A x \in Windows \ {w} : merchant'[x] = merchant[x]
  BY <1>1, <1>2, <1>3
<1>5. /\ customer' \in [Customers -> [Windows -> Pool]]
      /\ customer'[c][w] = Settled(customer[c][w])
      /\ \A d \in Customers, x \in Windows :
           (d # c \/ x # w) => customer'[d][x] = customer[d][x]
  BY <1>1, <1>2, <1>3
<1> QED
  BY <1>4, <1>5 DEF Settled, c, w

\* What Execute, Confirm, Rollback and Expire have in common: r was reserving,
\* its terms stay, nobody else's grant changes, and the pools are left alone or
\* settled with at most the ceiling.
Lifecycle(r) ==
  /\ grants[r].state \in Reserving
  /\ grants'[r].state \in {"EXECUTING"} \cup Terminal
  /\ grants'[r].window = grants[r].window
  /\ grants'[r].sendAfter = grants[r].sendAfter
  /\ grants'[r].ceiling = grants[r].ceiling
  /\ grants[r].window \in Windows
  /\ grants[r].ceiling \in Nat
  /\ \A q \in Requests \ {r} : grants'[q] = grants[q]
  /\ IF grants'[r].state = "EXECUTING"
     THEN UNCHANGED <<merchant, customer>>
     ELSE \E spend \in 0..grants[r].ceiling :
            /\ grants'[r].state # "CONFIRMED" => spend = 0
            /\ Settle(r, spend)

\* Every step of the ledger issues a grant or is a lifecycle call, and keeps the
\* types.
LEMMA StepKinds ==
  ASSUME TypeInv, NEW r \in Requests, Step(r)
  PROVE  /\ TypeInv'
         /\ \/ \E w \in Windows : \E s \in SendTimes(w), ask \in 0..RequestedCeiling[r] :
                 Issue(r, w, s, ask)
            \/ Lifecycle(r)
<1>1. ASSUME NEW w \in Windows, NEW s \in SendTimes(w),
             NEW ask \in 0..RequestedCeiling[r], Issue(r, w, s, ask)
      PROVE  TypeInv'
  BY <1>1, IssueType
<1>2. ASSUME Execute(r)
      PROVE  TypeInv' /\ Lifecycle(r)
  <2>1. Move(r, {"RESERVED"}, "EXECUTING") /\ UNCHANGED <<merchant, customer>>
    BY <1>2 DEF Execute
  <2>2. {"RESERVED"} \subseteq Reserving /\ "EXECUTING" \in GrantStates
    BY DEF Reserving, GrantStates, CapacityConsuming
  <2>3. TypeInv'
    BY <2>1, <2>2, MoveFacts DEF TypeInv, TypeOK
  <2>4. Lifecycle(r)
    BY <2>1, <2>2, MoveFacts DEF Lifecycle, Reserving
  <2> QED
    BY <2>3, <2>4
<1>3. ASSUME NEW from, NEW to, NEW spend \in Nat,
             from \subseteq Reserving, to \in Terminal,
             to # "CONFIRMED" => spend = 0, spend \in 0..grants[r].ceiling,
             Move(r, from, to), Settle(r, spend)
      PROVE  TypeInv' /\ Lifecycle(r)
  <2>1. to \in GrantStates /\ to # "EXECUTING"
    BY <1>3 DEF GrantStates, Terminal
  <2>2. grants[r].window \in Windows /\ grants[r].ceiling \in Nat
    BY <1>3, <2>1, MoveFacts
  <2>3. /\ merchant' \in [Windows -> Pool]
        /\ customer' \in [Customers -> [Windows -> Pool]]
    BY <1>3, <2>2, SettleFacts
  <2>4. TypeInv'
    BY <1>3, <2>1, <2>3, MoveFacts DEF TypeInv, TypeOK
  <2>5. Lifecycle(r)
    BY <1>3, <2>1, MoveFacts DEF Lifecycle, Reserving
  <2> QED
    BY <2>4, <2>5
<1>4. ASSUME NEW spend \in 0..grants[r].ceiling, Confirm(r, spend)
      PROVE  TypeInv' /\ Lifecycle(r)
  <2>1. spend \in Nat
    BY DEF TypeInv, TypeOK, Grant
  <2> QED
    BY <1>3, <1>4, <2>1 DEF Confirm, Reserving, Terminal
<1>5. grants[r].ceiling \in Nat
  BY DEF TypeInv, TypeOK, Grant
<1>6. ASSUME Rollback(r)
      PROVE  TypeInv' /\ Lifecycle(r)
  BY <1>3, <1>5, <1>6 DEF Rollback, Reserving, Terminal
<1>7. ASSUME NEW now \in Instants, Expire(r, now)
      PROVE  TypeInv' /\ Lifecycle(r)
  BY <1>3, <1>5, <1>7 DEF Expire, Reserving, Terminal
<1> QED
  BY <1>1, <1>2, <1>4, <1>6, <1>7 DEF Step

LEMMA NextIsStep ==
  ASSUME Next PROVE \E r \in Requests : Step(r)
BY DEF Next, Step

LEMMA TypeInit == Init => TypeInv
<1> SUFFICES ASSUME Init PROVE TypeInv
  OBVIOUS
<1>1. NoGrant \in Grant /\ FreshPool \in Pool
  BY DEF NoGrant, Grant, FreshPool, Pool
<1> QED
  BY <1>1 DEF Init, TypeInv, TypeOK, GrantsInBand, NoGrant

LEMMA TypeStep == TypeInv /\ [Next]_vars => TypeInv'
<1>1. ASSUME TypeInv, Next PROVE TypeInv'
  BY <1>1, NextIsStep, StepKinds
<1>2. ASSUME TypeInv, UNCHANGED vars PROVE TypeInv'
  BY <1>2 DEF vars, TypeInv, TypeOK, GrantsInBand, InItsBand
<1> QED
  BY <1>1, <1>2

\* The tables only ever hold values of their columns.
THEOREM TypeCorrect == Spec => []TypeOK
<1>1. TypeInv => TypeOK
  BY DEF TypeInv
<1> QED
  BY <1>1, TypeInit, TypeStep, PTL DEF Spec

\* Whatever is issued is sent inside the band of the window it was issued for.
THEOREM BandCorrect == Spec => []GrantsInBand
<1>1. TypeInv => GrantsInBand
  BY DEF TypeInv
<1> QED
  BY <1>1, TypeInit, TypeStep, PTL DEF Spec

-----------------------------------------------------------------------------
(* The slot and the contact caps. *)

\* A customer's live grants are finitely many.
LEMMA ActiveFinite ==
  ASSUME NEW c \in Customers
  PROVE  IsFiniteSet(Active(c)) /\ IsFiniteSet(Active(c)')
<1>1. Active(c) \subseteq Requests /\ Active(c)' \subseteq Requests
  BY DEF Active
<1> QED
  BY <1>1, FS_Subset, RequestsAssumption

\* A lifecycle call makes no grant live and moves none.
LEMMA LifecycleShrinks ==
  ASSUME TypeInv, NEW r \in Requests, Lifecycle(r)
  PROVE  \A c \in Customers :
           /\ Active(c)' \subseteq Active(c)
           /\ \A q \in Requests : /\ grants'[q].window = grants[q].window
                                  /\ grants'[q].sendAfter = grants[q].sendAfter
                                  /\ grants'[q].ceiling = grants[q].ceiling
BY DEF Lifecycle, Active, Reserving, CapacityConsuming

\* Issuing makes one grant live, with the terms of the call, and changes no other.
LEMMA IssueAdds ==
  ASSUME TypeInv, NEW r \in Requests, NEW w \in Windows, NEW s \in SendTimes(w),
         NEW ask \in 0..RequestedCeiling[r], Issue(r, w, s, ask)
  PROVE  /\ grants[r].state = "none" /\ grants'[r].state = "RESERVED"
         /\ grants'[r].window = w /\ grants'[r].sendAfter = s
         /\ \A q \in Requests \ {r} : grants'[q] = grants[q]
         /\ r \notin Active(CustomerOf[r])
         /\ Active(CustomerOf[r])' = Active(CustomerOf[r]) \cup {r}
         /\ \A c \in Customers \ {CustomerOf[r]} : Active(c)' = Active(c)
<1>1. /\ grants[r].state = "none" /\ grants'[r].state = "RESERVED"
      /\ grants'[r].window = w /\ grants'[r].sendAfter = s
      /\ \A q \in Requests \ {r} : grants'[q] = grants[q]
  BY DEF Issue, TypeInv, TypeOK
<1>2. \A c \in Customers : Active(c)' =
        {q \in Requests : CustomerOf[q] = c /\ grants'[q].state \in CapacityConsuming}
  BY DEF Active
<1> QED
  BY <1>1, <1>2 DEF Active, CapacityConsuming

SlotInv == TypeInv /\ SlotExclusive

LEMMA SlotStep == SlotInv /\ [Next]_vars => SlotInv'
<1>1. ASSUME SlotInv, NEW r \in Requests, NEW w \in Windows, NEW s \in SendTimes(w),
             NEW ask \in 0..RequestedCeiling[r], Issue(r, w, s, ask)
      PROVE  SlotExclusive'
  <2>1. TypeInv
    BY <1>1 DEF SlotInv
  <2>2. \A q \in Active(CustomerOf[r]) : q \in Requests /\ grants[q].window # w
    BY <1>1 DEF Issue, HasActiveClaim, Active
  <2> QED
    BY <1>1, <2>1, <2>2, IssueAdds DEF SlotInv, SlotExclusive, Active
<1>2. ASSUME SlotInv, NEW r \in Requests, Lifecycle(r)
      PROVE  SlotExclusive'
  <2>1. TypeInv
    BY <1>2 DEF SlotInv
  <2> QED
    BY <1>2, <2>1, LifecycleShrinks DEF SlotInv, SlotExclusive, Active
<1>3. ASSUME SlotInv, Next PROVE SlotInv'
  BY <1>1, <1>2, <1>3, NextIsStep, StepKinds DEF SlotInv
<1>4. ASSUME SlotInv, UNCHANGED vars PROVE SlotInv'
  BY <1>4, TypeStep DEF SlotInv, SlotExclusive, Active, vars
<1> QED
  BY <1>3, <1>4

\* Two live grants of a customer are never for the same day.
THEOREM SlotCorrect == Spec => []SlotExclusive
<1>1. Init => SlotInv
  BY TypeInit DEF Init, SlotInv, SlotExclusive, Active, NoGrant, CapacityConsuming
<1>2. SlotInv => SlotExclusive
  BY DEF SlotInv
<1> QED
  BY <1>1, <1>2, SlotStep, PTL DEF Spec

\* A cap that issue_grant checks as of the decision instant of the window bounds
\* the contacts of every interval that ends at a contact.  The new contact is
\* sent at or after the decision instant, so every such interval it falls into
\* holds only contacts that issue_grant counted, those promised for later days
\* included.
LEMMA IssueKeepsCap ==
  ASSUME TypeInv, NEW cap \in Nat, NEW length \in Nat, RollingCap(cap, length),
         NEW r \in Requests, NEW w \in Windows, NEW s \in SendTimes(w),
         NEW ask \in 0..RequestedCeiling[r], Issue(r, w, s, ask),
         Cardinality(ContactsAfter(CustomerOf[r], WindowStart(w) - length)) < cap
  PROVE  RollingCap(cap, length)'
<1> DEFINE Within(c, t) ==
             {q \in Active(c) : t - length < grants[q].sendAfter /\ grants[q].sendAfter <= t}
           WithinNext(c, t) ==
             {q \in Active(c)' : t - length < grants'[q].sendAfter /\ grants'[q].sendAfter <= t}
<1>1. \A q \in Requests : grants[q].sendAfter \in Nat /\ grants'[q].sendAfter \in Nat
  BY IssueType DEF TypeInv, TypeOK, Grant
<1>2. SUFFICES ASSUME NEW c \in Customers, NEW g \in Active(c)'
               PROVE  Cardinality(WithinNext(c, grants'[g].sendAfter)) <= cap
  BY DEF RollingCap, ContactsWithin
<1> DEFINE t == grants'[g].sendAfter
<1>3. g \in Requests /\ t \in Nat
  BY <1>1 DEF Active
<1>4. CASE WithinNext(c, t) \subseteq Active(c) /\ g \in Active(c) /\ g # r
  <2>1. t = grants[g].sendAfter
    BY <1>3, <1>4, IssueAdds
  <2>2. r \notin Active(c)
    BY IssueAdds DEF Active
  <2>3. WithinNext(c, t) = Within(c, t)
    BY <1>4, <2>2, IssueAdds DEF Active
  <2> QED
    BY <1>4, <2>1, <2>3 DEF RollingCap, ContactsWithin
<1>5. CASE ~(WithinNext(c, t) \subseteq Active(c) /\ g \in Active(c) /\ g # r)
  <2> DEFINE counted == ContactsAfter(CustomerOf[r], WindowStart(w) - length)
  <2>1. c = CustomerOf[r]
    <3> SUFFICES ASSUME c # CustomerOf[r] PROVE FALSE
      OBVIOUS
    <3>1. Active(c)' = Active(c)
      BY IssueAdds
    <3>2. WithinNext(c, t) \subseteq Active(c) /\ g \in Active(c)
      BY <3>1
    <3>3. g # r
      BY <3>2 DEF Active
    <3> QED
      BY <1>5, <3>2, <3>3
  <2>2. t >= s
    <3>1. r \in WithinNext(c, t) \/ g = r
      BY <1>5, <2>1, IssueAdds
    <3> QED
      BY <1>1, <1>3, <3>1, IssueAdds
  <2>3. WithinNext(c, t) \subseteq counted \cup {r}
    <3>1. \A q \in Active(c) : q \in Requests /\ q # r
      BY <2>1, IssueAdds DEF Active
    <3>2. WindowStart(w) \in Nat /\ s >= WindowStart(w) /\ s \in Nat
      BY SendTimesFacts
    <3> QED
      BY <1>1, <1>3, <2>1, <2>2, <3>1, <3>2, IssueAdds DEF ContactsAfter
  <2>4. counted \subseteq Active(c)
    BY <2>1 DEF ContactsAfter
  <2>5. IsFiniteSet(counted)
    BY <2>4, ActiveFinite, FS_Subset
  <2>6. IsFiniteSet(counted \cup {r}) /\ Cardinality(counted \cup {r}) <= Cardinality(counted) + 1
    <3> HIDE DEF counted
    <3>1. Cardinality(counted) \in Nat
      BY <2>5, FS_CardinalityType
    <3>2. /\ IsFiniteSet(counted \cup {r})
          /\ Cardinality(counted \cup {r}) = IF r \in counted THEN Cardinality(counted)
                                             ELSE Cardinality(counted) + 1
      BY <2>5, FS_AddElement
    <3> QED
      BY <3>1, <3>2
  <2>7. /\ Cardinality(WithinNext(c, t)) <= Cardinality(counted \cup {r})
        /\ Cardinality(WithinNext(c, t)) \in Nat
    BY <2>3, <2>6, FS_Subset, FS_CardinalityType
  <2>8. Cardinality(counted) \in Nat /\ Cardinality(counted \cup {r}) \in Nat
    BY <2>5, <2>6, FS_CardinalityType
  <2>9. Cardinality(counted) < cap
    OBVIOUS
  <2> HIDE DEF counted, WithinNext, t
  <2>10. Cardinality(WithinNext(c, t)) <= cap
    BY <2>6, <2>7, <2>8, <2>9
  <2> QED
    BY <2>10 DEF WithinNext, t
<1> QED
  BY <1>4, <1>5

\* A lifecycle call only takes contacts away.
LEMMA LifecycleKeepsCap ==
  ASSUME TypeInv, NEW cap \in Nat, NEW length \in Nat, RollingCap(cap, length),
         NEW r \in Requests, Lifecycle(r)
  PROVE  RollingCap(cap, length)'
<1> DEFINE Within(c, t) ==
             {q \in Active(c) : t - length < grants[q].sendAfter /\ grants[q].sendAfter <= t}
           WithinNext(c, t) ==
             {q \in Active(c)' : t - length < grants'[q].sendAfter /\ grants'[q].sendAfter <= t}
<1>1. SUFFICES ASSUME NEW c \in Customers, NEW g \in Active(c)'
               PROVE  Cardinality(WithinNext(c, grants'[g].sendAfter)) <= cap
  BY DEF RollingCap, ContactsWithin
<1> DEFINE t == grants[g].sendAfter
<1>2. g \in Active(c) /\ g \in Requests /\ grants'[g].sendAfter = t
  BY LifecycleShrinks DEF Active
<1>3. WithinNext(c, t) \subseteq Within(c, t)
  BY LifecycleShrinks DEF Active
<1>4. Within(c, t) \subseteq Active(c)
  OBVIOUS
<1>5. Cardinality(Within(c, t)) <= cap
  BY <1>2 DEF RollingCap, ContactsWithin
<1>6. IsFiniteSet(Within(c, t)) /\ IsFiniteSet(WithinNext(c, t))
  BY <1>3, <1>4, ActiveFinite, FS_Subset
<1>7. /\ Cardinality(WithinNext(c, t)) <= Cardinality(Within(c, t))
      /\ Cardinality(WithinNext(c, t)) \in Nat /\ Cardinality(Within(c, t)) \in Nat
  BY <1>3, <1>6, FS_Subset, FS_CardinalityType
<1> HIDE DEF Within, WithinNext, t
<1>8. Cardinality(WithinNext(c, t)) <= cap
  BY <1>5, <1>7
<1> QED
  BY <1>2, <1>8

WeekLength == WeekDays * DayLen

LEMMA LengthFacts == DayLen \in Nat /\ WeekLength \in Nat
BY CalendarAssumption DEF WeekLength

CapInv == TypeInv /\ RollingCap24H /\ RollingCap7D

LEMMA CapStep == CapInv /\ [Next]_vars => CapInv'
<1>1. ASSUME CapInv, NEW r \in Requests, NEW w \in Windows, NEW s \in SendTimes(w),
             NEW ask \in 0..RequestedCeiling[r], Issue(r, w, s, ask)
      PROVE  RollingCap(Cap24H, DayLen)' /\ RollingCap(Cap7D, WeekLength)'
  <2>1. /\ Cardinality(ContactsAfter(CustomerOf[r], WindowStart(w) - DayLen)) < Cap24H
        /\ Cardinality(ContactsAfter(CustomerOf[r], WindowStart(w) - WeekLength)) < Cap7D
    BY <1>1 DEF Issue, BelowCaps, WeekLength
  <2>2. TypeInv /\ RollingCap(Cap24H, DayLen) /\ RollingCap(Cap7D, WeekLength)
    BY <1>1 DEF CapInv, RollingCap24H, RollingCap7D, WeekLength
  <2> QED
    BY <1>1, <2>1, <2>2, IssueKeepsCap, LengthFacts, LimitsAssumption
<1>2. ASSUME CapInv, NEW r \in Requests, Lifecycle(r)
      PROVE  RollingCap(Cap24H, DayLen)' /\ RollingCap(Cap7D, WeekLength)'
  <2>1. TypeInv /\ RollingCap(Cap24H, DayLen) /\ RollingCap(Cap7D, WeekLength)
    BY <1>2 DEF CapInv, RollingCap24H, RollingCap7D, WeekLength
  <2> QED
    BY <1>2, <2>1, LifecycleKeepsCap, LengthFacts, LimitsAssumption
<1>3. ASSUME CapInv, Next PROVE CapInv'
  <2>1. RollingCap(Cap24H, DayLen)' /\ RollingCap(Cap7D, WeekLength)'
    BY <1>1, <1>2, <1>3, NextIsStep, StepKinds DEF CapInv
  <2> QED
    BY <1>3, <2>1, TypeStep DEF CapInv, RollingCap24H, RollingCap7D, WeekLength
<1>4. ASSUME CapInv, UNCHANGED vars PROVE CapInv'
  BY <1>4, TypeStep DEF CapInv, RollingCap24H, RollingCap7D, RollingCap,
     ContactsWithin, Active, vars
<1> QED
  BY <1>3, <1>4

LEMMA CapInit == Init => CapInv
<1> SUFFICES ASSUME Init PROVE CapInv
  OBVIOUS
<1>1. \A c \in Customers : Active(c) = {}
  BY DEF Init, Active, NoGrant, CapacityConsuming
<1> QED
  BY <1>1, TypeInit DEF CapInv, RollingCap24H, RollingCap7D, RollingCap

\* No customer is ever promised more than Cap24H contacts in any 24 hours.
THEOREM Cap24HCorrect == Spec => []RollingCap24H
<1>1. CapInv => RollingCap24H
  BY DEF CapInv
<1> QED
  BY <1>1, CapInit, CapStep, PTL DEF Spec

\* Nor more than Cap7D in any 7 days.
THEOREM Cap7DCorrect == Spec => []RollingCap7D
<1>1. CapInv => RollingCap7D
  BY DEF CapInv
<1> QED
  BY <1>1, CapInit, CapStep, PTL DEF Spec

-----------------------------------------------------------------------------
(* Money. *)

\* The customer's pool of r's window is the account of r alone.
Account(r) ==
  LET pool == customer[CustomerOf[r]][grants[r].window]
  IN  IF grants[r].state = "CONFIRMED"
      THEN pool.reserved = 0 /\ pool.spent \in 0..grants[r].ceiling
      ELSE pool = [reserved |-> grants[r].ceiling, spent |-> 0]

\* An unheld slot has an untouched pool.
Unheld == \A c \in Customers, w \in Windows :
            ~HasActiveClaim(c, w) => customer[c][w] = FreshPool

LEMMA ExactIsAccounts ==
  ASSUME TypeInv
  PROVE  CustomerPoolExact <=>
           Unheld /\ \A r \in Requests : grants[r].state \in CapacityConsuming => Account(r)
<1>1. \A c \in Customers, w \in Windows :
        (~HasActiveClaim(c, w)) <=> {r \in Active(c) : grants[r].window = w} = {}
  BY DEF HasActiveClaim
<1>2. \A r \in Requests : grants[r].state \in CapacityConsuming =>
        /\ CustomerOf[r] \in Customers /\ grants[r].window \in Windows
        /\ r \in Active(CustomerOf[r])
  BY RequestsAssumption DEF TypeInv, GrantsInBand, InItsBand, Active, CapacityConsuming
<1> QED
  BY <1>1, <1>2 DEF CustomerPoolExact, Unheld, Account, Active

\* No live grant's ceiling exceeds its customer's budget.
CeilingsFit == \A r \in Requests :
  grants[r].state \in CapacityConsuming => grants[r].ceiling <= CustomerBudget[CustomerOf[r]]

MerchantCovered == \A w \in Windows : Remaining(MerchantBudget, merchant[w]) >= 0

MoneyInv == /\ SlotInv
            /\ Unheld
            /\ \A r \in Requests : grants[r].state \in CapacityConsuming => Account(r)
            /\ CeilingsFit
            /\ MerchantCovered

LEMMA IssueMoney ==
  ASSUME MoneyInv, NEW r \in Requests, NEW w \in Windows, NEW s \in SendTimes(w),
         NEW ask \in 0..RequestedCeiling[r], Issue(r, w, s, ask)
  PROVE  MoneyInv'
<1> DEFINE c == CustomerOf[r]
           mLeft == Remaining(MerchantBudget, merchant[w])
           cLeft == Remaining(CustomerBudget[c], customer[c][w])
           ceiling == DowngradeToFit(ask, mLeft, cLeft)
<1>1. TypeInv /\ SlotInv
  BY DEF MoneyInv, SlotInv
<1>2. c \in Customers /\ ask \in Nat
  BY RequestsAssumption
<1>3. customer[c][w] = FreshPool
  BY <1>2 DEF Issue, MoneyInv, Unheld
<1>4. mLeft \in Int /\ cLeft = CustomerBudget[c] /\ CustomerBudget[c] \in Nat
  BY <1>1, <1>2, <1>3, RemainingType, LimitsAssumption
     DEF TypeInv, TypeOK, Remaining, FreshPool
<1>5. mLeft > 0 /\ cLeft > 0
  BY DEF Issue
<1>6. ceiling \in Nat /\ ceiling <= mLeft /\ ceiling <= CustomerBudget[c]
  BY <1>2, <1>4, <1>5, DowngradeFacts
<1>7. /\ grants'[r].ceiling = ceiling
      /\ merchant' = [merchant EXCEPT ![w].reserved = @ + ceiling]
      /\ customer' = [customer EXCEPT ![c][w].reserved = @ + ceiling]
  BY <1>1 DEF Issue, TypeInv, TypeOK
<1> HIDE DEF ceiling
<1>8. SlotInv'
  BY <1>1, SlotStep DEF Next
<1>9. /\ customer'[c][w] = [reserved |-> ceiling, spent |-> 0]
      /\ \A d \in Customers, x \in Windows :
           (d # c \/ x # w) => customer'[d][x] = customer[d][x]
  <2> DEFINE p == [customer[c][w] EXCEPT !.reserved = @ + ceiling]
  <2>1. customer' = [customer EXCEPT ![c] = [customer[c] EXCEPT ![w] = p]]
    BY <1>1, <1>2, <1>7 DEF TypeInv, TypeOK
  <2>2. p = [reserved |-> ceiling, spent |-> 0]
    BY <1>3, <1>6 DEF FreshPool
  <2> HIDE DEF p
  <2> QED
    BY <1>1, <1>2, <2>1, <2>2 DEF TypeInv, TypeOK
<1>10. \A q \in Requests \ {r} :
         /\ grants'[q] = grants[q]
         /\ grants[q].state \in CapacityConsuming =>
              CustomerOf[q] # c \/ grants[q].window # w
  BY <1>1, IssueAdds DEF Issue, HasActiveClaim, Active
<1>11. Unheld'
  <2>1. \A d \in Customers, x \in Windows :
          HasActiveClaim(d, x)' <=> HasActiveClaim(d, x) \/ (d = c /\ x = w)
    BY <1>1, <1>2, <1>10, IssueAdds DEF HasActiveClaim, Active
  <2> QED
    BY <1>9, <2>1 DEF MoneyInv, Unheld
<1>12. (\A q \in Requests : grants[q].state \in CapacityConsuming => Account(q))'
  <2>1. Account(r)'
    BY <1>1, <1>7, <1>9, IssueAdds DEF Account
  <2>2. ASSUME NEW q \in Requests \ {r}, grants'[q].state \in CapacityConsuming
        PROVE  Account(q)'
    <3>1. CustomerOf[q] \in Customers /\ grants[q].window \in Windows
      BY <1>1, <1>10, <2>2, RequestsAssumption
         DEF TypeInv, GrantsInBand, InItsBand, CapacityConsuming
    <3> QED
      BY <1>9, <1>10, <2>2, <3>1 DEF Account, MoneyInv
  <2> QED
    BY <2>1, <2>2
<1>13. CeilingsFit'
  BY <1>6, <1>7, <1>10 DEF CeilingsFit, MoneyInv
<1>14. MerchantCovered'
  <2>1. merchant'[w] = [merchant[w] EXCEPT !.reserved = @ + ceiling] /\ merchant[w] \in Pool
    BY <1>1, <1>7 DEF TypeInv, TypeOK
  <2>2. Remaining(MerchantBudget, merchant'[w]) >= 0
    BY <1>6, <2>1, LimitsAssumption DEF Remaining, Pool
  <2>3. \A x \in Windows \ {w} : merchant'[x] = merchant[x]
    BY <1>1, <1>7 DEF TypeInv, TypeOK
  <2> QED
    BY <2>2, <2>3 DEF MoneyInv, MerchantCovered
<1> QED
  BY <1>8, <1>11, <1>12, <1>13, <1>14 DEF MoneyInv

LEMMA LifecycleMoney ==
  ASSUME MoneyInv, NEW r \in Requests, Lifecycle(r), SlotInv'
  PROVE  MoneyInv'
<1> DEFINE c == CustomerOf[r]
           w == grants[r].window
           ceiling == grants[r].ceiling
<1>1. TypeInv /\ SlotExclusive
  BY DEF MoneyInv, SlotInv
<1>2. c \in Customers /\ w \in Windows /\ ceiling \in Nat
  BY RequestsAssumption DEF Lifecycle
<1>3. /\ grants[r].state \in Reserving
      /\ grants'[r].state \in {"EXECUTING"} \cup Terminal
      /\ grants'[r].window = w /\ grants'[r].ceiling = ceiling
      /\ \A q \in Requests \ {r} : grants'[q] = grants[q]
  BY DEF Lifecycle
<1>4. customer[c][w] = [reserved |-> ceiling, spent |-> 0]
  BY <1>3 DEF MoneyInv, Account, Reserving, CapacityConsuming
<1>5. \A q \in Requests \ {r} : grants[q].state \in CapacityConsuming =>
        CustomerOf[q] # c \/ grants[q].window # w
  <2>1. c \in Customers /\ r \in Active(c)
    BY <1>2, <1>3 DEF Active, Reserving, CapacityConsuming
  <2> QED
    BY <1>1, <2>1 DEF SlotExclusive, Active
<1>6. CeilingsFit'
  BY <1>3 DEF MoneyInv, CeilingsFit, Reserving, CapacityConsuming
<1>7. ASSUME NEW q \in Requests \ {r}, grants[q].state \in CapacityConsuming
      PROVE  CustomerOf[q] \in Customers /\ grants[q].window \in Windows
  BY <1>1, <1>7, RequestsAssumption DEF TypeInv, GrantsInBand, InItsBand, CapacityConsuming
<1>8. CASE grants'[r].state = "EXECUTING"
  <2>1. merchant' = merchant /\ customer' = customer
    BY <1>8 DEF Lifecycle
  <2>2. \A d \in Customers, x \in Windows : HasActiveClaim(d, x)' <=> HasActiveClaim(d, x)
    BY <1>3, <1>8 DEF HasActiveClaim, Active, Reserving, CapacityConsuming
  <2>3. Unheld'
    BY <2>1, <2>2 DEF MoneyInv, Unheld
  <2>4. (\A q \in Requests : grants[q].state \in CapacityConsuming => Account(q))'
    BY <1>3, <1>4, <1>8, <2>1 DEF MoneyInv, Account
  <2>5. MerchantCovered'
    BY <2>1 DEF MoneyInv, MerchantCovered
  <2> QED
    BY <1>6, <2>3, <2>4, <2>5 DEF MoneyInv
<1>9. CASE grants'[r].state # "EXECUTING"
  <2>1. PICK spend \in 0..ceiling : /\ grants'[r].state # "CONFIRMED" => spend = 0
                                    /\ Settle(r, spend)
    BY <1>9 DEF Lifecycle
  <2>2. spend \in Nat /\ spend <= ceiling
    BY <1>2, <2>1
  <2>3. /\ merchant'[w] = [reserved |-> merchant[w].reserved - ceiling,
                           spent |-> merchant[w].spent + spend]
        /\ customer'[c][w] = [reserved |-> customer[c][w].reserved - ceiling,
                              spent |-> customer[c][w].spent + spend]
        /\ \A x \in Windows \ {w} : merchant'[x] = merchant[x]
        /\ \A d \in Customers, x \in Windows :
             (d # c \/ x # w) => customer'[d][x] = customer[d][x]
    BY <1>1, <1>2, <2>1, <2>2, SettleFacts
  <2>4. customer'[c][w] = [reserved |-> 0, spent |-> spend]
    BY <1>2, <1>4, <2>2, <2>3
  <2>5. \A d \in Customers, x \in Windows :
          HasActiveClaim(d, x)' <=>
            IF d = c /\ x = w THEN grants'[r].state = "CONFIRMED" ELSE HasActiveClaim(d, x)
    BY <1>3, <1>5, <1>9 DEF HasActiveClaim, Active, CapacityConsuming, Terminal
  <2>6. Unheld'
    BY <1>2, <2>1, <2>3, <2>4, <2>5 DEF MoneyInv, Unheld, FreshPool
  <2>7. (\A q \in Requests : grants[q].state \in CapacityConsuming => Account(q))'
    <3>1. grants'[r].state = "CONFIRMED" => Account(r)'
      BY <1>2, <1>3, <2>1, <2>4 DEF Account
    <3>2. grants'[r].state \in CapacityConsuming => grants'[r].state = "CONFIRMED"
      BY <1>3, <1>9 DEF CapacityConsuming, Terminal
    <3>3. ASSUME NEW q \in Requests \ {r}, grants'[q].state \in CapacityConsuming
          PROVE  Account(q)'
      BY <1>3, <1>5, <1>7, <2>3, <3>3 DEF MoneyInv, Account
    <3> QED
      BY <3>1, <3>2, <3>3
  <2>8. MerchantCovered'
    <3>1. merchant[w] \in Pool /\ Remaining(MerchantBudget, merchant[w]) >= 0
      BY <1>1, <1>2 DEF TypeInv, TypeOK, MoneyInv, MerchantCovered
    <3>2. Remaining(MerchantBudget, merchant'[w]) >= 0
      BY <1>2, <2>2, <2>3, <3>1, LimitsAssumption DEF Remaining, Pool
    <3> QED
      BY <2>3, <3>2 DEF MoneyInv, MerchantCovered
  <2> QED
    BY <1>6, <2>6, <2>7, <2>8 DEF MoneyInv
<1> QED
  BY <1>8, <1>9

LEMMA MoneyStep == MoneyInv /\ [Next]_vars => MoneyInv'
<1>1. ASSUME MoneyInv, Next PROVE MoneyInv'
  <2>1. SlotInv /\ TypeInv /\ SlotInv'
    BY <1>1, SlotStep DEF MoneyInv, SlotInv
  <2> QED
    BY <1>1, <2>1, NextIsStep, StepKinds, IssueMoney, LifecycleMoney
<1>2. ASSUME MoneyInv, UNCHANGED vars PROVE MoneyInv'
  <2>1. SlotInv'
    BY <1>2, SlotStep DEF MoneyInv
  <2> QED
    BY <1>2, <2>1 DEF MoneyInv, Unheld, Account, CeilingsFit, MerchantCovered,
       HasActiveClaim, Active, vars
<1> QED
  BY <1>1, <1>2

LEMMA MoneyInit == Init => MoneyInv
<1> SUFFICES ASSUME Init PROVE MoneyInv
  OBVIOUS
<1>1. \A r \in Requests : grants[r].state \notin CapacityConsuming
  BY DEF Init, NoGrant, CapacityConsuming
<1>2. SlotInv
  BY <1>1, TypeInit DEF SlotInv, SlotExclusive, Active
<1>3. Unheld
  BY DEF Init, Unheld
<1>4. MerchantCovered
  BY LimitsAssumption DEF Init, MerchantCovered, Remaining, FreshPool
<1> QED
  BY <1>1, <1>2, <1>3, <1>4 DEF MoneyInv, CeilingsFit

\* A customer's pool of a window is the account of the one live grant there.
THEOREM PoolsCorrect == Spec => []CustomerPoolExact
<1>1. MoneyInv => CustomerPoolExact
  BY ExactIsAccounts DEF MoneyInv, SlotInv
<1> QED
  BY <1>1, MoneyInit, MoneyStep, PTL DEF Spec

\* Accounts and covered reservations leave no pool overdrawn.
LEMMA MoneyCovers == ASSUME MoneyInv PROVE NotOverdrawn
<1>1. ASSUME NEW c \in Customers, NEW w \in Windows
      PROVE  /\ Remaining(CustomerBudget[c], customer[c][w]) >= 0
             /\ customer[c][w].reserved >= 0 /\ customer[c][w].spent >= 0
  <2>1. CustomerBudget[c] \in Nat
    BY LimitsAssumption
  <2>2. CASE ~HasActiveClaim(c, w)
    BY <2>1, <2>2 DEF MoneyInv, Unheld, FreshPool, Remaining
  <2>3. CASE HasActiveClaim(c, w)
    <3>1. PICK r \in Requests : /\ CustomerOf[r] = c /\ grants[r].window = w
                                /\ grants[r].state \in CapacityConsuming
      BY <2>3 DEF HasActiveClaim, Active
    <3>2. grants[r].ceiling \in Nat
      BY DEF MoneyInv, SlotInv, TypeInv, TypeOK, Grant
    <3>3. Account(r) /\ grants[r].ceiling <= CustomerBudget[c]
      BY <3>1 DEF MoneyInv, CeilingsFit
    <3> QED
      BY <2>1, <3>1, <3>2, <3>3 DEF Account, Remaining
  <2> QED
    BY <2>2, <2>3
<1> QED
  BY <1>1 DEF MoneyInv, MerchantCovered, NotOverdrawn

\* Neither the merchant's nor a customer's pool is ever overdrawn.
THEOREM NeverOverdrawn == Spec => []NotOverdrawn
<1>1. MoneyInv => NotOverdrawn
  BY MoneyCovers
<1> QED
  BY <1>1, MoneyInit, MoneyStep, PTL DEF Spec

\* With one contact per 24 hours the customer's pool is never what limits a grant.
THEOREM NeverBinds == Spec => []CustomerPoolNeverBinds
<1>1. ASSUME MoneyInv PROVE CustomerPoolNeverBinds
  <2> SUFFICES ASSUME Cap24H = 1, NEW c \in Customers, NEW w \in Windows,
                      Cardinality(ContactsAfter(c, WindowStart(w) - DayLen)) < Cap24H
               PROVE  customer[c][w] = FreshPool
    BY DEF CustomerPoolNeverBinds
  <2> DEFINE late == ContactsAfter(c, WindowStart(w) - DayLen)
  <2>1. IsFiniteSet(late)
    <3>1. late \subseteq Active(c)
      BY DEF ContactsAfter
    <3> QED
      BY <3>1, ActiveFinite, FS_Subset
  <2>2. late = {}
    <3>1. Cardinality(late) \in Nat /\ (Cardinality(late) = 0 <=> late = {})
      BY <2>1, FS_CardinalityType, FS_EmptySet
    <3> QED
      BY <3>1
  <2>3. ~HasActiveClaim(c, w)
    <3> SUFFICES ASSUME NEW r \in Active(c), grants[r].window = w
                 PROVE  FALSE
      BY DEF HasActiveClaim
    <3>1. r \in Requests /\ grants[r].state \in CapacityConsuming
      BY DEF Active
    <3>2. grants[r].sendAfter \in SendTimes(w)
      BY <1>1, <3>1 DEF MoneyInv, SlotInv, TypeInv, GrantsInBand, InItsBand, CapacityConsuming
    <3>3. grants[r].sendAfter > WindowStart(w) - DayLen
      BY <3>2, SendTimesFacts, CalendarAssumption
    <3> QED
      BY <2>2, <3>3 DEF ContactsAfter
  <2> QED
    BY <1>1, <2>3 DEF MoneyInv, Unheld
<1> QED
  BY <1>1, MoneyInit, MoneyStep, PTL DEF Spec

\* What was confirmed, rolled back or expired stays so, terms included.
THEOREM SettledStays == Spec => SettledForGood
<1> DEFINE Kept == \A r \in Requests : grants[r].state \in Terminal => grants'[r] = grants[r]
<1>1. TypeInv /\ [Next]_vars => [Kept]_vars
  <2> SUFFICES ASSUME TypeInv, Next PROVE Kept
    BY DEF vars
  <2>1. PICK r \in Requests : Step(r)
    BY NextIsStep
  <2>2. \A q \in Requests \ {r} : grants'[q] = grants[q]
    BY <2>1, StepKinds, IssueAdds DEF Lifecycle
  <2>3. grants[r].state \notin Terminal
    BY <2>1, StepKinds, IssueAdds DEF Lifecycle, Reserving, Terminal
  <2> QED
    BY <2>2, <2>3
<1> QED
  BY <1>1, TypeInit, TypeStep, PTL DEF Spec, SettledForGood

-----------------------------------------------------------------------------
(* Sums over finite sets.  The library has no theorems about its folds, and *)
(* its induction theorems cannot be instantiated; what is needed here is    *)
(* proved by taking a least counterexample.                                 *)

\* A nonempty set of naturals has a least element.
LEMMA LeastNatural ==
  ASSUME NEW S \in SUBSET Nat, S # {}
  PROVE  \E m \in S : \A n \in S : m <= n
<1>1. PICK m \in S : \A n \in S : ~(<<n, m>> \in OpToRel(<, Nat))
  BY WFMin, NatLessThanWellFounded
<1>2. \A n \in S : ~(n < m)
  BY <1>1 DEF OpToRel
<1> QED
  BY <1>2

Pick(s) == CHOOSE x \in s : TRUE

\* g sums F over every subset of T, one element at a time.
SumOver(g, F, T) ==
  g = [s \in SUBSET T |-> IF s = {} THEN 0 ELSE F[Pick(s)] + g[s \ {Pick(s)}]]

Total(F, T) == (CHOOSE g : SumOver(g, F, T))[T]

\* H is F with d more at r.
Raised(F, H, T, r, d) == \A x \in T : H[x] = IF x = r THEN F[x] + d ELSE F[x]

\* What is left of a finite set without the element picked is smaller by one.
LEMMA PickFacts ==
  ASSUME NEW s, s # {}, IsFiniteSet(s)
  PROVE  /\ Pick(s) \in s
         /\ IsFiniteSet(s \ {Pick(s)})
         /\ Cardinality(s) \in Nat \ {0}
         /\ Cardinality(s \ {Pick(s)}) = Cardinality(s) - 1
<1>1. Pick(s) \in s
  BY DEF Pick
<1> QED
  BY <1>1, FS_RemoveElement, FS_CardinalityType, FS_EmptySet

\* The recursive function of a sum exists.
LEMMA SumExists ==
  ASSUME NEW T, IsFiniteSet(T), NEW F \in [T -> Int]
  PROVE  \E g : SumOver(g, F, T)
<1> DEFINE Small(n) == {s \in SUBSET T : Cardinality(s) <= n}
           Sums(g, n) == g = [s \in Small(n) |->
                               IF s = {} THEN 0 ELSE F[Pick(s)] + g[s \ {Pick(s)}]]
           Bad == {n \in Nat : ~\E g : Sums(g, n)}
<1>1. \A s \in SUBSET T : /\ IsFiniteSet(s) /\ Cardinality(s) \in Nat
                          /\ s # {} => /\ Cardinality(s) # 0
                                       /\ s \ {Pick(s)} \in SUBSET T
                                       /\ Cardinality(s \ {Pick(s)}) = Cardinality(s) - 1
  BY PickFacts, FS_Subset, FS_CardinalityType
<1>2. Bad = {}
  <2> SUFFICES ASSUME Bad # {} PROVE FALSE
    OBVIOUS
  <2>1. PICK m \in Bad : \A n \in Bad : m <= n
    BY LeastNatural
  <2>2. /\ m \in Nat /\ ~\E g : Sums(g, m)
        /\ m # 0 => \E g : Sums(g, m - 1)
    <3> HIDE DEF Sums
    <3> QED
      BY <2>1
  <2> HIDE DEF Bad, Sums
  <2>3. CASE m = 0
    <3>1. ASSUME NEW s \in SUBSET T, Cardinality(s) <= 0 PROVE s = {}
      <4>1. Cardinality(s) \in Nat /\ (s # {} => Cardinality(s) # 0)
        BY <1>1
      <4> QED
        BY <3>1, <4>1
    <3> USE DEF Sums
    <3>2. Sums([s \in Small(0) |-> 0], 0)
      <4>1. \A s \in Small(0) : s = {}
        BY <3>1
      <4> HIDE DEF Small
      <4> QED
        BY <4>1
    <3> HIDE DEF Sums
    <3> QED
      BY <2>2, <2>3, <3>2
  <2>4. CASE m # 0
    <3>2. PICK g : Sums(g, m - 1)
      BY <2>2, <2>4
    <3> DEFINE h == [s \in Small(m) |->
                       IF s = {} THEN 0 ELSE F[Pick(s)] + g[s \ {Pick(s)}]]
    <3>3. \A s \in Small(m) : s # {} => s \ {Pick(s)} \in Small(m - 1)
      BY <1>1, <2>2, <2>4
    <3>4. Small(m - 1) \subseteq Small(m)
      <4>1. \A s \in SUBSET T : Cardinality(s) <= m - 1 => Cardinality(s) <= m
        <5>1. \A k \in Nat : k <= m - 1 => k <= m
          BY <2>2
        <5> QED
          BY <1>1, <5>1
      <4> QED
        BY <4>1
    <3> HIDE DEF Small
    <3> USE DEF Sums
    <3>5. \A s \in Small(m - 1) : h[s] = g[s]
      BY <3>2, <3>4
    <3>6. h = [s \in Small(m) |->
                       IF s = {} THEN 0 ELSE F[Pick(s)] + h[s \ {Pick(s)}]]
      BY <3>3, <3>5
    <3> HIDE DEF h
    <3>7. \E k : Sums(k, m)
      BY <3>6
    <3> HIDE DEF Sums
    <3> QED
      BY <2>2, <3>7
  <2> QED
    BY <2>3, <2>4
<1>3. Cardinality(T) \in Nat
  BY FS_CardinalityType
<1>4. PICK g : Sums(g, Cardinality(T))
  BY <1>2, <1>3
<1>5. Small(Cardinality(T)) = SUBSET T
  BY FS_Subset
<1> QED
  BY <1>4, <1>5 DEF SumOver

\* Raising one summand by d raises the sum by d; with d = 0, any two sums agree.
LEMMA SumsDiffer ==
  ASSUME NEW T, IsFiniteSet(T), NEW F \in [T -> Int], NEW H \in [T -> Int],
         NEW r, NEW d \in Int, Raised(F, H, T, r, d),
         NEW g, SumOver(g, F, T), NEW h, SumOver(h, H, T)
  PROVE  g[T] \in Int /\ h[T] = IF r \in T THEN g[T] + d ELSE g[T]
<1> DEFINE Agree(s) == g[s] \in Int /\ h[s] = IF r \in s THEN g[s] + d ELSE g[s]
           Bad == {n \in Nat : \E s \in SUBSET T : Cardinality(s) = n /\ ~Agree(s)}
<1>1. \A s \in SUBSET T : /\ IsFiniteSet(s) /\ Cardinality(s) \in Nat
                          /\ s # {} => /\ Cardinality(s) # 0 /\ Pick(s) \in s
                                       /\ s \ {Pick(s)} \in SUBSET T
                                       /\ Cardinality(s \ {Pick(s)}) = Cardinality(s) - 1
  BY PickFacts, FS_Subset, FS_CardinalityType
<1>2. \A s \in SUBSET T :
        /\ g[s] = IF s = {} THEN 0 ELSE F[Pick(s)] + g[s \ {Pick(s)}]
        /\ h[s] = IF s = {} THEN 0 ELSE H[Pick(s)] + h[s \ {Pick(s)}]
  <2>1. g = [s \in SUBSET T |-> IF s = {} THEN 0 ELSE F[Pick(s)] + g[s \ {Pick(s)}]]
    BY DEF SumOver
  <2>2. h = [s \in SUBSET T |-> IF s = {} THEN 0 ELSE H[Pick(s)] + h[s \ {Pick(s)}]]
    BY DEF SumOver
  <2>3. ASSUME NEW s \in SUBSET T
        PROVE g[s] = IF s = {} THEN 0 ELSE F[Pick(s)] + g[s \ {Pick(s)}]
    BY <2>1
  <2>4. ASSUME NEW s \in SUBSET T
        PROVE h[s] = IF s = {} THEN 0 ELSE H[Pick(s)] + h[s \ {Pick(s)}]
    BY <2>2
  <2> QED
    BY <2>3, <2>4
<1>3. Bad = {}
  <2> SUFFICES ASSUME Bad # {} PROVE FALSE
    OBVIOUS
  <2>1. PICK m \in Bad : \A n \in Bad : m <= n
    BY LeastNatural
  <2>2. PICK s \in SUBSET T : Cardinality(s) = m /\ ~Agree(s)
    BY <2>1
  <2>3. CASE s = {}
    <3>1. g[s] = 0 /\ h[s] = 0 /\ r \notin s
      BY <1>2, <2>3
    <3> QED
      BY <2>2, <3>1
  <2>4. CASE s # {}
    <3> DEFINE x == Pick(s)
               u == s \ {x}
    <3>1. x \in s /\ u \in SUBSET T /\ Cardinality(u) = m - 1 /\ m \in Nat \ {0}
      BY <1>1, <2>2, <2>4
    <3>2. m - 1 \notin Bad
      BY <2>1, <3>1
    <3>3. Agree(u)
      BY <3>1, <3>2
    <3>4. g[s] = F[x] + g[u] /\ h[s] = H[x] + h[u]
      BY <1>2, <2>4
    <3> HIDE DEF x
    <3>5. F[x] \in Int /\ H[x] = IF x = r THEN F[x] + d ELSE F[x]
      BY <3>1 DEF Raised
    <3> QED
      BY <2>2, <3>1, <3>3, <3>4, <3>5
  <2> QED
    BY <2>3, <2>4
<1> QED
  <2>1. Cardinality(T) \in Nat /\ Cardinality(T) \notin Bad
    BY <1>3, FS_CardinalityType
  <2> QED
    BY <2>1

\* Total is the value of every function that sums.
LEMMA TotalSum ==
  ASSUME NEW T, IsFiniteSet(T), NEW F \in [T -> Int], NEW g, SumOver(g, F, T)
  PROVE  Total(F, T) = g[T] /\ g[T] \in Int
<1> DEFINE h == CHOOSE k : SumOver(k, F, T)
<1>1. SumOver(h, F, T)
  BY Zenon
<1> HIDE DEF h
<1>2. Raised(F, F, T, T, 0)
  BY DEF Raised
<1>3. g[T] \in Int /\ h[T] = IF T \in T THEN g[T] + 0 ELSE g[T]
  BY <1>1, <1>2, SumsDiffer
<1> QED
  BY <1>3 DEF Total, h

\* A sum of which one summand changes, changes by the difference.
LEMMA TotalChanges ==
  ASSUME NEW T, IsFiniteSet(T), NEW F \in [T -> Int], NEW H \in [T -> Int],
         NEW r \in T, \A x \in T \ {r} : H[x] = F[x]
  PROVE  /\ Total(F, T) \in Int
         /\ Total(H, T) = Total(F, T) - F[r] + H[r]
<1>1. PICK g : SumOver(g, F, T)
  BY SumExists
<1>2. PICK h : SumOver(h, H, T)
  BY SumExists
<1>3. Total(F, T) = g[T] /\ g[T] \in Int /\ Total(H, T) = h[T]
  BY <1>1, <1>2, TotalSum
<1> DEFINE d == H[r] - F[r]
<1>4. d \in Int /\ Raised(F, H, T, r, d)
  BY DEF Raised
<1> HIDE DEF d
<1>5. h[T] = g[T] + d
  BY <1>1, <1>2, <1>4, SumsDiffer
<1> QED
  BY <1>3, <1>5 DEF d

\* Nothing adds up to nothing.
LEMMA TotalZero ==
  ASSUME NEW T, IsFiniteSet(T), NEW F, F = [x \in T |-> 0]
  PROVE  Total(F, T) = 0
<1> DEFINE h == [s \in SUBSET T |-> 0]
<1>1. SumOver(h, F, T)
  <2>1. ASSUME NEW s \in SUBSET T, s # {} PROVE 0 = F[Pick(s)] + h[s \ {Pick(s)}]
    <3>1. Pick(s) \in s
      BY <2>1 DEF Pick
    <3> QED
      BY <3>1
  <2> QED
    BY <2>1 DEF SumOver
<1>2. h[T] = 0 /\ F \in [T -> Int]
  OBVIOUS
<1> HIDE DEF h
<1> QED
  BY <1>1, <1>2, TotalSum

-----------------------------------------------------------------------------
(* The merchant's pools against the grants and the customers' pools. *)

ReservedOf(w) == [r \in Requests |-> ReservedBy(r, w)]
SpentOf(w) == [c \in Customers |-> customer[c][w].spent]

LEMMA SumsAreInts ==
  ASSUME TypeInv, NEW w \in Windows
  PROVE  ReservedOf(w) \in [Requests -> Int] /\ SpentOf(w) \in [Customers -> Int]
BY DEF TypeInv, TypeOK, Grant, Pool, ReservedOf, ReservedBy, SpentOf

\* The folds of the property are the sums that were defined above.
LEMMA ReservedFold ==
  ASSUME TypeInv, NEW w \in Windows
  PROVE  MapThenSumSet(LAMBDA r : ReservedBy(r, w), Requests) = Total(ReservedOf(w), Requests)
<1> DEFINE F == ReservedOf(w)
           h == CHOOSE iter : iter = [s \in SUBSET Requests |->
                  IF s = {} THEN 0
                  ELSE ReservedBy(CHOOSE x \in s : TRUE, w) + iter[s \ {CHOOSE x \in s : TRUE}]]
<1>1. MapThenSumSet(LAMBDA r : ReservedBy(r, w), Requests) = h[Requests]
  BY DEF MapThenSumSet, MapThenFoldSet
<1>2. F \in [Requests -> Int]
  BY SumsAreInts
<1>3. PICK g : SumOver(g, F, Requests)
  BY <1>2, SumExists, RequestsAssumption
<1>4. \A s \in SUBSET Requests : s # {} => F[Pick(s)] = ReservedBy(Pick(s), w)
  BY DEF ReservedOf, Pick
<1>5. g = [s \in SUBSET Requests |->
             IF s = {} THEN 0 ELSE ReservedBy(Pick(s), w) + g[s \ {Pick(s)}]]
  BY <1>3, <1>4 DEF SumOver
<1>6. h = [s \in SUBSET Requests |->
             IF s = {} THEN 0 ELSE ReservedBy(Pick(s), w) + h[s \ {Pick(s)}]]
  BY <1>5, Zenon DEF Pick
<1> HIDE DEF h, F
<1>7. SumOver(h, F, Requests)
  BY <1>4, <1>6 DEF SumOver
<1>8. Total(F, Requests) = h[Requests]
  BY <1>2, <1>7, TotalSum, RequestsAssumption
<1> QED
  BY <1>1, <1>8 DEF F

LEMMA SpentFold ==
  ASSUME TypeInv, NEW w \in Windows
  PROVE  MapThenSumSet(LAMBDA c : customer[c][w].spent, Customers) = Total(SpentOf(w), Customers)
<1> DEFINE F == SpentOf(w)
           h == CHOOSE iter : iter = [s \in SUBSET Customers |->
                  IF s = {} THEN 0
                  ELSE customer[CHOOSE x \in s : TRUE][w].spent
                         + iter[s \ {CHOOSE x \in s : TRUE}]]
<1>1. MapThenSumSet(LAMBDA c : customer[c][w].spent, Customers) = h[Customers]
  BY DEF MapThenSumSet, MapThenFoldSet
<1>2. F \in [Customers -> Int]
  BY SumsAreInts
<1>3. PICK g : SumOver(g, F, Customers)
  BY <1>2, SumExists, RequestsAssumption
<1>4. \A s \in SUBSET Customers : s # {} => F[Pick(s)] = customer[Pick(s)][w].spent
  BY DEF SpentOf, Pick
<1>5. g = [s \in SUBSET Customers |->
             IF s = {} THEN 0 ELSE customer[Pick(s)][w].spent + g[s \ {Pick(s)}]]
  BY <1>3, <1>4 DEF SumOver
<1>6. h = [s \in SUBSET Customers |->
             IF s = {} THEN 0 ELSE customer[Pick(s)][w].spent + h[s \ {Pick(s)}]]
  BY <1>5, Zenon DEF Pick
<1> HIDE DEF h, F
<1>7. SumOver(h, F, Customers)
  BY <1>4, <1>6 DEF SumOver
<1>8. Total(F, Customers) = h[Customers]
  BY <1>2, <1>7, TotalSum, RequestsAssumption
<1> QED
  BY <1>1, <1>8 DEF F

SumsInv ==
  /\ TypeInv
  /\ \A w \in Windows : /\ merchant[w].reserved = Total(ReservedOf(w), Requests)
                        /\ merchant[w].spent = Total(SpentOf(w), Customers)

LEMMA SumsInit == Init => SumsInv
<1> SUFFICES ASSUME Init PROVE SumsInv
  OBVIOUS
<1>1. ASSUME NEW w \in Windows
      PROVE  /\ merchant[w] = FreshPool
             /\ ReservedOf(w) = [r \in Requests |-> 0]
             /\ SpentOf(w) = [c \in Customers |-> 0]
  BY DEF Init, ReservedOf, ReservedBy, SpentOf, NoGrant, FreshPool, Reserving
<1> QED
  BY <1>1, TypeInit, TotalZero, RequestsAssumption DEF SumsInv, FreshPool

\* A new grant adds its ceiling to one sum of reservations.
LEMMA IssueSums ==
  ASSUME SumsInv, NEW r \in Requests, NEW w \in Windows, NEW s \in SendTimes(w),
         NEW ask \in 0..RequestedCeiling[r], Issue(r, w, s, ask)
  PROVE  SumsInv'
<1> DEFINE c == CustomerOf[r]
           ceiling == grants'[r].ceiling
<1>1. TypeInv /\ TypeInv' /\ c \in Customers
  BY IssueType, RequestsAssumption DEF SumsInv
<1>2. /\ grants[r].state = "none" /\ grants'[r].state = "RESERVED"
      /\ grants'[r].window = w
      /\ \A q \in Requests \ {r} : grants'[q] = grants[q]
  BY <1>1, IssueAdds
<1>3. /\ merchant' = [merchant EXCEPT ![w].reserved = @ + ceiling]
      /\ customer' = [customer EXCEPT ![c][w].reserved = @ + ceiling]
  BY <1>1 DEF Issue, TypeInv, TypeOK
<1>4. ceiling \in Int
  BY <1>1 DEF TypeInv, TypeOK, Grant
<1> HIDE DEF ceiling
<1> SUFFICES ASSUME NEW x \in Windows
             PROVE  /\ merchant'[x].reserved = Total(ReservedOf(x)', Requests)
                    /\ merchant'[x].spent = Total(SpentOf(x)', Customers)
  BY <1>1 DEF SumsInv
<1> DEFINE F == ReservedOf(x)
           H == ReservedOf(x)'
<1>5. /\ F \in [Requests -> Int] /\ H \in [Requests -> Int]
  BY <1>1 DEF TypeInv, TypeOK, Grant, Pool, ReservedOf, ReservedBy, SpentOf
<1>6. /\ F[r] = 0 /\ H[r] = IF x = w THEN ceiling ELSE 0
      /\ \A q \in Requests \ {r} : H[q] = F[q]
  BY <1>2 DEF ReservedOf, ReservedBy, Reserving, ceiling
<1>7. SpentOf(x)' = SpentOf(x)
  BY <1>1, <1>3, <1>4 DEF SpentOf, TypeInv, TypeOK, Pool
<1>8. /\ merchant'[x].reserved = merchant[x].reserved + IF x = w THEN ceiling ELSE 0
      /\ merchant'[x].spent = merchant[x].spent
  BY <1>1, <1>3, <1>4 DEF TypeInv, TypeOK, Pool
<1> HIDE DEF F, H
<1>9. Total(F, Requests) \in Int /\ Total(H, Requests) = Total(F, Requests) - F[r] + H[r]
  BY <1>5, <1>6, TotalChanges, RequestsAssumption
<1>10. merchant[x].reserved = Total(F, Requests) /\ merchant[x].spent = Total(SpentOf(x), Customers)
  BY DEF SumsInv, F
<1> QED
  BY <1>4, <1>6, <1>7, <1>8, <1>9, <1>10 DEF H

\* A lifecycle call takes the ceiling out of one sum of reservations and adds what
\* it spends to both sums of expenses, or leaves all of them.
LEMMA LifecycleSums ==
  ASSUME SumsInv, TypeInv', NEW r \in Requests, Lifecycle(r)
  PROVE  SumsInv'
<1> DEFINE c == CustomerOf[r]
           w == grants[r].window
           ceiling == grants[r].ceiling
<1>1. TypeInv /\ TypeInv' /\ c \in Customers /\ w \in Windows /\ ceiling \in Nat
  BY RequestsAssumption DEF SumsInv, Lifecycle
<1> SUFFICES ASSUME NEW x \in Windows
             PROVE  /\ merchant'[x].reserved = Total(ReservedOf(x)', Requests)
                    /\ merchant'[x].spent = Total(SpentOf(x)', Customers)
  BY <1>1 DEF SumsInv
<1> DEFINE F == ReservedOf(x)
           H == ReservedOf(x)'
           E == SpentOf(x)
           D == SpentOf(x)'
<1>2. /\ F \in [Requests -> Int] /\ H \in [Requests -> Int]
      /\ E \in [Customers -> Int] /\ D \in [Customers -> Int]
  BY <1>1 DEF TypeInv, TypeOK, Grant, Pool, ReservedOf, ReservedBy, SpentOf
<1>3. merchant[x].reserved = Total(F, Requests) /\ merchant[x].spent = Total(E, Customers)
  BY DEF SumsInv
<1>4. F[r] = IF x = w THEN ceiling ELSE 0
  BY DEF ReservedOf, ReservedBy, Lifecycle
<1>5. \A q \in Requests \ {r} : H[q] = F[q]
  BY DEF ReservedOf, ReservedBy, Lifecycle
<1>6. CASE grants'[r].state = "EXECUTING"
  <2>1. UNCHANGED <<merchant, customer>> /\ H[r] = F[r]
    BY <1>6 DEF Lifecycle, ReservedOf, ReservedBy, Reserving
  <2>2. H = F /\ D = E
    <3>1. \A q \in Requests : H[q] = F[q]
      BY <1>5, <2>1
    <3>2. D = E
      BY <2>1 DEF SpentOf
    <3> HIDE DEF F, H
    <3> QED
      BY <1>2, <3>1, <3>2
  <2> QED
    BY <1>3, <2>1, <2>2
<1>7. CASE grants'[r].state # "EXECUTING"
  <2>1. PICK spend \in 0..ceiling : Settle(r, spend)
    BY <1>7 DEF Lifecycle
  <2>2. spend \in Nat
    BY <1>1
  <2>3. H[r] = 0
    BY <1>7 DEF ReservedOf, ReservedBy, Lifecycle, Reserving, Terminal
  <2>4. /\ merchant'[w] = [reserved |-> merchant[w].reserved - ceiling,
                           spent |-> merchant[w].spent + spend]
        /\ customer'[c][w] = [reserved |-> customer[c][w].reserved - ceiling,
                              spent |-> customer[c][w].spent + spend]
        /\ \A y \in Windows \ {w} : merchant'[y] = merchant[y]
        /\ \A d \in Customers, y \in Windows :
             (d # c \/ y # w) => customer'[d][y] = customer[d][y]
    BY <1>1, <2>1, <2>2, SettleFacts
  <2>5. /\ D[c] = E[c] + IF x = w THEN spend ELSE 0
        /\ \A d \in Customers \ {c} : D[d] = E[d]
    BY <1>1, <1>2, <2>4 DEF SpentOf
  <2>6. /\ merchant'[x].reserved = merchant[x].reserved - IF x = w THEN ceiling ELSE 0
        /\ merchant'[x].spent = merchant[x].spent + IF x = w THEN spend ELSE 0
    BY <1>1, <2>4 DEF TypeInv, TypeOK, Pool
  <2> HIDE DEF F, H, E, D
  <2>7. Total(F, Requests) \in Int /\ Total(H, Requests) = Total(F, Requests) - F[r] + H[r]
    BY <1>2, <1>5, TotalChanges, RequestsAssumption
  <2>8. Total(E, Customers) \in Int /\ Total(D, Customers) = Total(E, Customers) - E[c] + D[c]
    BY <1>1, <1>2, <2>5, TotalChanges, RequestsAssumption
  <2>9. E[c] \in Int
    BY <1>1, <1>2
  <2>10. /\ merchant'[x].reserved = Total(H, Requests)
         /\ merchant'[x].spent = Total(D, Customers)
    BY <1>1, <1>3, <1>4, <2>2, <2>3, <2>5, <2>6, <2>7, <2>8, <2>9
  <2> QED
    BY <2>10 DEF H, D
<1> QED
  BY <1>6, <1>7

LEMMA SumsStep == SumsInv /\ [Next]_vars => SumsInv'
<1>1. ASSUME SumsInv, Next PROVE SumsInv'
  BY <1>1, NextIsStep, StepKinds, IssueSums, LifecycleSums DEF SumsInv
<1>2. ASSUME SumsInv, UNCHANGED vars PROVE SumsInv'
  <2>1. TypeInv'
    BY <1>2, TypeStep DEF SumsInv
  <2> QED
    BY <1>2, <2>1 DEF vars, SumsInv, ReservedOf, ReservedBy, SpentOf
<1> QED
  BY <1>1, <1>2

\* A merchant pool's reservation is exactly that of its live grants, and both kinds
\* of pools agree on what was spent, whatever is confirmed, rolled back or swept.
THEOREM SumsCorrect == Spec => []PoolsExact
<1>1. SumsInv => PoolsExact
  BY ReservedFold, SpentFold DEF SumsInv, PoolsExact
<1> QED
  BY <1>1, SumsInit, SumsStep, PTL DEF Spec
=============================================================================
