--------------------------- MODULE MediationWindow ---------------------------
(***************************************************************************)
(* The decision path, day after day: sampark/mediation/hard_filter.py,     *)
(* sampark/allocator/greedy.py and sampark/mediation/service.py inside the *)
(* window loop that sim/arm_b.py and sampark/demo/runner.py share.  In     *)
(* each window every candidate passes the hard policy or is denied or      *)
(* deferred; the survivors of each customer in turn are scored, ranked and *)
(* issued for until one is granted; the grants are carried out; and what   *)
(* was deferred comes again the next day.  Meanwhile the chaos panel, on a *)
(* thread of its own, opts customers out, opens disputes and kills the     *)
(* scorer.                                                                 *)
(*                                                                         *)
(* Scores are floats that depend on much that is not modelled, so each     *)
(* scoring gives any score; runs that rank by arrival (fifo_mode) are      *)
(* among them.  Issuance and the lifecycle are the steps of ContactLedger. *)
(***************************************************************************)
EXTENDS Integers, FiniteSets, FiniteSetsExt

CONSTANTS
  Requests, Customers, CustomerOf, RequestedCeiling, DayLen, OpenAt, CloseAt,
  WeekDays, Cap24H, Cap7D, GrantTTL, MerchantBudget,
  CustomerBudget,    \* all as in ContactLedger; requests and customers are
                     \* numbers, in the order in which the code sorts them
  RiskOf,            \* the risk item a request is about
  Arrival,           \* the window in which a request arrives
  WhatsApp,          \* requests for that channel, which one can opt out of
  Scores,            \* the scores a candidate may be given
  AgingBonus,        \* AGING_BONUS_PAISE
  MaxDeferrals,      \* MAX_DEFERRAL_WINDOWS
  MayOptOut, MayDispute,  \* customers the panel may do that to
  MaxKills           \* how often the panel kills the scorer

ASSUME WindowAssumption ==
  /\ Requests \subseteq Nat /\ Requests # {} /\ Customers \subseteq Nat
  /\ Arrival \in [Requests -> Nat] /\ WhatsApp \subseteq Requests
  /\ Scores \subseteq Int /\ AgingBonus \in Nat /\ MaxDeferrals \in Nat \ {0}
  /\ MaxKills \in Nat /\ MayOptOut \subseteq Customers /\ MayDispute \subseteq Customers

ASSUME LedgerAssumption ==   \* those of ContactLedger
  /\ IsFiniteSet(Requests) /\ IsFiniteSet(Customers)
  /\ CustomerOf \in [Requests -> Customers]
  /\ RequestedCeiling \in [Requests -> Nat]
  /\ DayLen \in Nat /\ OpenAt \in Nat /\ CloseAt \in Nat
  /\ OpenAt < CloseAt /\ CloseAt <= DayLen
  /\ WeekDays \in Nat \ {0} /\ GrantTTL \in Nat \ {0}
  /\ Cap24H \in Nat /\ Cap7D \in Nat /\ MerchantBudget \in Nat
  /\ CustomerBudget \in [Customers -> Nat]

VARIABLES
  grants, merchant, customer,  \* as in ContactLedger
  window,     \* the window in progress
  phase,      \* mediation, execution, or the end of the run
  hand,       \* candidates of this window: arrivals and carried forward
  night,      \* those of them that propose an instant in the evening blackout
  deferred,   \* windows_deferred of each request
  verdict,    \* what this attempt at the window has decided of each candidate
  allocated,  \* customers this attempt has gone through
  scorer,     \* whether it is killed, and whether this is the second attempt
  kills,      \* how often it was killed
  optedOut, disputed  \* the window in which the panel did that to a customer

ledger == <<grants, merchant, customer>>
attempt == <<verdict, allocated>>
panel == <<optedOut, disputed, kills>>
vars == <<ledger, attempt, panel, window, phase, hand, night, deferred, scorer>>

-----------------------------------------------------------------------------
(* The calendar and the ledger. *)

LastWindow == Max({Arrival[r] : r \in Requests}) + MaxDeferrals + 1
Windows == 0..LastWindow
NotYet == LastWindow + 1
Arriving(w) == {r \in Requests : Arrival[r] = w}

Ledger == INSTANCE ContactLedger WITH Instants <- {}

SendTimes(r) == IF deferred[r] = 0 THEN Ledger!SendTimes(window)
                ELSE {Ledger!WindowStart(window)}

-----------------------------------------------------------------------------
(* Hard policy. *)

\* Mistake: a request carried forward has been judged once and for all.
ForbiddenOnArrival(r) ==
  /\ deferred[r] = 0
  /\ \/ r \in WhatsApp /\ optedOut[CustomerOf[r]] < NotYet
     \/ RequestedCeiling[r] > 0 /\ disputed[CustomerOf[r]] < NotYet

\* What denies for good: an opt-out of the channel, a dispute if there is an
\* incentive.
Forbidden(r) ==
  \/ r \in WhatsApp /\ optedOut[CustomerOf[r]] < NotYet
  \/ RequestedCeiling[r] > 0 /\ disputed[CustomerOf[r]] < NotYet

\* Mistake: the contact caps are left to issuance.
BlockedBySlot(r) ==
  Ledger!HasActiveClaim(CustomerOf[r], window) \/ r \in night

\* What defers to the next day: another grant in this window, quiet hours, a cap.
Blocked(r) == \/ Ledger!HasActiveClaim(CustomerOf[r], window)
              \/ r \in night
              \/ ~Ledger!BelowCaps(CustomerOf[r], window)

\* Mistake: a request that is deferred often enough is not given up.
AlwaysDefer(r) == "DEFERRED"

DeferOrDeny(r) == IF deferred[r] + 1 >= MaxDeferrals THEN "DENIED" ELSE "DEFERRED"

Verdicts == {"none", "survivor", "GRANTED", "DENIED", "DEFERRED", "executed"}

HardVerdict(r) == CASE Forbidden(r) -> "DENIED"
                    [] ~Forbidden(r) /\ Blocked(r) -> DeferOrDeny(r)
                    [] OTHER -> "survivor"

-----------------------------------------------------------------------------
(* Allocation. *)

Survivors(c) == {r \in hand : verdict[r] = "survivor" /\ CustomerOf[r] = c}

\* Customers with survivors that this attempt has still to go through.
Waiting == {c \in Customers \ allocated : Survivors(c) # {}}

Left(r) == {Ledger!Remaining(MerchantBudget, merchant[window]),
            Ledger!Remaining(CustomerBudget[CustomerOf[r]],
                             customer[CustomerOf[r]][window])}

\* Candidates whose incentive has to be downgraded, and so be scored again.
Squeezed(c) == {r \in Survivors(c) : \E left \in Left(r) : left < RequestedCeiling[r]}

Priority(net, r) == net[r] + AgingBonus * deferred[r]
Before(net, q, r) == \/ Priority(net, q) > Priority(net, r)
                     \/ Priority(net, q) = Priority(net, r) /\ q < r

\* issue_grant answers with a grant: one the request has, or a new one.
Issuable(r) == \/ grants[r].state # "none"
               \/ /\ \A left \in Left(r) : left > 0
                  /\ Ledger!BelowCaps(CustomerOf[r], window)
                  /\ ~Ledger!HasActiveClaim(CustomerOf[r], window)

\* The first of the ranking that is worth its downgraded incentive and that
\* issue_grant grants; the empty set if there is none.
Winner(c, net, worthless) ==
  LET viable == {r \in Survivors(c) \ worthless : net[r] > 0 /\ Issuable(r)}
  IN  {r \in viable : \A q \in viable \ {r} : Before(net, r, q)}

\* The winner is granted and whoever scored zero or less denied; the others are
\* deferred, except that one about the winner's own risk item is passed over.
Allocation(c, net, winner) ==
  [r \in Requests |->
     IF r \notin Survivors(c) THEN verdict[r]
     ELSE IF r \in winner THEN "GRANTED"
     ELSE IF net[r] <= 0 THEN "DENIED"
     ELSE IF \E q \in winner : RiskOf[q] = RiskOf[r] THEN "survivor"
     ELSE DeferOrDeny(r)]

-----------------------------------------------------------------------------
Undecided == [r \in Requests |-> "none"]

Init ==
  /\ Ledger!Init
  /\ window = 0 /\ phase = "mediate"
  /\ hand = Arriving(0) /\ night \in SUBSET Arriving(0)
  /\ deferred = [r \in Requests |-> 0]
  /\ verdict = Undecided /\ allocated = {}
  /\ scorer = [killed |-> FALSE, again |-> FALSE] /\ kills = 0
  /\ optedOut = [c \in Customers |-> NotYet]
  /\ disputed = [c \in Customers |-> NotYet]

Unfiltered == {r \in hand : verdict[r] = "none"}

\* filter_candidates takes the candidates in order, each with fresh facts.
Filter ==
  /\ phase = "mediate" /\ Unfiltered # {}
  /\ LET r == Min(Unfiltered)
     IN  verdict' = [verdict EXCEPT ![r] = HardVerdict(r)]
  /\ UNCHANGED <<ledger, panel, window, phase, hand, night, deferred, scorer, allocated>>

\* allocate_window goes through one customer.
Allocate ==
  LET c == Min(Waiting)
  IN  /\ phase = "mediate" /\ Unfiltered = {} /\ Waiting # {}
      /\ ~scorer.killed
      /\ \E net \in [Survivors(c) -> Scores], worthless \in SUBSET Squeezed(c) :
           LET winner == Winner(c, net, worthless)
           IN  /\ verdict' = Allocation(c, net, winner)
               /\ IF \E r \in winner : grants[r].state = "none"
                  THEN \E r \in winner : \E s \in SendTimes(r) :
                         Ledger!Issue(r, window, s, RequestedCeiling[r])
                  ELSE UNCHANGED ledger
      /\ allocated' = allocated \cup {c}
      /\ UNCHANGED <<panel, window, phase, hand, night, deferred, scorer>>

\* A killed scorer raises at the next scoring.  The first time in a window the
\* runner takes the heuristic instead and mediates the window again, from the
\* same candidates; the second time the exception ends the run.
ScorerRaises ==
  /\ phase = "mediate" /\ Unfiltered = {} /\ Waiting # {}
  /\ scorer.killed
  /\ IF scorer.again
     THEN phase' = "failed" /\ UNCHANGED <<attempt, scorer>>
     ELSE /\ verdict' = Undecided /\ allocated' = {}
          /\ scorer' = [killed |-> FALSE, again |-> TRUE]
          /\ UNCHANGED phase
  /\ UNCHANGED <<ledger, panel, window, hand, night, deferred>>

Deferrals == {r \in hand : verdict[r] = "DEFERRED"}

\* Mistake: only a lost contest ages a candidate, waiting for the morning does not.
AgedByContest == {r \in Deferrals : r \notin night}

Aged == Deferrals

\* mediate_window returns its decisions and the candidates to carry forward.
Decide ==
  /\ phase = "mediate" /\ Unfiltered = {} /\ Waiting = {}
  /\ phase' = "execute"
  /\ deferred' = [r \in Requests |-> IF r \in Aged THEN deferred[r] + 1 ELSE deferred[r]]
  /\ hand' = Deferrals /\ night' = {}
  /\ scorer' = [scorer EXCEPT !.again = FALSE]
  /\ UNCHANGED <<ledger, attempt, panel, window>>

\* Mistake: the requests behind candidates carried forward are not found again.
GrantedFresh == {r \in Requests : verdict[r] = "GRANTED" /\ Arrival[r] = window}

Granted == {r \in Requests : verdict[r] = "GRANTED"}

\* The runner starts to execute a granted decision, and then the provider has
\* delivered it or not (GrantExecution).
Execute ==
  /\ phase = "execute" /\ Granted # {}
  /\ LET r == Min(Granted)
     IN  /\ Ledger!Execute(r)
         /\ verdict' = [verdict EXCEPT ![r] = "executed"]
  /\ UNCHANGED <<panel, window, phase, hand, night, deferred, scorer, allocated>>

Executing == {r \in Requests : grants[r].state = "EXECUTING"}

Settle ==
  /\ phase = "execute"
  /\ \E r \in Executing :
       Ledger!Confirm(r, grants[r].ceiling) \/ Ledger!Rollback(r)
  /\ UNCHANGED <<attempt, panel, window, phase, hand, night, deferred, scorer>>

\* The next day: what was deferred comes before the arrivals.
NextWindow ==
  /\ phase = "execute" /\ Granted = {} /\ Executing = {}
  /\ IF window = LastWindow
     THEN phase' = "over" /\ UNCHANGED <<window, hand, night>>
     ELSE /\ phase' = "mediate" /\ window' = window + 1
          /\ hand' = hand \cup Arriving(window + 1)
          /\ night' \in SUBSET Arriving(window + 1)
  /\ verdict' = Undecided /\ allocated' = {}
  /\ UNCHANGED <<ledger, panel, deferred, scorer>>

-----------------------------------------------------------------------------
(* The chaos panel. *)

Running == phase \in {"mediate", "execute"}

KillModel ==
  /\ Running /\ kills < MaxKills /\ ~scorer.killed
  /\ scorer' = [scorer EXCEPT !.killed = TRUE] /\ kills' = kills + 1
  /\ UNCHANGED <<ledger, attempt, optedOut, disputed, window, phase, hand, night, deferred>>

OptOut(c) ==
  /\ Running /\ optedOut[c] = NotYet
  /\ optedOut' = [optedOut EXCEPT ![c] = window]
  /\ UNCHANGED <<ledger, attempt, disputed, kills, window, phase, hand, night, deferred, scorer>>

Dispute(c) ==
  /\ Running /\ disputed[c] = NotYet
  /\ disputed' = [disputed EXCEPT ![c] = window]
  /\ UNCHANGED <<ledger, attempt, optedOut, kills, window, phase, hand, night, deferred, scorer>>

Ended == phase \in {"over", "failed"} /\ UNCHANGED vars

Next ==
  \/ Filter \/ Allocate \/ ScorerRaises \/ Decide \/ Execute \/ Settle \/ NextWindow
  \/ KillModel
  \/ \E c \in MayOptOut : OptOut(c)
  \/ \E c \in MayDispute : Dispute(c)
  \/ Ended

Spec == Init /\ [][Next]_vars

-----------------------------------------------------------------------------
(* Correctness. *)

\* The variables hold what the program's can; no request is deferred as often as
\* MAX_DEFERRAL_WINDOWS.
TypeOK ==
  /\ Ledger!TypeOK
  /\ window \in Windows /\ phase \in {"mediate", "execute", "over", "failed"}
  /\ night \subseteq hand /\ hand \subseteq Requests
  /\ deferred \in [Requests -> 0..(MaxDeferrals - 1)]
  /\ verdict \in [Requests -> Verdicts] /\ allocated \subseteq Customers
  /\ scorer \in [killed: BOOLEAN, again: BOOLEAN] /\ kills \in 0..MaxKills
  /\ optedOut \in [Customers -> 0..NotYet] /\ disputed \in [Customers -> 0..NotYet]

\* The days after the last arrival are "enough for every candidate to reach a
\* terminal outcome" (arm_b.py:28-31): nothing is carried out of the last window.
HorizonSuffices == phase = "over" => hand = {}

\* A candidate ages once per window in which it was deferred, for whatever
\* reason and however often the window was mediated: its count is its age.
AgedOncePerWindow ==
  phase = "mediate" => \A r \in hand : deferred[r] = window - Arrival[r]

\* What the filter found out about slots and caps is still true when the
\* allocator comes to the customer, although grants were issued meanwhile: issuance
\* refuses nobody for it.
VerdictsStayTrue ==
  phase = "mediate" =>
    \A c \in Customers \ allocated : \A r \in Survivors(c) :
      ~Ledger!HasActiveClaim(c, window) /\ Ledger!BelowCaps(c, window)

\* An opt-out or a dispute is honoured from the window after it at the latest, by
\* requests that were carried forward too.
OptOutHonoured ==
  \A r \in Requests :
    grants[r].state # "none" =>
      /\ r \in WhatsApp => grants[r].window <= optedOut[CustomerOf[r]]
      /\ RequestedCeiling[r] > 0 => grants[r].window <= disputed[CustomerOf[r]]

\* Between windows no grant is left reserved: whatever was issued in a window was
\* decided in it and carried out.
Stranded == {r \in Requests : grants[r].state \in Ledger!Reserving}
Between == phase = "execute" /\ Granted = {} /\ Executing = {}
NoneStranded == kills = 0 /\ Between => Stranded = {}

\* "Re-running is safe and is not a second decision: [...] the retry either
\* re-derives the same facts or finds them already there" (runner.py:348-351):
\* the grants of an attempt that was cut short are among the decisions of the
\* next one, and none is left reserved.
RerunIsSafe == Between => Stranded = {}

=============================================================================
