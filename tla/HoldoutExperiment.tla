------------------------- MODULE HoldoutExperiment -------------------------
(* The randomized holdout and what is credited against it, as functions: who  *)
(* is held out (sim/holdout.py), what the three holdout arms observe of every *)
(* risk item (sim/environment.py, arm_a_holdout.py, arm_b.py, arm_h.py), the  *)
(* rows a PostgreSQL arm leaves behind, the natural rate estimated from the   *)
(* held-out customers and the credit a grant gets against it                  *)
(* (sampark/attribution).  The properties at the end are over given inputs;   *)
(* MCGrantIssuance evaluates them.                                            *)
EXTENDS Integers, Sequences, FiniteSets, SequencesExt, FiniteSetsExt

NStrata == 5
Whole == 10000  \* basis points

-----------------------------------------------------------------------------
(* Assignment.  Customers are numbered as their ids sort; rank is the order   *)
(* of the hashes, which does not depend on the fraction.                      *)

\* What is at risk for each customer: the sum over the customer's risk items.
CustomerAmounts(amount, owner) ==
  [c \in {owner[r] : r \in DOMAIN owner} |->
     MapThenSumSet(LAMBDA r : amount[r], {r \in DOMAIN owner : owner[r] = c})]

\* A finite set in the order of a total order on it.
Sorted(S, before(_, _)) ==
  [i \in 1..Cardinality(S) |->
     CHOOSE c \in S : Cardinality({d \in S : before(d, c)}) = i - 1]

ByAmount(total) ==
  Sorted(DOMAIN total, LAMBDA c, d : total[c] < total[d] \/ (total[c] = total[d] /\ c < d))

\* The remainder goes to the lowest strata, one customer each.
Strata(total) ==
  LET n == Cardinality(DOMAIN total)
      end(i) == i * (n \div NStrata) + Min({i, n % NStrata})
  IN [i \in 1..NStrata |-> SubSeq(ByAmount(total), end(i - 1) + 1, end(i))]

Assign(bps, total, rank) ==
  UNION {{c \in ToSet(s) :
            Cardinality({d \in ToSet(s) : rank[d] < rank[c]}) < (Len(s) * bps) \div Whole} :
           s \in ToSet(Strata(total))}

-----------------------------------------------------------------------------
(* The arms.  The environment resolves a risk item once, by a contact or      *)
(* naturally, and stops the run at a second observation.                      *)

NothingObserved == [log |-> <<>>, failed |-> FALSE]

Observe(env, item, kind) ==
  IF env.failed \/ \E i \in DOMAIN env.log : env.log[i].item = item
  THEN [env EXCEPT !.failed = TRUE]
  ELSE [env EXCEPT !.log = Append(@, [item |-> item, kind |-> kind])]

ObserveAll(env, items, kind) ==
  FoldLeft(LAMBDA e, item : Observe(e, item, kind), env, items)

InOrder(items) == Sorted(items, <)

\* Every agent selects one action for every risk item of its source, and every
\* source has an agent: what is contacted without mediation is every item of a
\* customer who is not held out.
ArmAHoldout(owner, held) ==
  LET treated == {r \in DOMAIN owner : owner[r] \notin held}
  IN ObserveAll(ObserveAll(NothingObserved, InOrder(treated), "contact"),
                InOrder(DOMAIN owner \ treated), "natural")

\* granted: the risk items the window loop granted, in its order.  Every item
\* it left alone, whoever the customer, is observed once the loop is over.
ArmBHoldout(owner, granted) ==
  LET looped == ObserveAll(NothingObserved, granted, "contact")
  IN IF looped.failed THEN looped
     ELSE ObserveAll(looped, InOrder(DOMAIN owner \ ToSet(granted)), "natural")

ArmH(owner) == ObserveAll(NothingObserved, InOrder(DOMAIN owner), "natural")

-----------------------------------------------------------------------------
(* The rows of a PostgreSQL arm: what the run writes, and what is deleted or  *)
(* reset in its `finally'.  "cache" is the contact counts of contact_states,  *)
(* "optouts" its opt-outs, which only the holdout arm writes and resets.      *)

PerCustomer == {"claims", "requests", "grants", "cache", "margin"}

RowsOf(tables, keys) == tables \X keys

WrittenBy(contacted, optedOut, windows, agents) ==
  RowsOf(PerCustomer, contacted) \cup RowsOf({"optouts"}, optedOut)
    \cup RowsOf({"budget"}, windows) \cup RowsOf({"agents"}, agents)

CleanupRun(rows, customers, windows) ==
  (rows \ RowsOf(PerCustomer, customers)) \ RowsOf({"budget"}, windows)

CleanupHoldoutRun(rows, customers, windows) ==
  CleanupRun(rows, customers, windows) \ RowsOf({"optouts"}, customers)

-----------------------------------------------------------------------------
(* The natural rate.  A log of natural outcomes counts them by whether the    *)
(* customer is held out, source, root cause and whether the item recovered.   *)

SourceAndCauseMin == 100
SourceMin == 30

RateOver(log, kinds) ==
  [recovered |-> MapThenSumSet(LAMBDA k : log[k], {k \in kinds : k.recovered}),
   n |-> MapThenSumSet(LAMBDA k : log[k], kinds)]

Control(log) == {k \in DOMAIN log : k.held}

\* Otherwise InsufficientHoldoutDataError.
Estimable(log) == RateOver(log, Control(log)).n > 0

RateFor(log, source, cause) ==
  LET bySource == {k \in Control(log) : k.source = source}
      byBoth == {k \in bySource : k.cause = cause}
  IN CASE RateOver(log, byBoth).n >= SourceAndCauseMin -> RateOver(log, byBoth)
       [] RateOver(log, byBoth).n < SourceAndCauseMin
            /\ RateOver(log, bySource).n >= SourceMin -> RateOver(log, bySource)
       [] OTHER -> RateOver(log, Control(log))

-----------------------------------------------------------------------------
(* The credit of a grant, and the insert that keeps the first one.            *)

\* Python's round of a / b: to the nearest, half to even.
HalfEven(a, b) ==
  LET q == a \div b
      r == 2 * (a % b)
  IN IF r > b \/ (r = b /\ q % 2 = 1) THEN q + 1 ELSE q

Credit(observed, amount, rate) ==
  LET bps == HalfEven(Whole * rate.recovered, rate.n)
      expected == (amount * bps) \div Whole
  IN [observed |-> observed, bps |-> bps, expected |-> expected,
      credited |-> observed - expected, n |-> rate.n]

\* INSERT ... ON CONFLICT DO NOTHING, then the row is read and compared: by its
\* id, which the grant determines, and by the credited amount.
InsertCredit(row, credit) ==
  LET durable == IF row = <<>> THEN <<credit>> ELSE row
      conflict == durable[1].credited # credit.credited
  IN [row |-> durable, conflict |-> conflict,
      event |-> IF conflict THEN <<>> ELSE durable]

-----------------------------------------------------------------------------
(* Properties.                                                                *)

\* The strata cut the order of amounts into consecutive parts whose sizes      *
\* differ by one at most, the longer ones first (sim/holdout.py, strata).
StrataPartition(totals) ==
  \A t \in totals :
    LET s == Strata(t) IN
      /\ FlattenSeq(s) = ByAmount(t)
      /\ \A i, j \in 1..NStrata : i < j => Len(s[i]) - Len(s[j]) \in {0, 1}

\* A larger fraction holds out the same customers and more of them, and in no
\* stratum does the share held out exceed the fraction or fall short of it by a
\* whole customer (sim/holdout.py, assign: the reason for ranks within strata).
AssignmentNested(fractions, totals, ranks) ==
  \A t \in totals, k \in ranks : \A f, g \in fractions :
    /\ f <= g => Assign(f, t, k) \subseteq Assign(g, t, k)
    /\ \A s \in ToSet(Strata(t)) :
         Len(s) * f - Whole * Cardinality(Assign(f, t, k) \cap ToSet(s)) \in 0..(Whole - 1)

\* Whatever is granted, each arm observes every risk item exactly once, a
\* contacted one by its contact; an item granted twice stops the run instead of
\* being counted twice (sim/environment.py, _observed_risk_ids).
ObservedOnce(owners, grantings) ==
  \A o \in owners :
    /\ \A held \in SUBSET {o[r] : r \in DOMAIN o} :
         LET arm == ArmAHoldout(o, held) IN
           /\ ~arm.failed
           /\ Len(arm.log) = Cardinality(DOMAIN o)
           /\ \A i \in DOMAIN arm.log :
                arm.log[i].kind = "natural" <=> o[arm.log[i].item] \in held
    /\ \A g \in grantings :
         LET arm == ArmBHoldout(o, g) IN
           /\ arm.failed <=> ~IsInjective(g)
           /\ ~arm.failed =>
                /\ {arm.log[i].item : i \in DOMAIN arm.log} = DOMAIN o
                /\ Len(arm.log) = Cardinality(DOMAIN o)
                /\ \A i \in DOMAIN arm.log :
                     arm.log[i].kind = "contact" <=> arm.log[i].item \in ToSet(g)
    /\ ~ArmH(o).failed /\ Len(ArmH(o).log) = Cardinality(DOMAIN o)

\* A run that ends leaves nothing of its own but its agents, and the cleanup of
\* the arm without holdout would leave the opt-outs.  A run that is killed
\* leaves its rows to the next run of the same customers, which never cleans up
\* before it starts (sim/arm_b.py, the two cleanups and their `finally').
CleanupComplete(customers, windows, agents) ==
  \A contacted, optedOut \in SUBSET customers : optedOut \subseteq contacted =>
    LET rows == WrittenBy(contacted, optedOut, windows, agents) IN
      /\ CleanupHoldoutRun(rows, customers, windows) = RowsOf({"agents"}, agents)
      /\ CleanupRun(rows, customers, windows) = CleanupHoldoutRun(rows, customers, windows)
           <=> optedOut = {}
      /\ contacted # {} => rows # CleanupHoldoutRun(rows, customers, windows)

\* What the allocator declined has no influence on any rate, and whenever there
\* is one control outcome every source and root cause has a rate that rests on
\* somebody (sampark/attribution/baseline.py).
BaselineFromHoldout(logs, others) ==
  \A l \in logs : Estimable(l) =>
    \A s \in {k.source : k \in DOMAIN l}, c \in {k.cause : k \in DOMAIN l} :
      /\ RateFor(l, s, c).n > 0
      /\ \A m \in others :
           RateFor([k \in DOMAIN l |-> IF k.held THEN l[k] ELSE m], s, c) = RateFor(l, s, c)

\* Credited against their own rate, the control customers themselves are
\* credited nothing but rounding: at most one paisa an item for the floor and
\* half a basis point of the amount for the rate (sampark/attribution/credit.py).
ControlCreditsNothing(sizes, amounts) ==
  \A n \in sizes, a \in amounts : \A recovered \in 0..n :
    LET rate == [recovered |-> recovered, n |-> n]
        total == recovered * Credit(a, a, rate).credited
                   + (n - recovered) * Credit(0, a, rate).credited
        slack == n + (n * a) \div (2 * Whole) + 1
    IN total \in (-slack)..slack

\* A credit computed again is accepted exactly when it credits the same amount:
\* the row and the event keep the first computation, whatever rate, baseline and
\* expectation the second one found (sampark/attribution/store.py,
\* insert_credit, whose docstring says that it never returns a value that
\* disagrees with the database).
FirstCreditStands(credits) ==
  \A a, b \in credits :
    LET first == InsertCredit(<<>>, a)
        again == InsertCredit(first.row, b)
    IN /\ first.row = <<a>> /\ ~first.conflict
       /\ again.row = first.row
       /\ again.conflict <=> a.credited # b.credited
       /\ again.event # <<>> => again.event = first.event

=============================================================================
