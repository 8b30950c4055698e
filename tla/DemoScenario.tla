---------------------------- MODULE DemoScenario ----------------------------
(***************************************************************************)
(* What is asked of the mediator: the actions of the four agents (agents/) *)
(* with the scopes they are registered under (sim/arm_b.py), the slice of  *)
(* the world that sampark/demo/scenario.py selects from them, and the      *)
(* scripted requests of the rogue, judged by the two gates in front of the *)
(* mediator (sampark/demo/runner.py) and by the hard policy.               *)
(*                                                                         *)
(* A world is a set of risk items [risk, customer, source, detected,       *)
(* amount].  Instants are hours for the agents and seconds for the script. *)
(***************************************************************************)
EXTENDS Integers, Sequences, SequencesExt, HardPolicy

R == INSTANCE AgentRegistry

Sorted(S, Precedes(_, _)) ==
  [n \in 1..Cardinality(S) |-> CHOOSE x \in S : Cardinality({y \in S : Precedes(y, x)}) = n - 1]

-----------------------------------------------------------------------------
(* The agents. *)

AgentTable ==
  [payment_retry_agent |-> [source |-> "failed_payment", channel |-> "sms",
     intent |-> "payment_retry", incentive |-> 0, offset |-> 2],
   cart_recovery_agent |-> [source |-> "abandoned_checkout", channel |-> "whatsapp",
     intent |-> "cart_recovery", incentive |-> 500, offset |-> 6],
   mandate_recovery_agent |-> [source |-> "mandate_failure", channel |-> "whatsapp",
     intent |-> "mandate_retry", incentive |-> 200, offset |-> 4],
   receivables_agent |-> [source |-> "overdue_invoice", channel |-> "voice",
     intent |-> "receivables_followup", incentive |-> 0, offset |-> 24]]

Scope(channel, intent, source, incentive) ==
  [channels |-> {channel}, intents |-> {intent}, sources |-> {source}, incentive |-> incentive]

Rogue == "third_party_recovery_agent"
RogueCeiling == 3
Scopes ==
  [payment_retry_agent |-> Scope("sms", "payment_retry", "failed_payment", 0),
   cart_recovery_agent |-> Scope("whatsapp", "cart_recovery", "abandoned_checkout", 500),
   mandate_recovery_agent |-> Scope("whatsapp", "mandate_retry", "mandate_failure", 200),
   receivables_agent |-> Scope("voice", "receivables_followup", "overdue_invoice", 0),
   third_party_recovery_agent |-> Scope("whatsapp", "cart_recovery", "abandoned_checkout", 200)]

\* agent_registrations: each agent signs with its own key.
Registered(states) ==
  [agents |-> [a \in DOMAIN Scopes |-> [key |-> a, state |-> states[a], strikes |-> 0]],
   scopes |-> Scopes]
AllActive == [a \in DOMAIN Scopes |-> "ACTIVE"]

SelectActions(a, world) ==
  {[agent |-> a, risk |-> i.risk, customer |-> i.customer, channel |-> AgentTable[a].channel,
    intent |-> AgentTable[a].intent, incentive |-> AgentTable[a].incentive,
    scheduled |-> i.detected + AgentTable[a].offset]
     : i \in {j \in world : j.source = AgentTable[a].source}}

ActionsOf(world) == UNION {SelectActions(a, world) : a \in DOMAIN AgentTable}

\* _adjusted_arrival: what is scheduled before 09:00 waits until the day opens.
AdjustedArrival(action) ==
  IF HourOf(action.scheduled) < QuietEnd THEN WindowStart(DayOf(action.scheduled))
  ELSE action.scheduled
WindowOf(action) == DayOf(AdjustedArrival(action))

\* to_grant_request; a request is named by agent and risk item (request_id_for).
Request(action) ==
  [agent |-> action.agent, signedFor |-> action.agent, risk |-> action.risk,
   customer |-> action.customer, channel |-> action.channel, intent |-> action.intent,
   incentive |-> action.incentive]
RequestId(request) == <<request.agent, request.risk>>

RiskItems(world) ==
  [r \in {i.risk : i \in world} |-> CHOOSE i \in world : i.risk = r]

\* The hard policy's view of a request to a customer nothing is known of.
Verdicts(request, at, disputed) ==
  HardRules([channel |-> request.channel, intent |-> request.intent,
             incentive |-> request.incentive, optouts |-> {}, disputed |-> disputed,
             claimed |-> FALSE, c24 |-> 0, c7 |-> 0, at |-> at])

-----------------------------------------------------------------------------
(* The slice of the world: the span of windows with the most contended pairs,   *)
(* and the customers most contended for.                                        *)

Wanting(actions, c, w) ==
  {a.agent : a \in {b \in actions : b.customer = c /\ WindowOf(b) = w}}
Contended(actions) ==
  {<<a.customer, WindowOf(a)>> : a \in {b \in actions :
      Cardinality(Wanting(actions, b.customer, WindowOf(b))) >= 2}}

WindowSeq(actions) == Sorted({WindowOf(a) : a \in actions}, LAMBDA v, w : v < w)
Score(actions, span) == Cardinality({p \in Contended(actions) : p[2] \in ToSet(span)})

\* _select_span: the loop over the windows that occur; <<>> is the failed assertion.
SelectSpan(actions, n) ==
  LET windows == WindowSeq(actions)
      Span(i) == SubSeq(windows, i, i + n - 1)
      Better(best, i) == IF best = <<>> \/ Score(actions, Span(i)) > Score(actions, best)
                         THEN Span(i) ELSE best
  IN  FoldLeft(Better, <<>>, [i \in 1..(Len(windows) - n + 1) |-> i])

\* _select_customers: by contended windows, then by amount, then by name.
SelectCustomers(world, actions, span, n) ==
  LET within == {a \in actions : WindowOf(a) \in ToSet(span)}
      Wanted(c) == Cardinality({p \in Contended(actions) : p[1] = c /\ p[2] \in ToSet(span)})
      Amount(c) == MapThenSumSet(LAMBDA a : RiskItems(world)[a.risk].amount,
                                 {a \in within : a.customer = c})
      Precedes(c, d) == \/ Wanted(c) > Wanted(d)
                        \/ Wanted(c) = Wanted(d) /\ Amount(c) > Amount(d)
                        \/ Wanted(c) = Wanted(d) /\ Amount(c) = Amount(d) /\ c < d
      ranked == Sorted({a.customer : a \in within}, Precedes)
  IN  SubSeq(ranked, 1, IF n < Len(ranked) THEN n ELSE Len(ranked))

\* build_scenario: the chosen customers' items, and their actions inside the span.
BuildScenario(world, customers, windows) ==
  LET actions == ActionsOf(world)
      span == SelectSpan(actions, windows)
      chosen == ToSet(SelectCustomers(world, actions, span, customers))
  IN  [span |-> span,
       ledger |-> {i \in world : i.customer \in chosen},
       honest |-> {a \in actions : a.customer \in chosen /\ WindowOf(a) \in ToSet(span)}]

-----------------------------------------------------------------------------
(* The rogue's script. *)

Seconds(hours, minutes) == 3600 * hours + 60 * minutes
At(day, hour, minute) == Seconds(24 * day + hour, minute)

\* The carts of the slice, by name: one for each of the ten requests.
Targets(ledger) ==
  Sorted({i \in ledger : i.source = "abandoned_checkout"}, LAMBDA i, j : i.risk < j.risk)
TooSmall(ledger) == Len(Targets(ledger)) < 10

Scripted(item, channel, incentive, issued, send) ==
  [agent |-> Rogue, signedFor |-> Rogue, risk |-> item.risk, customer |-> item.customer,
   channel |-> channel, intent |-> "cart_recovery", incentive |-> incentive,
   issued |-> issued, send |-> send]

Burst(items, base, send) ==
  [i \in 1..6 |-> Scripted(items[i], "whatsapp", 200, base + 5 * (i - 1), send)]

\* _build_rogue_requests.
RogueScript(scenario) ==
  LET t == Targets(scenario.ledger)
      first == scenario.span[1]
      burst == scenario.span[3]
      after == scenario.span[4]
  IN  <<Scripted(t[1], "voice", 100, At(first, 10, 0), At(first, 10, 0)),
        Scripted(t[2], "whatsapp", 4000, At(first, 10, 1), At(first, 10, 1)),
        Scripted(t[3], "whatsapp", 200, At(first, 23, 15), At(first, 23, 15))>>
      \o Burst(SubSeq(t, 4, 9), At(burst, 9, 5), At(burst, 10, 0))
      \o <<Scripted(t[10], "whatsapp", 200, At(after, 9, 30), At(after, 10, 0))>>

\* _inject_flood: the burst once more, from the opening of another window on.
Flood(scenario, day) ==
  Burst(SubSeq(Targets(scenario.ledger), 4, 9), At(day, 9, 0), At(day, 10, 0))

\* run_window takes them up in the order they were issued.
InOrder(requests) == Sorted(ToSet(requests), LAMBDA q, r : q.issued < r.issued)

\* The two gates and then the hard policy: the rogue's state, strikes and stamps, and
\* what every request was answered.
Judge(ledger, seen, r) ==
  LET scope == R!EvaluateScope(r, Registered([AllActive EXCEPT ![Rogue] = seen.state]),
                               RiskItems(ledger))
      recent == {t \in seen.stamps : t > r.issued - Seconds(1, 0)}
      verdict == EvaluateAll(Verdicts(r, r.send \div Seconds(1, 0), FALSE))
      strikes == seen.strikes + 1
      Answered(s, answer) == [s EXCEPT !.answers = Append(@, <<RequestId(r), answer>>)]
      Recorded(s) == [s EXCEPT !.stamps = @ \cup {r.issued}]
  IN  IF scope # R!Passes THEN Answered(seen, scope)
      ELSE IF Cardinality(recent) >= RogueCeiling
      THEN Answered([Recorded(seen) EXCEPT !.strikes = strikes,
                       !.state = IF strikes >= 3 THEN "REVOKED" ELSE "ACTIVE"],
                    "rate_ceiling_exceeded")
      ELSE Answered(Recorded(seen), IF IsDefer(verdict) THEN "deferred"
                                    ELSE IF IsDeny(verdict) THEN "denied" ELSE "competes")

Unseen == [state |-> "ACTIVE", strikes |-> 0, stamps |-> {}, answers |-> <<>>]
Answers(scenario, requests) ==
  FoldLeft(LAMBDA seen, r : Judge(scenario.ledger, seen, r), Unseen, InOrder(requests)).answers

-----------------------------------------------------------------------------
(* Correctness, over sets of worlds. *)

\* "Scope violations are expected to be 0 in Arm B, by construction" (arm_b.py:113-115):
\* whatever an agent selects passes its own scope, and no template, opt-out or
\* interlock rule stands against it.  It stays on the day it was scheduled for, and
\* is sendable at once or at the next opening.
AgentsStayInBounds(worlds) ==
  \A world \in worlds : \A action \in ActionsOf(world) :
    LET request == Request(action)
        arrival == AdjustedArrival(action)
        verdict == EvaluateAll(Verdicts(request, arrival, FALSE))
    IN  /\ R!EvaluateScope(request, Registered(AllActive), RiskItems(world)) = R!Passes
        /\ arrival >= action.scheduled /\ DayOf(arrival) = DayOf(action.scheduled)
        /\ \/ verdict = Admissible /\ ~IsQuiet(arrival)
           \/ verdict = Defer(NextWindowStart(arrival)) /\ IsQuiet(arrival)

\* A dispute silences for good what would offer the customer money off, and nothing
\* else: the agents that offer none go on.
DisputeSilencesOffers(worlds) ==
  \A world \in worlds : \A action \in ActionsOf(world) :
    IsDeny(EvaluateAll(Verdicts(Request(action), AdjustedArrival(action), TRUE)))
      <=> action.incentive > 0

\* The slice can be run: every request in it is about an item the slice holds, of the
\* customer named, so that a denial lands on the check it is meant for; no span has
\* more contended pairs, and no earlier one has as many.
SliceIsClosed(worlds, customers, windows) ==
  \A world \in worlds :
    LET s == BuildScenario(world, customers, windows)
        all == WindowSeq(ActionsOf(world))
        before == {i \in 1..(Len(all) - windows + 1) : all[i] < s.span[1]}
        Rival(i) == Score(ActionsOf(world), SubSeq(all, i, i + windows - 1))
    IN  /\ s.honest # {}
        /\ \A a \in s.honest : \E i \in s.ledger : i.risk = a.risk /\ i.customer = a.customer
        /\ \A i \in 1..(Len(all) - windows + 1) :
             Rival(i) <= Score(ActionsOf(world), s.span)
        /\ \A i \in before : Rival(i) < Score(ActionsOf(world), s.span)

\* The scripted requests are answered as their expectations say (scenario.py:228-330),
\* each of them once: the gates answer in the order the script counts on.
Expectations ==
  <<"channel_not_allowed", "incentive_ceiling_exceeded", "deferred",
    "competes", "competes", "competes",
    "rate_ceiling_exceeded", "rate_ceiling_exceeded", "rate_ceiling_exceeded",
    "agent_revoked">>

ScriptMeetsExpectations(worlds, customers, windows) ==
  \A world \in worlds :
    LET s == BuildScenario(world, customers, windows)
        script == RogueScript(s)
    IN  ~TooSmall(s.ledger) =>
          Answers(s, script) = [i \in 1..10 |-> <<RequestId(script[i]), Expectations[i]>>]

\* "Each target must be DISTINCT: [...] re-targeting one risk item would collide two
\* requests onto one id" (scenario.py:239-241).  The panel's flood re-targets the
\* burst: before it, the script's requests are denied under ids already admitted;
\* after it, the flood is.
FloodAnswersTwice(world, customers, windows) ==
  LET s == BuildScenario(world, customers, windows)
  IN  \A day \in {s.span[2], s.span[3], s.span[4]} :
        LET answers == ToSet(Answers(s, RogueScript(s) \o Flood(s, day)))
        IN  \E id \in {a[1] : a \in answers} :
              <<id, "competes">> \in answers /\ <<id, "agent_revoked">> \in answers

=============================================================================
