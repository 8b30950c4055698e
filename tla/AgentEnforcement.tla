-------------------------- MODULE AgentEnforcement --------------------------
(***************************************************************************)
(* The gate in front of the mediator: sampark/demo/runner.py asks          *)
(* evaluate_scope of sampark/registry/scope.py, then the rate ceiling of   *)
(* sampark/demo/enforcement.py, and strikes whoever is over it             *)
(* (sampark/registry/strikes.py); the chaos panel revokes an agent's key.  *)
(* Both read the agent's row, change their copy and write the whole copy   *)
(* back.  Served, the panel runs on a thread and a connection of its own   *)
(* (chaosConn); in the tests and the CLI it takes turns with the runner.   *)
(* The initial state leaves open which of the two it is.                   *)
(***************************************************************************)
EXTENDS Integers, FiniteSets

CONSTANTS
  Agents,
  Requests,
  AgentOf, IssuedAt,
  InScope,             \* requests that pass steps 4 to 10 of evaluate_scope
  MaxRequestsPerHour,  \* of each agent's capability scope
  Hour,                \* RATE_WINDOW, in ticks
  StrikeThreshold,     \* STRIKE_THRESHOLD
  NoOne

ASSUME EnforcementAssumption ==
  /\ IsFiniteSet(Requests) /\ NoOne \notin Requests \cup Agents
  /\ AgentOf \in [Requests -> Agents] /\ IssuedAt \in [Requests -> Int]
  /\ InScope \subseteq Requests
  /\ MaxRequestsPerHour \in [Agents -> Nat]
  /\ Hour \in Nat \ {0} /\ StrikeThreshold \in Nat \ {0}

VARIABLES
  chaosConn, \* whether the runner was given a chaos_conn; never changes
  agents,    \* the agents table: state and strike_count
  evaluated, \* requests the runner has taken up
  recorded,  \* requests whose instant is in the AgentRateWindow
  survivors, \* requests that were handed to the mediator
  runner,    \* the request in hand, how far it is, the copy of its agent
  panel,     \* the agent being revoked, and the copy of it
  late       \* history: requests handed on of an agent that was REVOKED by then
             \* and has been ever since

vars == <<chaosConn, agents, evaluated, recorded, survivors, runner, panel, late>>

-----------------------------------------------------------------------------
AgentRow == [state: {"ACTIVE", "REVOKED"}, strikes: Nat]
Fresh == [state |-> "ACTIVE", strikes |-> 0]

Waiting == [step |-> "wait", request |-> NoOne, copy |-> Fresh]
Shut == [agent |-> NoOne, copy |-> Fresh]

RequestsOf(a) == {r \in Requests : AgentOf[r] = a}

\* AgentRateWindow.count_in_window; instants may be recorded in any order.
CountInWindow(r) ==
  Cardinality({q \in recorded \cap RequestsOf(AgentOf[r]) : IssuedAt[q] > IssuedAt[r] - Hour})

\* Mistake: the ceiling is the first count that is denied, off by one.
AboveCeiling(r) == CountInWindow(r) > MaxRequestsPerHour[AgentOf[r]]

OverCeiling(r) == CountInWindow(r) >= MaxRequestsPerHour[AgentOf[r]]

\* Mistake: one strike too many is tolerated.
LateStrike(agent) ==
  [state |-> IF agent.strikes + 1 > StrikeThreshold THEN "REVOKED" ELSE "ACTIVE",
   strikes |-> agent.strikes + 1]

\* apply_strike of an ACTIVE agent.
ApplyStrike(agent) ==
  [state |-> IF agent.strikes + 1 >= StrikeThreshold THEN "REVOKED" ELSE "ACTIVE",
   strikes |-> agent.strikes + 1]

-----------------------------------------------------------------------------
Init ==
  /\ chaosConn \in BOOLEAN
  /\ agents = [a \in Agents |-> Fresh]
  /\ evaluated = {} /\ recorded = {} /\ survivors = {} /\ late = {}
  /\ runner = Waiting /\ panel = Shut

\* Mistake: a revoked agent's requests are still in scope.
EvaluateAnyAgent(r) ==
  /\ runner.step = "wait" /\ r \notin evaluated
  /\ chaosConn \/ panel = Shut
  /\ evaluated' = evaluated \cup {r}
  /\ runner' = IF r \in InScope THEN [runner EXCEPT !.step = "rate", !.request = r]
               ELSE runner
  /\ UNCHANGED <<chaosConn, agents, recorded, survivors, panel, late>>

\* Stage one.  A request of a revoked agent, or out of scope, is denied and
\* that is all: nobody is struck for it.
EvaluateScope(r) ==
  /\ runner.step = "wait" /\ r \notin evaluated
  /\ chaosConn \/ panel = Shut
  /\ evaluated' = evaluated \cup {r}
  /\ runner' = IF agents[AgentOf[r]].state = "ACTIVE" /\ r \in InScope
               THEN [runner EXCEPT !.step = "rate", !.request = r] ELSE runner
  /\ UNCHANGED <<chaosConn, agents, recorded, survivors, panel, late>>

\* Stage two: the agent is read again, and the request is recorded whether or
\* not it is over the ceiling.
EvaluateAgentRate ==
  LET r == runner.request
  IN  /\ runner.step = "rate"
      /\ recorded' = recorded \cup {r}
      /\ IF OverCeiling(r)
         THEN /\ runner' = [runner EXCEPT !.step = "strike", !.copy = agents[AgentOf[r]]]
              /\ UNCHANGED <<survivors, late>>
         ELSE /\ runner' = Waiting
              /\ survivors' = survivors \cup {r}
              /\ late' = late \cup {q \in {r} : agents[AgentOf[q]].state = "REVOKED"}
      /\ UNCHANGED <<chaosConn, agents, evaluated, panel>>

\* record_stage_two_strike.  apply_strike raises for an agent that is not
\* ACTIVE, and the exception ends the run.
Strike ==
  /\ runner.step = "strike"
  /\ IF runner.copy.state = "ACTIVE"
     THEN /\ agents' = [agents EXCEPT ![AgentOf[runner.request]] = ApplyStrike(runner.copy)]
          /\ runner' = Waiting
          /\ late' = {r \in late : agents'[AgentOf[r]].state = "REVOKED"}
     ELSE /\ runner' = [runner EXCEPT !.step = "failed"]
          /\ UNCHANGED <<agents, late>>
  /\ UNCHANGED <<chaosConn, evaluated, recorded, survivors, panel>>

\* Mistake: the panel does not wait for the runner, on a connection they share.
ReadAnyTime(a) ==
  /\ panel = Shut
  /\ agents[a].state = "ACTIVE"
  /\ panel' = [agent |-> a, copy |-> agents[a]]
  /\ UNCHANGED <<chaosConn, agents, evaluated, recorded, survivors, runner, late>>

\* REVOKE_AGENT_KEY: the panel reads the agent, and refuses one that is not ACTIVE.
ReadAgent(a) ==
  /\ panel = Shut
  /\ chaosConn \/ runner.step = "wait"
  /\ agents[a].state = "ACTIVE"
  /\ panel' = [agent |-> a, copy |-> agents[a]]
  /\ UNCHANGED <<chaosConn, agents, evaluated, recorded, survivors, runner, late>>

\* It saves what it read, REVOKED.
Revoke ==
  /\ panel # Shut
  /\ agents' = [agents EXCEPT ![panel.agent] = [panel.copy EXCEPT !.state = "REVOKED"]]
  /\ panel' = Shut
  /\ UNCHANGED <<chaosConn, evaluated, recorded, survivors, runner, late>>

Next ==
  \/ \E r \in Requests : EvaluateScope(r)
  \/ EvaluateAgentRate
  \/ Strike
  \/ \E a \in Agents : ReadAgent(a)
  \/ Revoke

Spec == Init /\ [][Next]_vars

-----------------------------------------------------------------------------
(* Correctness. *)

\* The variables hold what the rows and the runner can hold.
TypeOK ==
  /\ chaosConn \in BOOLEAN
  /\ agents \in [Agents -> AgentRow]
  /\ evaluated \subseteq Requests /\ recorded \subseteq evaluated
  /\ survivors \subseteq recorded \cap InScope /\ late \subseteq survivors
  /\ runner \in [step: {"wait", "rate", "strike", "failed"},
                 request: Requests \cup {NoOne}, copy: AgentRow]
  /\ panel \in [agent: Agents \cup {NoOne}, copy: AgentRow]

\* Requests of one agent that were handed on and lie in the hour ending at r.
ServedInHour(r) ==
  {q \in survivors \cap RequestsOf(AgentOf[r]) :
     IssuedAt[r] - Hour < IssuedAt[q] /\ IssuedAt[q] <= IssuedAt[r]}

\* No agent gets more requests through than its ceiling in any hour, in whatever
\* order their instants are recorded: a denied request counts like any other, and
\* so do requests recorded for later instants.
RateCeilingHolds ==
  \A r \in Requests : Cardinality(ServedInHour(r)) <= MaxRequestsPerHour[AgentOf[r]]

\* Requests of agent a that were found over its ceiling.
Over(a) == (recorded \ survivors) \cap RequestsOf(a)

\* An agent is struck once for every request over its ceiling and for nothing else
\* ("never struck for losing a fair contest", enforcement.py), and as many as the
\* threshold have revoked it, whatever the panel overwrites meanwhile.  A revocation
\* from a thread of its own can lose a strike, but never of an agent still ACTIVE.
StrikesExact ==
  runner.step = "wait" =>
    \A a \in Agents :
      /\ agents[a].state = "ACTIVE" \/ ~chaosConn =>
           agents[a].strikes = Cardinality(Over(a))
      /\ Cardinality(Over(a)) >= StrikeThreshold => agents[a].state = "REVOKED"

\* "Revocation is permanent in Phase 3: no QUARANTINED state, no reactivation
\* flow" (strikes.py:17-18), whoever revoked the agent and whatever it was doing.
RevocationPermanent ==
  [][\A a \in Agents : agents[a].state = "REVOKED" => agents'[a].state = "REVOKED"]_vars

\* What is left of that claim: only a panel with a thread of its own can lose its
\* revocation, to a strike of the runner, and never that of an agent with as many
\* requests over its ceiling as the threshold asks for.
RevocationLostOnlyInRace ==
  [][\A a \in Agents :
       agents[a].state = "REVOKED" /\ agents'[a].state = "ACTIVE" =>
         chaosConn /\ Cardinality(Over(a)) < StrikeThreshold]_vars

\* "Its next request cannot pass evaluate_scope" (runner.py, fire_chaos): of all the
\* requests of an agent, the mediator gets at most the one that had passed already
\* when the agent was revoked, and none where panel and runner take turns.
RevokedServesAtMostOne ==
  \A a \in Agents :
    Cardinality(late \cap RequestsOf(a)) <= IF chaosConn THEN 1 ELSE 0

=============================================================================
