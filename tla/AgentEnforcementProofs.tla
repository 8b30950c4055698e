----------------------- MODULE AgentEnforcementProofs -----------------------
(***************************************************************************)
(* What AgentEnforcement guarantees for every set of agents and requests,  *)
(* every ceiling, hour and threshold, whether the panel takes turns with   *)
(* the runner or has a thread and a connection of its own.                 *)
(***************************************************************************)
EXTENDS AgentEnforcement, FiniteSetTheorems, TLAPS

\* The request in hand was taken up and is in scope.
InHand == runner.step # "wait" => runner.request \in evaluated \cap InScope

Inv == TypeOK /\ InHand

LEMMA InvHolds == Spec => []Inv
<1>1. Init => Inv
  BY EnforcementAssumption DEF Init, Inv, TypeOK, InHand, AgentRow, Fresh, Waiting, Shut
<1>2. Inv /\ [Next]_vars => Inv'
  <2> SUFFICES ASSUME Inv, [Next]_vars PROVE Inv'
    OBVIOUS
  <2> USE EnforcementAssumption DEF Inv, TypeOK, InHand, AgentRow
  <2>1. ASSUME NEW r \in Requests, EvaluateScope(r) PROVE Inv'
    BY <2>1 DEF EvaluateScope
  <2>2. CASE EvaluateAgentRate
    <3>1. runner.request \in evaluated \cap InScope
      BY <2>2 DEF EvaluateAgentRate
    <3>2. agents[AgentOf[runner.request]] \in AgentRow
      BY <3>1
    <3>3. CASE OverCeiling(runner.request)
      <4>1. runner' = [runner EXCEPT !.step = "strike",
                                     !.copy = agents[AgentOf[runner.request]]]
        BY <2>2, <3>3 DEF EvaluateAgentRate
      <4>2. /\ recorded' = recorded \cup {runner.request}
            /\ UNCHANGED <<chaosConn, agents, evaluated, panel, survivors, late>>
        BY <2>2, <3>3 DEF EvaluateAgentRate
      <4>3. /\ runner' \in [step: {"wait", "rate", "strike", "failed"},
                            request: Requests \cup {NoOne}, copy: AgentRow]
            /\ runner'.request = runner.request
        BY <4>1, <3>2
      <4> QED
        BY <3>1, <4>2, <4>3
    <3>4. CASE ~OverCeiling(runner.request)
      BY <2>2, <3>1, <3>4 DEF EvaluateAgentRate, Waiting, Fresh
    <3> QED
      BY <3>3, <3>4
  <2>3. CASE Strike
    <3>1. ApplyStrike(runner.copy) \in AgentRow
      BY DEF ApplyStrike
    <3>2. CASE runner.copy.state = "ACTIVE"
      BY <2>3, <3>1, <3>2 DEF Strike, Waiting, Fresh
    <3>3. CASE runner.copy.state # "ACTIVE"
      BY <2>3, <3>3 DEF Strike
    <3> QED
      BY <3>2, <3>3
  <2>4. ASSUME NEW a \in Agents, ReadAgent(a) PROVE Inv'
    BY <2>4 DEF ReadAgent
  <2>5. CASE Revoke
    BY <2>5 DEF Revoke, Shut, Fresh
  <2>6. CASE UNCHANGED vars
    BY <2>6 DEF vars
  <2> QED
    BY <2>1, <2>2, <2>3, <2>4, <2>5, <2>6 DEF Next
<1> QED
  BY <1>1, <1>2, PTL DEF Spec

\* The variables always hold what the rows and the runner can hold; what the
\* mediator is handed is in scope and was counted.
THEOREM TypeCorrect == Spec => []TypeOK
BY InvHolds, PTL DEF Inv

-----------------------------------------------------------------------------
(* The rate ceiling: when a request is handed on, whatever was handed on in an *)
(* hour that it lies in had been counted against it.                           *)

LEMMA StepKeepsCeiling ==
  ASSUME Inv, RateCeilingHolds, EvaluateAgentRate
  PROVE  RateCeilingHolds'
<1> DEFINE q == runner.request
           counted == {p \in recorded \cap RequestsOf(AgentOf[q]) :
                         IssuedAt[p] > IssuedAt[q] - Hour}
<1> SUFFICES ASSUME NEW r \in Requests
             PROVE  Cardinality(ServedInHour(r)') <= MaxRequestsPerHour[AgentOf[r]]
  BY DEF RateCeilingHolds
<1>1. q \in Requests /\ survivors \subseteq recorded /\ recorded \subseteq Requests
  BY DEF Inv, TypeOK, InHand, EvaluateAgentRate
<1>2. /\ IsFiniteSet(counted) /\ IsFiniteSet(ServedInHour(r))
      /\ Cardinality(counted) \in Nat /\ Cardinality(ServedInHour(r)) \in Nat
      /\ MaxRequestsPerHour[AgentOf[r]] \in Nat
  <2>1. counted \subseteq Requests /\ ServedInHour(r) \subseteq Requests
    BY <1>1 DEF RequestsOf, ServedInHour
  <2> QED
    BY <2>1, FS_Subset, FS_CardinalityType, EnforcementAssumption
<1>3. Cardinality(ServedInHour(r)) <= MaxRequestsPerHour[AgentOf[r]]
  BY DEF RateCeilingHolds
<1>4. CASE ServedInHour(r)' = ServedInHour(r)
  BY <1>3, <1>4
<1>5. CASE ServedInHour(r)' # ServedInHour(r)
  <2>1. ~OverCeiling(q) /\ survivors' = survivors \cup {q}
    BY <1>5 DEF EvaluateAgentRate, ServedInHour
  <2>2. /\ ServedInHour(r)' = ServedInHour(r) \cup {q}
        /\ AgentOf[q] = AgentOf[r]
        /\ IssuedAt[q] <= IssuedAt[r]
    BY <2>1, <1>5 DEF ServedInHour, RequestsOf
  <2>3. ServedInHour(r) \subseteq counted
    BY <1>1, <2>2, EnforcementAssumption DEF ServedInHour, RequestsOf
  <2>4. Cardinality(ServedInHour(r)) <= Cardinality(counted)
    BY <2>3, <1>2, FS_Subset
  <2>5. Cardinality(counted) < MaxRequestsPerHour[AgentOf[r]]
    BY <2>1, <2>2, <1>2 DEF OverCeiling, CountInWindow
  <2>6. Cardinality(ServedInHour(r) \cup {q}) = IF q \in ServedInHour(r)
                                                THEN Cardinality(ServedInHour(r))
                                                ELSE Cardinality(ServedInHour(r)) + 1
    BY <1>2, FS_AddElement
  <2>7. /\ Cardinality(ServedInHour(r) \cup {q}) \in Nat
        /\ Cardinality(ServedInHour(r) \cup {q}) <= Cardinality(ServedInHour(r)) + 1
    BY <1>2, <2>6
  <2>8. Cardinality(ServedInHour(r) \cup {q}) <= MaxRequestsPerHour[AgentOf[r]]
    BY <1>2, <2>4, <2>5, <2>7
  <2> QED
    BY <2>2, <2>8
<1> QED
  BY <1>4, <1>5

\* No agent gets more requests through than its ceiling in any hour.
THEOREM CeilingCorrect == Spec => []RateCeilingHolds
<1>1. Init => RateCeilingHolds
  <2> SUFFICES ASSUME Init, NEW r \in Requests
               PROVE  Cardinality(ServedInHour(r)) <= MaxRequestsPerHour[AgentOf[r]]
    BY DEF RateCeilingHolds
  <2>1. ServedInHour(r) = {}
    BY DEF Init, ServedInHour
  <2>2. Cardinality(ServedInHour(r)) = 0
    BY <2>1, FS_EmptySet
  <2> QED
    BY <2>2, EnforcementAssumption
<1>2. Inv /\ RateCeilingHolds /\ [Next]_vars => RateCeilingHolds'
  <2> SUFFICES ASSUME Inv, RateCeilingHolds, [Next]_vars PROVE RateCeilingHolds'
    OBVIOUS
  <2>1. CASE EvaluateAgentRate
    BY <2>1, StepKeepsCeiling
  <2>2. CASE ~EvaluateAgentRate
    <3>1. survivors' = survivors
      BY <2>2 DEF Next, EvaluateScope, Strike, ReadAgent, Revoke, vars
    <3> QED
      BY <3>1 DEF RateCeilingHolds, ServedInHour
  <2> QED
    BY <2>1, <2>2
<1> QED
  BY <1>1, <1>2, InvHolds, PTL DEF Spec

-----------------------------------------------------------------------------
(* Strikes.  Between the recording of a request over the ceiling and its       *)
(* strike the agent is one strike short, and the runner's copy says which      *)
(* strike it will be.  Taking turns, whoever holds a copy of a row holds what   *)
(* the row says; otherwise the panel may take strikes back, but only of the    *)
(* agent it revokes, and the runner then writes the right number again.        *)

InTurn ==
  /\ panel = Shut \/ runner.step = "wait"
  /\ panel # Shut => panel.copy = agents[panel.agent]
  /\ runner.step = "rate" => agents[AgentOf[runner.request]].state = "ACTIVE"
  /\ runner.step = "strike" => runner.copy = agents[AgentOf[runner.request]]

Due(a) == IF runner.step \in {"strike", "failed"} /\ AgentOf[runner.request] = a
          THEN 1 ELSE 0

Counted(a) ==
  /\ agents[a].state = "ACTIVE" \/ ~chaosConn =>
       agents[a].strikes + Due(a) = Cardinality(Over(a))
  /\ agents[a].strikes >= StrikeThreshold => agents[a].state = "REVOKED"

CopyCounts ==
  runner.step = "strike" /\ runner.copy.state = "ACTIVE" =>
    runner.copy.strikes + 1 = Cardinality(Over(AgentOf[runner.request]))

StrikeInv ==
  /\ panel # Shut => panel.agent \in Agents
  /\ runner.step = "rate" => runner.request \notin recorded
  /\ ~chaosConn => InTurn
  /\ CopyCounts
  /\ \A a \in Agents : Counted(a)

\* A request over the ceiling makes one more to strike for, any other makes none.
LEMMA RateMakesDue ==
  ASSUME Inv, StrikeInv, EvaluateAgentRate, NEW a \in Agents
  PROVE  /\ Due(a) = 0
         /\ Due(a)' \in {0, 1}
         /\ OverCeiling(runner.request) /\ AgentOf[runner.request] = a => Due(a)' = 1
         /\ Cardinality(Over(a)) \in Nat
         /\ Cardinality(Over(a))' = Cardinality(Over(a)) + Due(a)'
<1> DEFINE r == runner.request
<1>1. /\ r \in Requests /\ r \in InScope /\ r \notin recorded
      /\ runner.step = "rate" /\ recorded' = recorded \cup {r}
      /\ survivors \subseteq recorded /\ recorded \subseteq Requests
  BY DEF EvaluateAgentRate, Inv, TypeOK, InHand, StrikeInv
<1>2. Over(a) \subseteq Requests /\ IsFiniteSet(Over(a)) /\ Cardinality(Over(a)) \in Nat
  BY <1>1, EnforcementAssumption, FS_Subset, FS_CardinalityType DEF Over
<1>3. Due(a) = 0
  BY <1>1 DEF Due
<1>4. CASE OverCeiling(r)
  <2>1. /\ survivors' = survivors
        /\ runner' = [runner EXCEPT !.step = "strike", !.copy = agents[AgentOf[r]]]
    BY <1>4 DEF EvaluateAgentRate
  <2>2. runner'.step = "strike" /\ runner'.request = r
    BY <2>1 DEF Inv, TypeOK
  <2>3. CASE AgentOf[r] = a
    <3>1. Over(a)' = Over(a) \cup {r} /\ r \notin Over(a)
      BY <1>1, <2>1, <2>3 DEF Over, RequestsOf
    <3>2. Cardinality(Over(a) \cup {r}) = Cardinality(Over(a)) + 1
      BY <1>2, <3>1, FS_AddElement
    <3>3. Due(a)' = 1
      BY <2>2, <2>3 DEF Due
    <3> QED
      BY <1>2, <1>3, <1>4, <2>3, <3>1, <3>2, <3>3
  <2>4. CASE AgentOf[r] # a
    <3>1. Over(a)' = Over(a)
      BY <1>1, <2>1, <2>4 DEF Over, RequestsOf
    <3>2. Due(a)' = 0
      BY <2>2, <2>4 DEF Due
    <3> QED
      BY <1>2, <1>3, <2>4, <3>1, <3>2
  <2> QED
    BY <2>3, <2>4
<1>5. CASE ~OverCeiling(r)
  <2>1. survivors' = survivors \cup {r} /\ runner' = Waiting
    BY <1>5 DEF EvaluateAgentRate
  <2>2. Over(a)' = Over(a)
    BY <1>1, <2>1 DEF Over
  <2>3. Due(a)' = 0
    BY <2>1 DEF Due, Waiting
  <2> QED
    BY <1>2, <1>3, <1>5, <2>2, <2>3
<1> QED
  BY <1>4, <1>5

LEMMA RateStep ==
  ASSUME Inv, StrikeInv, EvaluateAgentRate
  PROVE  StrikeInv'
<1> DEFINE r == runner.request
           b == AgentOf[r]
<1>1. /\ runner.step = "rate" /\ r \in Requests /\ b \in Agents /\ agents[b] \in AgentRow
      /\ UNCHANGED <<chaosConn, agents, panel>>
      /\ runner \in [step: {"wait", "rate", "strike", "failed"},
                     request: Requests \cup {NoOne}, copy: AgentRow]
  BY EnforcementAssumption DEF EvaluateAgentRate, Inv, TypeOK, InHand
<1>2. /\ OverCeiling(r) => runner' = [runner EXCEPT !.step = "strike", !.copy = agents[b]]
      /\ ~OverCeiling(r) => runner' = Waiting
  BY DEF EvaluateAgentRate
<1>3. /\ OverCeiling(r) => /\ runner'.step = "strike" /\ runner'.request = r
                           /\ runner'.copy = agents[b]
      /\ ~OverCeiling(r) => runner'.step = "wait"
  <2>1. Waiting.step = "wait"
    BY DEF Waiting
  <2>2. CASE OverCeiling(r)
    <3>1. runner' = [runner EXCEPT !.step = "strike", !.copy = agents[b]]
      BY <1>2, <2>2
    <3> QED
      BY <1>1, <2>2, <3>1
  <2> QED
    BY <1>2, <2>1, <2>2
<1>4. \A a \in Agents : Counted(a)'
  <2> SUFFICES ASSUME NEW a \in Agents PROVE Counted(a)'
    OBVIOUS
  <2>1. Counted(a)
    BY DEF StrikeInv
  <2>2. agents[a].strikes \in Nat
    BY DEF Inv, TypeOK, AgentRow
  <2> QED
    BY <1>1, <2>1, <2>2, RateMakesDue DEF Counted
<1>5. CopyCounts'
  <2> SUFFICES ASSUME OverCeiling(r), NEW a \in Agents, a = b, agents[a].state = "ACTIVE"
               PROVE  agents[a].strikes + 1 = Cardinality(Over(a))'
    BY <1>1, <1>3 DEF CopyCounts
  <2>1. Counted(a) /\ agents[a].strikes \in Nat
    BY <1>1 DEF StrikeInv, AgentRow
  <2>2. /\ Due(a) = 0 /\ Due(a)' = 1
        /\ Cardinality(Over(a))' = Cardinality(Over(a)) + Due(a)'
    BY RateMakesDue
  <2>3. agents[a].strikes = Cardinality(Over(a))
    BY <2>1, <2>2 DEF Counted
  <2> QED
    BY <2>2, <2>3
<1>6. (~chaosConn => InTurn)'
  BY <1>1, <1>3 DEF StrikeInv, InTurn
<1> QED
  BY <1>1, <1>3, <1>4, <1>5, <1>6 DEF StrikeInv

LEMMA StrikeWritten ==
  ASSUME Inv, StrikeInv, Strike, runner.copy.state = "ACTIVE"
  PROVE  StrikeInv'
<1> DEFINE b == AgentOf[runner.request]
<1>1. /\ runner.step = "strike" /\ UNCHANGED <<chaosConn, recorded, survivors, panel>>
      /\ b \in Agents /\ runner.copy \in AgentRow
      /\ runner' = Waiting /\ agents' = [agents EXCEPT ![b] = ApplyStrike(runner.copy)]
  BY EnforcementAssumption DEF Strike, Inv, InHand, TypeOK
<1>2. runner'.step = "wait"
  BY <1>1 DEF Waiting
<1>3. ASSUME NEW a \in Agents PROVE Counted(a)'
  <2>1. Over(a)' = Over(a) /\ Due(a)' = 0 /\ Due(a) = IF a = b THEN 1 ELSE 0
    BY <1>1, <1>2 DEF Over, Due
  <2>2. CASE a = b
    <3>1. agents'[a] = ApplyStrike(runner.copy)
      BY <1>1, <2>2 DEF Inv, TypeOK
    <3>2. /\ agents'[a].strikes = runner.copy.strikes + 1
          /\ agents'[a].strikes >= StrikeThreshold => agents'[a].state = "REVOKED"
          /\ agents'[a].strikes \in Nat
      BY <1>1, <3>1 DEF ApplyStrike, AgentRow
    <3>3. runner.copy.strikes + 1 = Cardinality(Over(a))
      BY <1>1, <2>2 DEF StrikeInv, CopyCounts
    <3> QED
      BY <2>1, <3>2, <3>3 DEF Counted
  <2>3. CASE a # b
    <3>1. agents'[a] = agents[a] /\ Counted(a)
      BY <1>1, <2>3 DEF Inv, TypeOK, StrikeInv
    <3> QED
      BY <1>1, <2>1, <2>3, <3>1 DEF Counted
  <2> QED
    BY <2>2, <2>3
<1>4. (~chaosConn => InTurn)'
  BY <1>1, <1>2 DEF StrikeInv, InTurn
<1> QED
  BY <1>1, <1>2, <1>3, <1>4 DEF StrikeInv, CopyCounts

\* The other steps neither record nor serve.
LEMMA OtherSteps ==
  ASSUME Inv, StrikeInv, [Next]_vars, ~EvaluateAgentRate,
         ~(Strike /\ runner.copy.state = "ACTIVE")
  PROVE  StrikeInv'
<1>1. /\ recorded \subseteq evaluated /\ agents \in [Agents -> AgentRow]
      /\ \A r \in Requests : AgentOf[r] \in Agents
      /\ \A a \in Agents : agents[a].strikes \in Nat
      /\ runner \in [step: {"wait", "rate", "strike", "failed"},
                     request: Requests \cup {NoOne}, copy: AgentRow]
  BY EnforcementAssumption DEF Inv, TypeOK, AgentRow
<1>2. ASSUME NEW r \in Requests, EvaluateScope(r) PROVE StrikeInv'
  <2>1. /\ runner.step = "wait" /\ r \notin recorded /\ (chaosConn \/ panel = Shut)
        /\ UNCHANGED <<chaosConn, agents, recorded, survivors, panel>>
        /\ \/ runner' = runner
           \/ /\ runner' = [runner EXCEPT !.step = "rate", !.request = r]
              /\ agents[AgentOf[r]].state = "ACTIVE"
    BY <1>1, <1>2 DEF EvaluateScope
  <2>2. /\ runner'.step \in {"wait", "rate"}
        /\ runner'.step = "rate" => /\ runner'.request = r
                                    /\ agents[AgentOf[r]].state = "ACTIVE"
    BY <1>1, <2>1
  <2>3. \A a \in Agents : Due(a)' = 0 /\ Due(a) = 0 /\ Over(a)' = Over(a)
    BY <2>1, <2>2 DEF Due, Over
  <2>4. \A a \in Agents : Counted(a)'
    BY <2>1, <2>3 DEF StrikeInv, Counted
  <2> QED
    BY <2>1, <2>2, <2>4 DEF StrikeInv, InTurn, CopyCounts
<1>3. CASE Strike
  <2>1. /\ runner.step = "strike" /\ UNCHANGED <<chaosConn, agents, recorded, survivors, panel>>
        /\ runner' = [runner EXCEPT !.step = "failed"]
    BY <1>3 DEF Strike
  <2>2. runner'.step = "failed" /\ runner'.request = runner.request
    BY <1>1, <2>1
  <2>3. \A a \in Agents : Due(a)' = Due(a) /\ Over(a)' = Over(a)
    BY <2>1, <2>2 DEF Due, Over
  <2>4. \A a \in Agents : Counted(a)'
    BY <2>1, <2>3 DEF StrikeInv, Counted
  <2> QED
    BY <2>1, <2>2, <2>4 DEF StrikeInv, InTurn, CopyCounts
<1>4. ASSUME UNCHANGED <<recorded, survivors, runner>>
      PROVE  /\ \A a \in Agents : Due(a)' = Due(a) /\ Over(a)' = Over(a)
             /\ CopyCounts'
  <2>1. \A a \in Agents : Due(a)' = Due(a) /\ Over(a)' = Over(a)
    BY <1>4 DEF Due, Over
  <2>2. CopyCounts'
    BY <1>4 DEF StrikeInv, CopyCounts, Over
  <2> QED
    BY <2>1, <2>2
<1>5. ASSUME NEW a \in Agents, ReadAgent(a) PROVE StrikeInv'
  <2>1. /\ panel' = [agent |-> a, copy |-> agents[a]]
        /\ chaosConn \/ runner.step = "wait"
        /\ UNCHANGED <<chaosConn, agents, recorded, survivors, runner>>
    BY <1>5 DEF ReadAgent
  <2>2. panel'.agent = a /\ panel'.copy = agents[a]
    BY <2>1
  <2>3. \A c \in Agents : Counted(c)'
    BY <1>4, <2>1 DEF StrikeInv, Counted
  <2>4. (~chaosConn => InTurn)'
    BY <2>1, <2>2 DEF StrikeInv, InTurn
  <2> QED
    BY <1>4, <2>1, <2>2, <2>3, <2>4 DEF StrikeInv
<1>6. CASE Revoke
  <2>1. /\ panel # Shut /\ panel' = Shut /\ panel.agent \in Agents
        /\ UNCHANGED <<chaosConn, recorded, survivors, runner>>
        /\ agents' = [agents EXCEPT ![panel.agent] =
                        [panel.copy EXCEPT !.state = "REVOKED"]]
        /\ panel.copy \in AgentRow
    BY <1>6 DEF Revoke, StrikeInv, Inv, TypeOK
  <2>2. agents'[panel.agent] = [panel.copy EXCEPT !.state = "REVOKED"]
    BY <1>1, <2>1
  <2>3. /\ agents'[panel.agent].state = "REVOKED"
        /\ agents'[panel.agent].strikes = panel.copy.strikes
    BY <2>1, <2>2 DEF AgentRow
  <2>4. ASSUME NEW a \in Agents PROVE Counted(a)'
    <3>1. CASE a = panel.agent
      <4>1. ~chaosConn => agents'[a].strikes = agents[a].strikes
        BY <2>1, <2>3, <3>1 DEF StrikeInv, InTurn
      <4> QED
        BY <1>4, <2>1, <2>3, <3>1, <4>1 DEF StrikeInv, Counted
    <3>2. CASE a # panel.agent
      <4>1. agents'[a] = agents[a]
        BY <1>1, <2>1, <3>2
      <4> QED
        BY <1>4, <2>1, <4>1 DEF StrikeInv, Counted
    <3> QED
      BY <3>1, <3>2
  <2>5. (~chaosConn => InTurn)'
    BY <2>1 DEF StrikeInv, InTurn
  <2> QED
    BY <1>4, <2>1, <2>4, <2>5 DEF StrikeInv
<1>7. CASE UNCHANGED vars
  BY <1>4, <1>7 DEF vars, StrikeInv, InTurn, Counted
<1> QED
  BY <1>2, <1>3, <1>5, <1>6, <1>7 DEF Next

LEMMA StrikeInvHolds == Spec => []StrikeInv
<1>1. Init => StrikeInv
  <2> SUFFICES ASSUME Init PROVE StrikeInv
    OBVIOUS
  <2>1. \A a \in Agents : Over(a) = {} /\ Due(a) = 0
    BY DEF Init, Over, Due, Waiting
  <2>2. \A a \in Agents : agents[a].strikes = 0 /\ Cardinality(Over(a)) = 0
    BY <2>1, FS_EmptySet DEF Init, Fresh
  <2>3. \A a \in Agents : Counted(a)
    BY <2>1, <2>2, EnforcementAssumption DEF Counted
  <2>4. panel = Shut /\ runner.step = "wait"
    BY DEF Init, Waiting
  <2> QED
    BY <2>3, <2>4 DEF StrikeInv, InTurn, CopyCounts
<1>2. Inv /\ StrikeInv /\ [Next]_vars => StrikeInv'
  BY RateStep, StrikeWritten, OtherSteps
<1> QED
  BY <1>1, <1>2, InvHolds, PTL DEF Spec

\* Whenever the runner has no request in hand, an agent that is ACTIVE has exactly one
\* strike for each of its requests over the ceiling, and one with as many such requests
\* as the threshold asks for is REVOKED, whatever revocations came between.
THEOREM StrikesCorrect == Spec => []StrikesExact
<1>1. Inv /\ StrikeInv => StrikesExact
  <2> SUFFICES ASSUME Inv, StrikeInv, runner.step = "wait", NEW a \in Agents
               PROVE  /\ agents[a].state = "ACTIVE" \/ ~chaosConn =>
                           agents[a].strikes = Cardinality(Over(a))
                      /\ Cardinality(Over(a)) >= StrikeThreshold =>
                           agents[a].state = "REVOKED"
    BY DEF StrikesExact
  <2>1. Due(a) = 0 /\ agents[a].strikes \in Nat /\ agents[a].state \in {"ACTIVE", "REVOKED"}
    BY DEF Due, Inv, TypeOK, AgentRow
  <2>2. Counted(a)
    BY DEF StrikeInv
  <2> QED
    BY <2>1, <2>2 DEF Counted
<1> QED
  BY <1>1, InvHolds, StrikeInvHolds, PTL

\* A revocation is lost only where the panel has a thread of its own, and then never
\* that of an agent with as many requests over its ceiling as the threshold asks for:
\* the strike that overwrites the revocation carries the right number.
THEOREM RevocationStays == Spec => RevocationLostOnlyInRace
<1>1. Inv /\ StrikeInv /\ [Next]_vars =>
        [\A a \in Agents : agents[a].state = "REVOKED" /\ agents'[a].state = "ACTIVE" =>
           chaosConn /\ Cardinality(Over(a)) < StrikeThreshold]_vars
  <2> SUFFICES ASSUME Inv, StrikeInv, Next, NEW a \in Agents,
                      agents[a].state = "REVOKED", agents'[a].state = "ACTIVE"
               PROVE  chaosConn /\ Cardinality(Over(a)) < StrikeThreshold
    OBVIOUS
  <2>1. CASE Strike
    <3> DEFINE b == AgentOf[runner.request]
    <3>1. /\ runner.step = "strike" /\ runner.copy.state = "ACTIVE" /\ runner.copy \in AgentRow
          /\ agents' = [agents EXCEPT ![b] = ApplyStrike(runner.copy)]
      BY <2>1 DEF Strike, Inv, TypeOK
    <3>2. a = b /\ agents'[a] = ApplyStrike(runner.copy)
      BY <3>1 DEF Inv, TypeOK
    <3>3. runner.copy.strikes + 1 < StrikeThreshold
      BY <3>1, <3>2, EnforcementAssumption DEF ApplyStrike, AgentRow
    <3>4. runner.copy.strikes + 1 = Cardinality(Over(a))
      BY <3>1, <3>2 DEF StrikeInv, CopyCounts
    <3>5. chaosConn
      BY <3>1, <3>2 DEF StrikeInv, InTurn, Inv, TypeOK
    <3> QED
      BY <3>3, <3>4, <3>5
  <2>2. CASE Revoke
    <3>1. /\ agents' = [agents EXCEPT ![panel.agent] =
                          [panel.copy EXCEPT !.state = "REVOKED"]]
          /\ panel.copy \in AgentRow
      BY <2>2 DEF Revoke, Inv, TypeOK
    <3> QED
      BY <3>1 DEF Inv, TypeOK, AgentRow
  <2>3. CASE agents' = agents
    BY <2>3
  <2> QED
    BY <2>1, <2>2, <2>3 DEF Next, EvaluateScope, EvaluateAgentRate, ReadAgent
<1> QED
  BY <1>1, InvHolds, StrikeInvHolds, PTL DEF Spec, RevocationLostOnlyInRace

-----------------------------------------------------------------------------
(* What a revoked agent still gets: the request that passed evaluate_scope     *)
(* before, if there is one, and then nothing until it is ACTIVE again.         *)

LateInv ==
  /\ \A r \in late : agents[AgentOf[r]].state = "REVOKED"
  /\ runner.step = "rate" => late \cap RequestsOf(AgentOf[runner.request]) = {}
  /\ \A r, q \in late : AgentOf[r] = AgentOf[q] => r = q
  /\ ~chaosConn => late = {}

LEMMA LateStep == Inv /\ StrikeInv /\ LateInv /\ [Next]_vars => LateInv'
<1> SUFFICES ASSUME Inv, StrikeInv, LateInv, [Next]_vars PROVE LateInv'
  OBVIOUS
<1>1. /\ agents \in [Agents -> AgentRow] /\ late \subseteq Requests
      /\ \A r \in Requests : AgentOf[r] \in Agents
      /\ runner \in [step: {"wait", "rate", "strike", "failed"},
                     request: Requests \cup {NoOne}, copy: AgentRow]
      /\ runner.step # "wait" => runner.request \in Requests
  BY EnforcementAssumption DEF Inv, TypeOK, InHand
<1>2. ASSUME NEW r \in Requests, EvaluateScope(r) PROVE LateInv'
  <2>1. /\ UNCHANGED <<chaosConn, agents, late>>
        /\ \/ runner' = runner
           \/ /\ runner' = [runner EXCEPT !.step = "rate", !.request = r]
              /\ agents[AgentOf[r]].state = "ACTIVE"
    BY <1>2 DEF EvaluateScope
  <2>2. CASE runner' = runner
    BY <2>1, <2>2 DEF LateInv
  <2>3. CASE runner'.request = r /\ agents[AgentOf[r]].state = "ACTIVE"
    BY <2>1, <2>3 DEF LateInv, RequestsOf
  <2> QED
    BY <1>1, <2>1, <2>2, <2>3
<1>3. CASE EvaluateAgentRate
  <2> DEFINE r == runner.request
  <2>1. /\ runner.step = "rate" /\ r \in Requests /\ UNCHANGED <<chaosConn, agents>>
        /\ late' \in {late, late \cup {q \in {r} : agents[AgentOf[q]].state = "REVOKED"}}
    BY <1>1, <1>3 DEF EvaluateAgentRate
  <2>2. runner'.step # "rate"
    <3>1. \/ runner' = [runner EXCEPT !.step = "strike", !.copy = agents[AgentOf[runner.request]]]
          \/ runner' = Waiting
      BY <1>3 DEF EvaluateAgentRate
    <3>2. runner' = Waiting => runner'.step = "wait"
      BY DEF Waiting
    <3>3. runner' # Waiting => runner'.step = "strike"
      BY <1>1, <3>1
    <3> QED
      BY <3>2, <3>3
  <2>3. ~chaosConn => agents[AgentOf[r]].state = "ACTIVE"
    BY <2>1 DEF StrikeInv, InTurn
  <2>4. /\ late' \subseteq late \cup {r}
        /\ r \in late' => r \in late \/ agents[AgentOf[r]].state = "REVOKED"
    BY <2>1
  <2>5. \A q \in late : AgentOf[q] # AgentOf[r]
    BY <1>1, <2>1 DEF LateInv, RequestsOf
  <2>6. \A q \in late' : agents'[AgentOf[q]].state = "REVOKED"
    BY <2>1, <2>4 DEF LateInv
  <2>7. \A p, q \in late' : AgentOf[p] = AgentOf[q] => p = q
    BY <2>4, <2>5 DEF LateInv
  <2>8. ~chaosConn' => late' = {}
    BY <2>1, <2>3, <2>4 DEF LateInv
  <2> QED
    BY <2>2, <2>6, <2>7, <2>8 DEF LateInv
<1>4. CASE Strike
  <2>1. /\ late' \subseteq late /\ UNCHANGED chaosConn /\ runner.step = "strike"
        /\ \/ runner' = Waiting /\ \A q \in late' : agents'[AgentOf[q]].state = "REVOKED"
           \/ runner' = [runner EXCEPT !.step = "failed"] /\ UNCHANGED agents
    BY <1>4 DEF Strike
  <2>2. runner'.step # "rate"
    BY <1>1, <2>1 DEF Waiting
  <2>3. \A q \in late' : agents'[AgentOf[q]].state = "REVOKED"
    BY <2>1 DEF LateInv
  <2> QED
    BY <2>1, <2>2, <2>3 DEF LateInv
<1>5. ASSUME NEW a \in Agents, ReadAgent(a) PROVE LateInv'
  BY <1>5 DEF ReadAgent, LateInv
<1>6. CASE Revoke
  <2>1. /\ UNCHANGED <<chaosConn, runner, late>> /\ panel.copy \in AgentRow
        /\ agents' = [agents EXCEPT ![panel.agent] =
                        [panel.copy EXCEPT !.state = "REVOKED"]]
    BY <1>6 DEF Revoke, Inv, TypeOK
  <2>2. \A a \in Agents : agents[a].state = "REVOKED" => agents'[a].state = "REVOKED"
    BY <1>1, <2>1 DEF AgentRow
  <2> QED
    BY <1>1, <2>1, <2>2 DEF LateInv
<1>7. CASE UNCHANGED vars
  BY <1>7 DEF vars, LateInv
<1> QED
  BY <1>2, <1>3, <1>4, <1>5, <1>6, <1>7 DEF Next

\* Of the requests of a revoked agent the mediator gets at most the one that had passed
\* evaluate_scope when the revocation was written, and none where panel and runner take
\* turns, for every number of agents and requests.
THEOREM RevokedServedOnce == Spec => []RevokedServesAtMostOne
<1>1. Init => LateInv
  BY DEF Init, LateInv, Waiting
<1>2. Inv /\ LateInv => RevokedServesAtMostOne
  <2> SUFFICES ASSUME Inv, LateInv, NEW a \in Agents
               PROVE  Cardinality(late \cap RequestsOf(a)) <= IF chaosConn THEN 1 ELSE 0
    BY DEF RevokedServesAtMostOne
  <2> DEFINE S == late \cap RequestsOf(a)
  <2>1. CASE S = {}
    <3>1. Cardinality(S) = 0
      BY <2>1, FS_EmptySet
    <3> QED
      BY <3>1
  <2>2. CASE S # {}
    <3>1. PICK r \in S : TRUE
      BY <2>2
    <3>2. S = {r} /\ chaosConn
      BY <3>1 DEF LateInv, RequestsOf, Inv, TypeOK
    <3>3. Cardinality({r}) = 1
      BY FS_Singleton
    <3> QED
      BY <3>2, <3>3
  <2> QED
    BY <2>1, <2>2
<1> QED
  BY <1>1, <1>2, LateStep, InvHolds, StrikeInvHolds, PTL DEF Spec

=============================================================================
