---------------------------- MODULE AgentRegistry ----------------------------
(***************************************************************************)
(* The registry: sampark/registry/store.py's registration of an agent and  *)
(* its capability scope, and the ten checks of sampark/registry/scope.py   *)
(* on a request, in their order, as functions of the two tables.           *)
(*                                                                         *)
(* A registry is a record of the tables agents and capability_scopes, each *)
(* a function of the agents it has a row for.  AgentEnforcement models     *)
(* what concurrent strikes and revocations do to the agents' rows.         *)
(***************************************************************************)
EXTENDS Integers, FiniteSets, FiniteSetsExt

NoRow == [none |-> TRUE]
Empty == [agents |-> <<>>, scopes |-> <<>>]

RowIn(table, a) == IF a \in DOMAIN table THEN table[a] ELSE NoRow
WithRow(table, a, row) == [b \in DOMAIN table \cup {a} |-> IF b = a THEN row ELSE table[b]]

Free(reg, a) == RowIn(reg.agents, a) = NoRow /\ RowIn(reg.scopes, a) = NoRow

\* register: the registry after it and whether it raised.  The two INSERTs are one
\* transaction, except on an autocommit connection (every one that sim/arm_b.py and
\* the demo open), which may be lost between them.
Register(reg, a, row, scope, lost) ==
  IF Free(reg, a)
  THEN [reg |-> [agents |-> WithRow(reg.agents, a, row),
                 scopes |-> IF lost THEN reg.scopes ELSE WithRow(reg.scopes, a, scope)],
        raised |-> lost]
  ELSE [reg |-> reg,
        raised |-> RowIn(reg.agents, a) # row \/ RowIn(reg.scopes, a) # scope]

\* save_agent: only state and strike_count are written, and only to a row that exists.
SaveAgent(reg, a, row) ==
  IF a \in DOMAIN reg.agents
  THEN [reg EXCEPT !.agents[a].state = row.state, !.agents[a].strikes = row.strikes]
  ELSE reg

-----------------------------------------------------------------------------
(* The ten checks of evaluate_scope.  A check asks nothing about a row that an  *)
(* earlier one has found missing.                                               *)

Reasons == <<"unknown_agent", "invalid_signature", "agent_revoked", "no_scope_on_record",
             "unknown_risk_item", "customer_risk_item_mismatch", "channel_not_allowed",
             "intent_not_allowed", "risk_source_not_allowed", "incentive_ceiling_exceeded">>

Fails(check, r, reg, items) ==
  LET agent == RowIn(reg.agents, r.agent)
      scope == RowIn(reg.scopes, r.agent)
      item == RowIn(items, r.risk)
      Known(row) == row # NoRow
  IN  CASE check = 1 -> ~Known(agent)
        [] check = 2 -> Known(agent) /\ r.signedFor # agent.key
        [] check = 3 -> Known(agent) /\ agent.state # "ACTIVE"
        [] check = 4 -> ~Known(scope)
        [] check = 5 -> ~Known(item)
        [] check = 6 -> Known(item) /\ item.customer # r.customer
        [] check = 7 -> Known(scope) /\ r.channel \notin scope.channels
        [] check = 8 -> Known(scope) /\ r.intent \notin scope.intents
        [] check = 9 -> Known(scope) /\ Known(item) /\ item.source \notin scope.sources
        [] check = 10 -> Known(scope) /\ r.incentive > scope.incentive

\* Check 4 is no denial: the code raises RuntimeError there.
Passes == "passes"
EvaluateScope(r, reg, items) ==
  LET failing == {c \in DOMAIN Reasons : Fails(c, r, reg, items)}
  IN  IF failing = {} THEN Passes ELSE Reasons[Min(failing)]

-----------------------------------------------------------------------------
(* Correctness, over sets of agents' rows, scopes and requests. *)

\* "Re-registering an agent_id with identical fields is a safe, idempotent no-op;
\* re-registering it with any differing field raises [...] and writes nothing"
\* (store.py:12-16), also when the agent was struck or revoked in between: its own
\* registration then differs from its row.
RegistrationHolds(rows, scopes) ==
  \A first, saved, again \in rows, s, t \in scopes :
    LET reg == Register(Empty, 1, first, s, FALSE).reg
        struck == SaveAgent(reg, 1, saved)
        after == Register(struck, 1, again, t, FALSE)
    IN  /\ after.reg = struck
        /\ after.raised <=> (t # s \/ again # [first EXCEPT !.state = saved.state,
                                                            !.strikes = saved.strikes])

\* A revoked agent stays out: no registration, of any row under its name, makes one
\* of its requests pass.
RegistrationRevivesNobody(rows, scopes, requests, items) ==
  \A first, again \in rows, s, t \in scopes, r \in requests :
    LET reg == Register(Empty, 1, first, s, FALSE).reg
        revoked == SaveAgent(reg, 1, [first EXCEPT !.state = "REVOKED"])
    IN  EvaluateScope(r, Register(revoked, 1, again, t, FALSE).reg, items) # Passes

\* What a request learns of the scope it learns only under a verified key: a request
\* whose signature fails is told nothing else, whatever is wrong with it.
NothingBeforeTheSignature(rows, scopes, requests, items) ==
  \A row \in rows, s \in scopes, r \in requests :
    LET reg == Register(Empty, 1, row, s, FALSE).reg
    IN  EvaluateScope(r, reg, items) \in {"unknown_agent", "invalid_signature"}
          <=> (r.agent # 1 \/ r.signedFor # row.key)

\* "Registration writes `agents` and `capability_scopes` together in one ordinary
\* transaction" (store.py:9-10): not on an autocommit connection.  Lost between the
\* two, it leaves an ACTIVE agent with no scope: evaluate_scope raises on its next
\* request, and registering it again raises too, for good.
LostRegistrationStays(row, scope, r, items) ==
  LET reg == Register(Empty, 1, row, scope, TRUE).reg
      again == Register(reg, 1, row, scope, FALSE)
  IN  again.raised /\ again.reg = reg
      /\ EvaluateScope(r, reg, items) = "no_scope_on_record"

=============================================================================
