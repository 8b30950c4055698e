# SAMPARK in TLA+

SAMPARK mediates between recovery agents (cart recovery, payment retry, mandate
recovery, receivables) that all want to contact the same customers. An agent
sends a signed *grant request*; once per window (a calendar day in IST, decided
at 09:00) the mediator filters the requests by hard policy, ranks what is left,
and issues at most one *grant* per customer, which reserves a contact slot and
incentive margin. A grant is then carried out through a provider and confirmed,
rolled back or expired. Everything is written to a hash-chained audit log, which
a demo shows live; a second product flow takes failed Razorpay payments in.

This directory specifies the parts of it where interleavings, partial failures
and long sequences of calls matter, checks them with TLC, and proves the main
safety properties with TLAPS for all values of the constants. The pure parts
(policy, registry checks, evidence and experiment arithmetic) are functions that
TLC evaluates against reference definitions.

## 1. Inventory

| component | state | operations | what makes it correct |
|---|---|---|---|
| ledger (`budget/store.py`, `mediation/lifecycle.py`, `budget/{margin,contact,windows,expiry}.py`) | grants, claims, merchant pool per window, customer pool per customer and window | issue_grant, execute, confirm, rollback, sweep_expired | contact caps over every rolling interval, one live grant per customer and day, pools exact and never overdrawn, settled means settled |
| issuance on PostgreSQL (`budget/issuance.py`, `schema.sql`) | the same tables, `contact_states`, one transaction per caller | issue_grant: up to five SERIALIZABLE attempts | behaves as the atomic ledger; every call returns; answers are truthful |
| lifecycle on PostgreSQL (`budget/postgres_ledger.py`) | the same tables | execute_grant, confirm_grant, rollback_grant, expire_grant, each several autocommit UPDATEs | behaves as the atomic ledger unless a connection is lost; then it holds too much, never too little |
| runner and provider (`demo/runner.py`, `demo/provider.py`) | grant in hand, attempts, armed failures, accepted sends | run_window, _execute_grant, send, arm/disarm, chaos controls | one contact per grant, compensation after timeouts, injected failures hit one grant |
| registry and enforcement (`registry/*`, `demo/enforcement.py`) | agents (state, strikes), scopes, rate windows | register, evaluate_scope, evaluate_agent_rate, record_stage_two_strike, revoke | hourly ceiling, exact strikes, what a revocation still lets through |
| hard policy and its compiler (`policy/*`) | none; the activated rules | evaluate_all, parse, validate, compile, compose | denials before deferrals, compiled rules only restrict |
| filter, allocator, service (`mediation/{hard_filter,service}.py`, `allocator/*`) | candidates, deferral counts, outcomes of a window | filter_candidates, allocate_window, mediate_window | one outcome per request, bounded deferral, no grant the policy forbids, safe rerun after a model failure |
| audit (`audit/*`) | the chain in `audit_events` | append, verify_chain, explain_request, sinks | one event per fact, no fork, the log explains every grant |
| demo session and stream (`ui/{session,sse,routes}.py`, `demo/isolation.py`) | the session, its runner thread, its schema, SSE cursors | start, reset, fire_chaos, stream, sweep | nothing runs on a dropped schema, no event is missed, nothing reaches the protected schema |
| product flow (`ui/razorpay_session.py`, `ui/routes_razorpay.py`, `demo/razorpay_product.py`, `integrations/*`) | the session, webhook keys, the customers found, outcomes | start, create link, webhook, poll, forward | one message per payment, caps per customer row, no row shared by strangers, only a test account is written unless the check is switched off |
| identity (`identity/resolution.py`) | none (a union-find per call) | resolve_customer_ids | the same person of a batch gets one id; signal by signal, strangers never do |
| agents and scenario (`agents/*`, `demo/scenario.py`) | none | proposing, selecting, scripting | in scope, closed slice, script meets its own expectations |
| models (`models/*`, `sim/calibration.py`) | artifacts | fitting counts, availability, scoring | an available model can score what it is asked |
| attribution and experiment (`attribution/*`, `sim/{holdout,arm_*,environment}.py`) | credits, observations | assign, observe, cleanup, compute_credit, insert_credit | nested and balanced holdout, one observation per item, one credit per grant |
| evidence (`sim/{gate,metrics,mediation_metrics,optimality_gap,sensitivity,abh_table}.py`) | result files | gate, sweep, tables | results compare like with like |
| root causes, contracts, scripts | constants | look-up | static |

The runner calls the registry gate, then the mediator, which calls the ledger (in
memory in the simulator, PostgreSQL in the demo); it then executes each grant
against the provider and the lifecycle calls, and appends to the audit log after
each. The chaos panel runs on HTTP threads, with a database connection of its own,
while the runner is running; the event stream polls the audit log from other
connections. The simulator's arm B uses the same mediator in a day-by-day loop that
carries deferred requests forward. The product flow holds one lock for a whole
call and drives the same mediator with one request at a time.

What is hard here: concurrent issuance transactions; lifecycle calls that commit
statement by statement; sends that are accepted and then time out; chaos controls
from other threads; windows filled in any order under rolling caps; deferral from
window to window; a scorer that fails in mid-window; appends from several
connections to one chain; resets under a live runner; a payment that arrives by
webhook and poll, several times. `PROJECT.json` lists these hazards with their
lines and the properties that watch them.

## 2. Modules

### ContactLedger

The abstract ledger: `grants`, `merchant` and `customer` are the grants table and
the two pools (reserved and spent). Each call is one atomic action: `Issue` is
`InMemoryGrantIssuer.issue_grant`, `Execute`, `Confirm`, `Rollback` and `Expire`
are those of `lifecycle.py`; a refused or repeated call is a stuttering step. Time
is ticks since midnight of day 0, a window is `DayLen` ticks, and caps are
counted, as in the code, *as of the opening of the window* over everything later
than one day (`WeekDays` days) before it.

It abstracts in three ways: money is in units of incentive; the requested ceiling
after the allocator's own downgrade (`ask`) is any amount up to what the agent asked
for; and the instant a grant is to be sent is any instant of the window's sendable
band.

### GrantIssuance

`issuance.py` as a transaction: `Begin` (snapshot and idempotency check),
`LockRequest`, `LockMerchant`, `LockCustomer` (with the decisions on margin and
caps), `InsertClaim`, `WriteCache`, `Commit`, and 40001 either because a row is
stale (`RowIsStale`), because two transactions read around one another
(`ReadsConflict`), or for no good reason (`FalsePositive`). `Start` is the call,
with up to `MaxAttempts` attempts, and `Drop` a lost connection. What is assumed
of PostgreSQL is listed at the head of the module. Lifecycle calls are one step
here.

### GrantExecution

The runner's `_execute_grant`, the provider and the lifecycle calls taken apart
into their UPDATEs (`Statement`). `Issue` is a whole issuance transaction, which
may commit between any two statements; `Press` is the chaos panel on its own
thread, `ArmNext` the operator of the product flow; `StartExpire` is
`expire_grant`, which nothing in the program calls. `Lose` is a connection lost
between two statements, which ends the run.

### AgentEnforcement

The gate of `run_window`: `EvaluateScope`, `EvaluateAgentRate`, `Strike`, one
request at a time, and the panel's revocation as the read (`ReadAgent`) and the
write (`Revoke`) that it is. `chaosConn` says whether the panel has a connection
and thread of its own, as it always has when the demo is served (ui/session.py), or
takes turns, as in the tests and the CLI; initial states differ in it, so that every
run and theorem is about both. `late` is a history variable, not the code's: what was
handed on of agents that were revoked by then.

### MediationWindow

The decision path day after day, in the window loop that `sim/arm_b.py` and the
demo runner share. `hand` holds the candidates of the window (carried forward and
arrivals) and `verdict` what the attempt in progress has decided of each.
`Filter` is one turn of `filter_candidates`, with the facts read at that moment;
`Allocate` is one customer in `allocate_window`: score, rank with the aging bonus,
downgrade and score again, issue down the ranking until one is granted, defer or
deny the rest. `Decide` is the end of `mediate_window`, `Execute` and `Settle` the
runner's execution in brief (in full in `GrantExecution`), `NextWindow` the loop's
next day. `ScorerRaises` is a scoring after `KillModel`: the first in a window
discards what the attempt has decided, though not what it has issued, and mediates
the window again with the heuristic; the second ends the run. `OptOut` and
`Dispute` are the panel's, between any two steps.

Scores are any scores, anew at every scoring, which covers each scorer, noise, and
`fifo_mode`, whose order is one of the possible rankings. The hard rules appear by
what they do to a request from day to day (all eleven, exactly, are in
`HardPolicy`). A request may arrive with an instant in the evening blackout; the
early morning half of quiet hours does not occur, because `_adjusted_arrival` moves
such arrivals to 09:00 and the scripted requests have none. The horizon is arm B's,
`LastWindow`; the demo stops after a fixed number of windows and makes no promise
about what is deferred then.

### AuditChain

`audit/chain.py`: `append` as the steps it takes on a connection — open, take the
database-wide advisory lock, probe for the event, read the head, insert (which
takes a sequence number that a rollback does not give back), commit or be refused.
Several connections append to the tables of several schemas; `Rollback` is a lost
connection, `DropTable` a dropped schema. A row's hash is represented by its event
id, because the hash covers it. `ChainVerifies` is what `verify_chain` should always
find, and more: that no fork or duplicate is ever even attempted.

### DemoSession

Extends `AuditChain` with everything that meets in the chain: `DemoSession.start`,
`reset`, `_teardown` and `fire_chaos` with their lock (`Join`, `Drop`, `Close`,
`Create`, `Launch`, and `CreateFails` for a start that raises), the runner's thread
as its list of business writes and events (`Thread`), the panel's revocation over
its own connection, the model kill, the process that dies and sweeps stale schemas
when it comes back (`Restart`), and a client of `/api/stream` (`Connect`, `Stream`,
`Disconnect`, `Reconnect`). `path` is the search_path of the runner's connection:
after a DROP its statements have nowhere to go.

### RazorpayGateway and RazorpayIntake

`RazorpayGateway` is `integrations/gateway.py`: which transport a call takes (MCP or
REST), the ledger check that must pass before MCP may write, the environment variable
that switches it off (`RAZORPAY_MCP_SKIP_LEDGER_CHECK=1`, gateway.py:373), and the
merchant's account behind it, where a call may be answered, refused, lost, or carried out and
its answer lost. `RazorpayIntake` extends it with the session, the webhook handler
that looks at the session before it has the lock, the poll, the look-up of a
payment, customer resolution (`Load`), mediation one payment at a time over up to
`MaxWindows` windows (`Defer`, `Deny`, `GrantIt`) and the execution loop.

### Functions

These modules have no variables. Each definition is a function of the code; the
properties at their end are evaluated over the inputs that an MC module gives.

| module | models | evaluated by |
|---|---|---|
| `HardPolicy` | the eleven hard rules and `evaluate_all` | `MCMediationWindow`: `HardPolicyHolds` |
| `PolicyCompiler` | the parser, validation, the compiled rules and their composition | `MCMediationWindow`: `CompiledPolicyHolds` |
| `AgentRegistry` | registration, `save_agent`, the ten scope checks | `MCAgentEnforcement`: `RegistryHolds` |
| `DemoScenario` | the four agents, the scenario's slice, the rogue's script and the flood | `MCAgentEnforcement`: `AgentsHold`, `ScenarioHolds` |
| `EvidenceChecks` | the knapsack bound, compliance counts, totals, the gate | `MCAgentEnforcement`: `EvidenceHolds`, `EvidenceLimits` |
| `ResultTables` | the sensitivity sweep, its crossing and predictions, the table of the three arms, Wilson intervals | `MCAgentEnforcement`: `TablesHold`, `TableLimits` |
| `HoldoutExperiment` | the holdout, who is observed in each arm, cleanup, baseline, credits | `MCGrantIssuance`: `HoldoutHolds`, `AttributionHolds` |
| `ModelScorer` | floors, fallback, shrinkage, the scorer's choice, calibration | `MCContactLedger`: `ModelsHold`, `FittedIndicesAreNotAll` |
| `IdentityResolution` | the union over shared hashes, and the rows that signals get one by one | `MCRazorpayIntake`: `ResolutionFindsPersons`, `OneByOneMixesNobody`, `OneByOneMaySplit`, `DigestsMayDecide` |

### Which module stands on which

`GrantIssuance` and `GrantExecution` each implement `ContactLedger`
(`ImplementsLedger`, with `INSTANCE ContactLedger`): the first with the committed
tables themselves, the second with pools in which the rest of a lifecycle call
is already done, because the first of its statements is the one that decides.
`MediationWindow` instantiates `ContactLedger` too and takes its steps for
issuance and the lifecycle. `DemoSession` extends `AuditChain`; `RazorpayIntake`
extends `RazorpayGateway` and `IdentityResolution`; `PolicyCompiler` and
`DemoScenario` extend `HardPolicy`, and `DemoScenario` instantiates
`AgentRegistry`. MC modules give the constants values; `*Proofs` modules hold the
theorems: those of `GrantIssuance`, `GrantExecution` and `MediationWindow` take the ledger's
lemmas from an instance of `ContactLedgerProofs`, and `DemoSessionProofs` extends
`AuditChainProofs`.

## 3. Runs

| run | shows |
|---|---|
| `shipped_caps` | caps of 1 and 2: rolling caps over every interval, `CustomerPoolNeverBinds` (the note in schema.sql:254-258) |
| `relaxed_caps` | caps of 2 and 3, so that slot and customer pool decide: `SlotExclusive`, `PoolsExact`, `CustomerPoolExact`, `NotOverdrawn`, `SettledForGood` |
| `issuance_race` | two callers, two days, a customer with cached counters or without: `ImplementsLedger`, `AnswersHold`, `CacheCoversLedger` |
| `issuance_returns` | fair callers: `EveryCallReturns` |
| `execution` | the runner statement by statement, a connection lost anywhere: `ContactedOnce`, `FailureStaysWithItsGrant`, `NeverOversold`, `EveryExecutionSettles`, `ImplementsLedger` as long as nothing is lost; deadlock is checked |
| `execution_burned` | fails: see Findings |
| `enforcement` | panel and runner take turns, or do not: `RateCeilingHolds`, `StrikesExact` (also beside a panel that overwrites strikes), `RevokedServesAtMostOne` (at most the request in hand, none taking turns), `RevocationLostOnlyInRace` (only to a strike below the threshold, never taking turns) |
| `enforcement_threads` | fails: see Findings |
| `mediation` | `HorizonSuffices` (every request ends before the loop does), `AgedOncePerWindow`, `VerdictsStayTrue` (no filter verdict on slots or caps is stale when the allocator uses it), `OptOutHonoured`, `NoneStranded`; deadlock is checked |
| `mediation_kill` | fails: see Findings |
| `session` | `ChainVerifies`; `GrantsExplained` and `ExplanationsHold` (the log explains every grant, and what it says is true, at every moment but inside the open window); `StreamFaithful`, `EndIsComplete`, `StreamEnds` (what a page is shown); `PublicUntouched`, `SchemasAccountedFor` (what a reset leaves) |
| `intake` | `OneMessagePerPayment`, `OutcomesHold`, `ContactBudgetHolds`, `RowsKeptApart`, `TestModeOnly` |

### Bounds

A day has four ticks, of which one or two are sendable: enough to be before, inside
and after the band, and for two contacts of consecutive days to be less, exactly and
more than a day apart. `shipped_caps` needs one customer (caps and pools of
different customers share only the merchant's pool), three requests (one more than
the long cap) and four days with a long window of three, so that a contact can age
out. `relaxed_caps` needs two customers for the merchant's pool and three requests.
Two callers and two requests of one customer are the smallest race; retries are
bounded by two attempts instead of five, the last of which behaves differently.
`execution` has two requests of one customer that follow one another, a merchant
budget that one of them does not exhaust and both would, and the failure modes for
one attempt and for every attempt; `execution_burned` adds a second customer. The
enforcement runs script eight requests: six of an agent that exceeds its ceiling
of one an hour, one of them out of scope, and two of an honest one, with instants
in every order; the rate window's threshold of three is the code's.

`mediation` has a customer with three requests, so that two can be deferred at once
and the third arrives to an aged one, and another customer with one, so that a kill
can fall between two customers; `MAX_DEFERRAL_WINDOWS` is three, three scores suffice
for worthless, tied and overtaken by an aging bonus of one, and the scorer can be
killed twice, once more than the fallback survives. A contact blocks a customer for
three days there, long enough for exhaustion. One request may be opted out of and one
disputed (`MayOptOut`, `MayDispute`).

`session` has two runs of one window each, one after the other, so that a reset, a
restart and a stream of the first run can meet the second; the protected schema; the
two runners' connections and the panel's; one client, whose batches hold two events
(`BatchLimit`), fewer than a window records. The trouble is divided between the runs:
in the second (`Troubled`) the start may fail, the thread may not stop within the
join's ten seconds and the process may die, in the first the model may be killed. A
client reconnects to the run it was following, and the process dies once.

`intake` has three failed payments whose contacts overlap in turn (a shared mail, a
shared phone), due in an afternoon, the evening after it (in quiet hours) and the
next afternoon; two links, two sessions, one of them with a provider failure armed
(`Troubled`), one payment whose deliveries come without an event id (`Anonymous`), four
windows and two attempts. The MCP token is that of the test account or of another
one, the latter with its check on or switched off.

Deadlock is not checked where the program may stop: a ledger in which every grant
is settled, callers with nothing to do, an ended run or session.

### Fairness

`GrantExecution`: one runner thread that waits for nobody (autocommit statements, a
bounded send loop), so weak fairness of its steps. `GrantIssuance`: strong fairness
of each caller's next step, because a caller that waits for a row lock is queued and
is given it in turn; nothing is assumed of when new calls or lifecycle calls come, or
of serialization failures. `DemoSession`: weak fairness of the threads taken together
(each has finitely many steps), weak fairness of the steps of a start or reset that
has begun (join has a timeout), and strong fairness of the stream, which takes the
session's lock, again and again taken by others, for a moment at every poll. Nobody
has to press a button, and nothing is assumed of failures.

### What the functions were checked for

`HardPolicyHolds`: a denial for good is reported before a deferral, and a deferral
names an instant in the open. `CompiledPolicyHolds`: activated rules only restrict, a
cap is refused as redundant exactly if it is inert. `RegistryHolds`: identical
registration is a no-op and anything else raises and writes nothing, nobody is revived,
nothing is said before the signature verifies. `AgentsHold`, `ScenarioHolds`: what the
agents propose passes their own scope, the slice is closed, the script meets its stated
expectations. `EvidenceHolds`: the bound is the optimum of what fits, compliance counts
are zero exactly for contacts that keep the caps, a result file stands only for its
own seed and ablation. `TablesHold`: every seed of a written sweep was checked at its
anchor, a crossing's bracket is where the winner first changes, the mean uplift lies
between those of the seeds, the predictions are consistent with one another, the Wilson
interval is the one of the score test (1.96 squared is taken as 96/25), reported rows
have one holdout, clamping credits would add exactly the negative tail. `HoldoutHolds`,
`AttributionHolds`: strata and nesting, one observation per item, cleanup, baseline
and first credit. `ModelsHold`: an available model scores every bucket it has seen.

Some definitions show what the code does not promise, or promises and does not keep;
no run can fail on them, since they are about functions, so TLC evaluates them as
existing:

- `LostRegistrationStays` (registry/store.py:173): a connection lost between the two
  INSERTs leaves an agent without a scope for good.
- `FloodAnswersTwice` (demo/runner.py:505): the panel's flood reuses request ids that
  the script has used, against scenario.py:239-241.
- `DeferralEndsIffOpen` (policy/compiler/generate.py:102): a compiled rule that forbids
  09:00 defers day after day and never looks at the allowed hours.
- `AchievedMayExceedOptimum` (sim/optimality_gap.py:195): the ratio given as within
  (0, 1] may exceed 1.
- `FittedIndicesAreNotAll` (models/fatigue_hazard.py:220): the caps admit contacts whose
  index no hazard was fitted for.
- `FirstCreditStands` (attribution/store.py): a second credit is compared by its amount
  only; one that differs in its baseline alone is taken for the first.
- `GateIsAboutMeans` (sim/gate.py): B may be the worse arm for most seeds.
- `BracketMayBeAReturn` (sim/sensitivity.py:330): the bracket may be where SAMPARK
  *starts* winning, or be missing although a crossing is said to exist.
- `MeanMayExceedSeeds` (sim/sensitivity.py:312): a seed in which A recovers nothing
  counts as ratio 0, and the mean may exceed the reported maximum.
- `MissingSeedIsLeftOut` (sim/abh_table.py:512): a seed without its B file is dropped,
  against abh_table.py:88-91 ("never be built from partially-missing evidence").
- `RatioIsNotOfTotals` (sim/abh_table.py:607): B may be ahead in the table with as many
  contacts as A and less recovered over all of them.

## 4. Proofs

One proof module for each component with a state; every safety property that a
run checks and that is expected to hold is also a theorem, for every value of the
constants that the named assumptions of its module admit. An invariant is hardly
ever inductive as the run states it; what it was strengthened to, and why, is the
content of this section. A theorem of a component is laid out as initial states,
one lemma for each kind of step, and the temporal conclusion.

`ContactLedgerProofs` proves, for any numbers of requests, customers and windows,
any caps, budgets and day length:

- `TypeCorrect`, `BandCorrect` (grants are sent inside the band of their window);
- `SlotCorrect`, from the guard of `Issue` and from nothing ever making a settled
  grant live again;
- `Cap24HCorrect`, `Cap7DCorrect`. `RollingCap` is not inductive in terms of the
  code's own count. The invariant counts, for each contact, those in the interval
  that *ends* at it; a new contact in window w enters only intervals that end
  inside w or later, and each such interval that reaches back to w lies within
  what `Issue` counted, since windows are longer than their band;
- `PoolsCorrect` and `NeverOverdrawn`: the customer pool is the account of the
  one grant that holds the slot, the merchant's pool is bounded because each
  grant settles exactly what it reserved;
- `NeverBinds`, from `SlotCorrect`, `PoolsCorrect` and the band;
- `SumsCorrect` (`PoolsExact`): the folds of the property are sums in the order in
  which `CHOOSE` picks (`SumOver`), and a step changes one or two summands
  (`TotalChanges`). Induction over sets is out of the prover's reach; these lemmas
  are proved by taking a smallest counterexample instead (`WFMin` of the library);
- `SettledStays`, an action property.

The other modules that use the ledger cite these lemmas through `INSTANCE`
(`LP!IssueType`, `LP!CapStep`, ...) and do not prove them again.

`GrantIssuanceProofs` proves that PostgreSQL's transactions, run by any number of
callers, implement the atomic ledger (`IssuanceRefinesLedger`): every commit is an
`Issue`, every lifecycle call one of the ledger's, and everything else a stutter.
The invariant (`IssueInv`) says what a transaction has read and what of that is
still so at each of its five steps (`Reads`): its request has no grant once it holds
the request's row; the counts of contacts cover the table as long as no other
commit for the customer has made them stale; the margins, and the ceiling computed
from them, stand from the moment the pools' rows are held; the slot is free from the
claim on. What keeps other callers off is that of two transactions one at most
holds a request, and one the merchant's pool of a window (`Apart`); customer pools
and slots need no lock of their own for it. From the same invariant follow
`AnswersAreTrue`, `CacheCovers` and `IssuanceTypes`, and from the refinement that the
committed tables keep the caps, the slot and the budgets (`PostgresKeepsCaps`,
`PostgresKeepsPools`).

`GrantExecutionProofs` proves `ContactedOnceHolds`, `FailuresStay`,
`NeverOversoldHolds`, `ExecutionTypes` and the refinement `ExecutionRefinesLedger`
(as long as no call is cut short). `ExecInv` says how far a call in progress is
(`CallInv`), in which stage the runner waits for it (`StageInv`) and what the provider
has accepted and the runner knows of it (`ProviderInv`). For the refinement the first
UPDATE is the atomic call and the abstract pools anticipate the rest. `NeverOversold`
also covers calls cut short: a live grant always has its claim and a claim is given
up after its grant (`ClaimsInv`), and the abstract pools hold what live grants are
owed, a sum again (`HeldInv`).

`AgentEnforcementProofs` proves `TypeCorrect`, `CeilingCorrect` (from the fact
that of the requests recorded within an hour of a served one the last to be
recorded saw all the others), `StrikesCorrect`, `RevocationStays` and
`RevokedServedOnce`, whether panel and runner take turns or not. `StrikeInv` says that
strikes and requests over the ceiling differ by the one the runner is about to strike
for, as long as the agent is ACTIVE, and that the copy the runner is about to save has
the right number whatever the panel has done to the row meanwhile (`CopyCounts`);
taking turns, a copy in hand is what the row holds (`InTurn`). `LateInv` says that while
a request is on its way no other of its agent was handed on after the revocation.

`MediationWindowProofs` proves `HorizonIsEnough`, `AgesOnce`, `VerdictsTrue`,
`OptOutsHonoured`, `NothingStranded`, `WindowTypes`, and that the windows implement
the ledger (`WindowsRefineLedger`). `AgeInv` ties the count of deferrals to the age of a
candidate in each phase, so that nothing outlives the horizon (which lies
`MaxDeferrals` windows after the last arrival); `VerdictsStayTrue` is inductive because the
allocator turns to each customer once and issues to nobody else; `ConsentInv` keeps what a
survivor was allowed at the filter; `DecidedInv` says that whatever is reserved was
decided in this window, as long as the scorer has not been killed.

`AuditChainProofs` proves `ChainCorrect` and `OneAppender` for any number of
connections, schemas and events. `ChainVerifies` is not inductive: that the next row
will fit the head rests on who holds the lock (`Locked`) and on what the holder has read
still being so (`StillFits`); `Chained` adds that the sequence is ahead of every row. Two
lemmas about one table do the work: a row that fits the head makes a longer chain
(`AppendChained`), and the hash of the head is in no row (`HeadUnclaimed`), so the fork
check never finds anything. These theorems are about `ChainSpec`, the chain with any
connections.

`DemoSessionProofs` extends it and proves all safety properties of the session, crash,
reset and sweep included: `RunChainsVerify`, `PublicStaysEmpty`, `SchemasCounted`,
`GrantsAreExplained`, `ExplanationsAreTrue`, `StreamIsFaithful` and `EndShowsAll`. They stand
on one invariant (`Core`): what the log says of a window is tied to what the thread still
has to do (`Progress`), which rests on the append in progress being that of its next
step (`Appending`), on the schema being there as long as the session has not dropped it
(`Places`), on who holds the session's lock (`Turns`), and on a schema that is yet to
come being empty (`Born`). `ViewInv` adds what a stream that drains knows: its run is
over and stays so.

`RazorpayIntakeProofs` proves `OnlyTestLinks` (only a token of the test account is ever
proven, and a write with the check off proves none), `OneMessage`, `OutcomesTrue`,
`ContactBudget` and `RowsApart`. `IntakeInv` says what a
call knows of the payment in its hand at each step (`HandInv`), which keys are remembered
(`KeysInv`), and what an outcome means for grant and message (`ResultsInv`). `CapsInv` counts,
as in the ledger, in intervals that start at a contact; `RowsInv` gives every payment
the row of one that it shares a hash with, and rows of different hashes are disjoint.

What is assumed of constants: requests, customers and payments are finite sets;
windows, runs and ids of schemas are naturals (positive where 0 stands for none); there is
at least one window, and in `MediationWindow` one request; opening precedes
closing within a day; caps are naturals, and positive in `GrantIssuance`
(constants.py:22-23: a cap of none would be reported of customers without contacts);
the runner makes at least two attempts, as its constant says. TLC evaluates all of
them on the instances of section 3.

Only model-checked: liveness (`EveryCallReturns`, `EveryExecutionSettles`, `StreamEnds`),
which is out of the prover's reach, as is `ENABLED`, and so deadlock; and the functions, which
are evaluated over bounded inputs (what a recursive definition computes for every
input would need induction over data). The three runs that fail show with TLC what no
theorem could.

## 5. Findings

- **A rollback cut short burns budget** (`execution_burned`, `NoBurnedBudget`).
  `rollback_grant` and `expire_grant` send four UPDATEs on an autocommit
  connection. If the connection is lost after the first, the grant is ROLLED_BACK
  while its claim, and with it the customer's slot, and its margin stay held; a
  second call finds the state it wanted and returns. The specification promises
  (SAMPARK-razorpay-buildathon-spec.md:566) "reservation rolls back, margin
  returns to the pool, contact slot is restored, retry is idempotent under the
  same `grant_id`. No double-send, no silently burned budget." `NeverOversold`
  shows that the error is always on the safe side.
- **A strike can undo a revocation** (`enforcement_threads`,
  `RevocationPermanent`). `record_stage_two_strike` and the panel's revocation
  each read an agent, change the copy and save all of it. When the panel revokes
  on its own connection between the runner's read and its save, the agent is
  ACTIVE again. registry/strikes.py:17-18: "Revocation is permanent in Phase 3".
  `RevocationLostOnlyInRace` says how far it can go: an agent with as many requests over
  its ceiling as the threshold stays revoked. The same interleaving, with a request that
  is under the ceiling, hands that request on although its agent is revoked by then
  (runner.py:275-283 does not ask for the state again); `RevokedServesAtMostOne` says
  that it is that one at most, which is what demo/runner.py:556 tells the operator ("its
  next request cannot pass evaluate_scope").
- **Mediating a window again strands grants** (`mediation_kill`, `RerunIsSafe`).
  When the scorer raises between two customers, the runner mediates the window
  again. demo/runner.py:348-351: "Re-running is safe and is not a second
  decision: [...] `issue_grant` is idempotent on `request_id`, so the retry
  either re-derives the same facts or finds them already there." But a grant of
  the first attempt is met by the hard filter before `issue_grant` is asked: its
  own request is deferred for an active grant in the window (or a contact cap),
  the grant stays RESERVED with its margin and slot, and is executed a window
  later at best. `NoneStranded` shows that nothing is stranded without a kill.

Shown by evaluation, since it is about a rule and not about a run: **one person may be
two customers** (`OneByOneMaySplit`). RAZORPAY_INTEGRATION.md, section 9, has "one human
is one row, incrementally" and normalize.py:266-268 "two payments from the same phone
hash resolve to the SAME customer_id". `_existing_customer_id` matches a payment with the
hashes of the payments that rows were made of, and a row never learns those of a payment
that adopted it. Of payments with {phone 1, mail}, {phone 2, mail} and {phone 2}, in this
order, the third gets a row of its own although it has the second's number; if the
second comes first all three get one row; and if it comes last it matches two rows, and
which of them it gets is for the order of their digests to say (`DigestsMayDecide`,
razorpay_product.py:332-336). Contact caps are those of a row, so a person with two rows
may be contacted twice as often (`ContactBudgetHolds` is about rows). What does hold is
that strangers never share one (`RowsKeptApart`, `OneByOneMixesNobody`).

Not a disagreement, but worth knowing: with `RAZORPAY_MCP_SKIP_LEDGER_CHECK=1` links are
created in whatever account the MCP token opens. The code says that it is "a deliberate,
visible act" (gateway.py:374-375), and RAZORPAY_INTEGRATION.md names it; `TestModeOnly`
excepts it.

Smaller observations. The opt-out control says that "every future whatsapp grant is
permanently denied" (demo/runner.py:589): `OptOutHonoured` shows this for later
windows; within the window in progress a request that has passed the filter is still
granted. `_assert_no_cross_family_delta`, which abh_table.py:32 names as what keeps the
two families of results apart, is called by its test only. A window killed in the
middle leaves a grant that the chain does not explain (the exception in
`GrantsExplained`).

## 6. Not modelled, and why

- Scores, priors and the fitting of curves are floating point arithmetic on sampled
  data: they enter the allocator as arbitrary ranks. What is drawn at random in the
  simulator is arbitrary, too; bootstrap intervals and rendered reports are left out.
- Root causes and contracts are a static table and records with field checks.
- HTTP framing, signatures of webhooks and of requests (a request verifies or does
  not), redaction, provenance labels, the canonical form of an event's bytes, its
  payload, and the JSONL export are conversions no property here tells apart.
- The command lines, pacing and the log of fired controls change no state that
  anything reads.

Behaviour that was met and that no property covers: a stream that reconnects to a new
run with the Last-Event-ID of the old one (ui/routes.py:104); an MCP call that created
a link and timed out, after which REST creates a second one (gateway.py:306) — nobody
is sent the first; a composition of policies that raises as a whole because one
activated rule is not accepted; a webhook answered 202 while there is no session; the
clock control or a flood pressed in the last window, which never take effect
(runner.py:641); a PostgreSQL arm of the simulator killed before its `finally`
(arm_b.py:485), which leaves its rows behind.

## 7. Plan

Done: ContactLedger, GrantIssuance, GrantExecution, AgentEnforcement,
MediationWindow, AuditChain with DemoSession, the gateway with the intake, and the
functions; proofs of every safety property of these that a run checks, and of the
refinements.

Left, in this order:

1. Lemmas about the functions that need no induction: that `HardPolicy` reports a denial
   for good before a deferral, that compiled rules only restrict.
2. That a killed scorer strands only the grants of the window it was killed in
   (`NoneStranded` for `kills > 0`).
3. That the windows' grants, taken together with `GrantExecution`, are settled at the end
   of each day as `MediationWindow` has it in brief.
