---------------------------- MODULE DemoSession ----------------------------
(***************************************************************************)
(* The demo's control plane: ui/session.py (one run at a time, on a        *)
(* background thread, in a schema of its own), the calls it makes on       *)
(* sampark/demo/runner.py and sampark/demo/isolation.py, the chaos panel   *)
(* on its own connection, the event stream of ui/sse.py, and the chain     *)
(* that all of them meet in (AuditChain).                                  *)
(*                                                                         *)
(* A run's thread is followed window by window.  Each window stands for    *)
(* one of its requests: received, then granted and reserved or deferred,   *)
(* then executed.  Every business write is committed before the event that *)
(* records it is appended.                                                 *)
(***************************************************************************)
EXTENDS AuditChain, FiniteSets, SequencesExt

CONSTANTS
  Runs,        \* 1..n: the runs in the order of their start, and their schemas
  Public,      \* the schema of the protected chain
  Panel,       \* _chaos_conn
  Windows,     \* 1..n: scenario.windows
  BatchLimit,  \* BATCH_LIMIT of the stream
  Troubled     \* bound: the runs that may fail to start, whose thread may not stop
               \* in time, and during which the process may die; in the others
               \* the model may be killed

ASSUME SessionAssumption ==
  /\ Schemas = Runs \cup {Public} /\ Appenders = Runs \cup {Panel}
  /\ Public \notin Runs /\ Panel \notin Runs /\ Troubled \subseteq Runs
  /\ Public \in Nat \ {0} /\ BatchLimit \in Nat \ {0}
  /\ Runs \subseteq Nat \ {0} /\ Windows \subseteq Nat \ {0}

VARIABLES
  exists,   \* the schemas there are
  path,     \* search_path of each runner's connection: a schema, Nowhere, Closed
  undo,     \* the schemas whose DROP is part of a transaction still open
  grants,   \* per schema and window: the state of the grant of its request
  active,   \* per schema: the rogue agent is ACTIVE in the registry
  runner,   \* per run: its DemoRunner and its thread
  session,  \* DemoSession: what its lock is held for, and the fields it guards
  viewer,   \* one client of /api/stream
  started,  \* how many runs were started
  excused,  \* history: schemas that a teardown, a start or a crash left behind
  crashed   \* the process has died, once

state == <<exists, path, undo, grants, active>>
control == <<runner, session, started, excused, crashed>>
vars == <<chain, state, control, viewer>>

NoRun == 0
Nowhere == 0   \* the search_path is empty
Closed == -1   \* the connection is closed

-----------------------------------------------------------------------------
(* What a run does: a list of steps, each a business write or an event. *)

Event(type, w) == <<"event", type, w>>
Write(type, w) == <<"write", type, w>>

\* The event ids of sampark/audit/emit.py that a run derives.  Keyed on the
\* request, the grant or the window and the reason: here, on the window.
Types == {"received", "degraded", "deferred", "reserved", "executing",
          "confirmed", "rolled_back"}
EventIds == [type : Types, window : Windows]
            \cup [type : {"registered", "degraded", "revoked"}, window : {0}]
Id(step) == [type |-> step[2], window |-> step[3]]

ASSUME FactsAssumption == Facts = EventIds

\* prepare: the agents are registered, and the model that is not there is
\* recorded as a degradation.
Preparation == <<Event("registered", 0), Event("degraded", 0)>>

\* run_window, up to the moment its outcomes are computed.
Opening(w) == <<Event("received", w), <<"mediate", "", w>>>>

Deferral(w) == <<Event("deferred", w)>>

\* Mistake: the reservation is recorded once the grant is executed.
ExecutionFirst(w, sent) ==
  <<Write("EXECUTING", w), Event("executing", w)>>
  \o (IF sent THEN <<Write("CONFIRMED", w), Event("reserved", w), Event("confirmed", w)>>
      ELSE <<Write("ROLLED_BACK", w), Event("reserved", w), Event("rolled_back", w)>>)

\* Mistake: the reservation of a grant that is rolled back is not recorded.
OnlyWhatWasSent(w, sent) ==
  IF sent THEN ExecutionFirst(w, sent)
  ELSE <<Write("EXECUTING", w), Write("ROLLED_BACK", w), Event("rolled_back", w)>>

\* record_grant_reserved, then _execute_grant.
Execution(w, sent) ==
  <<Event("reserved", w), Write("EXECUTING", w), Event("executing", w)>>
  \o (IF sent THEN <<Write("CONFIRMED", w), Event("confirmed", w)>>
      ELSE <<Write("ROLLED_BACK", w), Event("rolled_back", w)>>)

\* The scorer was killed: the attempt is given up, the degradation recorded, and
\* the window mediated again.  The slot of a grant the first attempt issued is
\* taken, so the request is deferred.
Rerun(w) == <<Event("degraded", w)>> \o Deferral(w)

NoRunner == [at |-> "none", window |-> 0, todo |-> <<>>, stop |-> FALSE,
             scorer |-> "model", cut |-> {}]

Threaded(g) == runner[g].at = "running"

\* Mistake: a thread that was started counts as running until the next reset.
HasThread == session.run # NoRun /\ session.thread

\* is_running, for whoever holds the lock.
IsRunning == session.run # NoRun /\ session.thread /\ Threaded(session.run)

Failed(g) == runner' = [runner EXCEPT ![g] = [NoRunner EXCEPT !.at = "failed"]]
Next1(g) == runner' = [runner EXCEPT ![g].todo = Tail(@)]

Preparing(g) == runner[g].at = "preparing"
Busy(g) == Preparing(g) \/ Threaded(g)
Doing(g, kind) == Busy(g) /\ runner[g].todo # <<>> /\ Head(runner[g].todo)[1] = kind

\* An open transaction of the run's connection that another statement would join.
InTransaction(g) == tx[g].stage \in {"read", "insert", "commit"}

-----------------------------------------------------------------------------
(* The runner's thread. *)

\* A statement of run g reaches the schema its search_path names, if there is one.
Reaches(g) == path[g] \in Schemas /\ path[g] \in exists

\* The connection is closed or the table not found: the exception ends the run.
StatementFails(g) ==
  /\ Busy(g) /\ runner[g].todo # <<>> /\ tx[g] = Idle /\ ~Reaches(g)
  /\ Failed(g)
  /\ UNCHANGED <<chain, state, session, started, excused, crashed, viewer>>

RecordEvent(g) ==
  /\ Doing(g, "event") /\ Reaches(g)
  /\ Open(g, path[g], Id(Head(runner[g].todo)))
  /\ UNCHANGED <<state, control, viewer>>

\* DROP SCHEMA ... CASCADE takes the tables with it.
Emptied(g) ==
  /\ log' = [log EXCEPT ![g] = <<>>] /\ seq' = [seq EXCEPT ![g] = 1]
  /\ grants' = [grants EXCEPT ![g] = [w \in Windows |-> "none"]]
  /\ active' = [active EXCEPT ![g] = FALSE]

\* Mistake: the search_path is repointed at public, as it once was.
PathToPublic == Public

\* SET search_path TO '', after the DROP.
PathAfterDrop == Nowhere

\* A step of the append.  Once the schema is dropped inside its transaction all
\* that still works is the commit, which commits the drop as well.
AppendStep(g) ==
  /\ g \notin undo
  /\ Continue(g)
  /\ IF tx'[g] = Idle THEN Next1(g) ELSE UNCHANGED runner
  /\ UNCHANGED <<state, session, started, excused, crashed, viewer>>

CommitDrop(g) ==
  /\ g \in undo /\ tx[g].stage = "commit"
  /\ tx' = [tx EXCEPT ![g] = Idle] /\ Release(g)
  /\ Emptied(g)
  /\ exists' = exists \ {g} /\ path' = [path EXCEPT ![g] = PathAfterDrop]
  /\ undo' = undo \ {g}
  /\ Next1(g)
  /\ UNCHANGED <<session, started, excused, crashed, viewer>>

\* A statement of the append finds no table: the transaction is rolled back, and
\* with it the drop and the new search_path.
AppendFails(g) ==
  /\ g \in undo /\ tx[g].stage \in {"read", "insert"}
  /\ Rollback(g)
  /\ undo' = undo \ {g}
  /\ UNCHANGED <<exists, path, grants, active, control, viewer>>

\* The exception of an append goes up to run, which ends the thread.
AppendRaises(g) ==
  /\ tx[g].stage = "failed" /\ Busy(g)
  /\ Failed(g)
  /\ tx' = [tx EXCEPT ![g] = Idle]
  /\ UNCHANGED <<log, seq, lock, state, session, started, excused, crashed, viewer>>

\* A business write commits by itself.
WriteGrant(g) ==
  /\ Doing(g, "write") /\ Reaches(g) /\ tx[g] = Idle
  /\ LET step == Head(runner[g].todo)
     IN  grants' = [grants EXCEPT ![path[g]][step[3]] = step[2]]
  /\ Next1(g)
  /\ UNCHANGED <<chain, exists, path, undo, active, session, started, excused,
                 crashed, viewer>>

\* mediate_window: the request gets a grant (the reservation has committed) or
\* not; or the killed scorer raises, before or after the grant was issued.
Mediate(g) ==
  /\ Doing(g, "mediate") /\ Reaches(g)
  /\ LET w == Head(runner[g].todo)[3]
         s == path[g]
     IN  \E granted \in BOOLEAN :
           /\ grants' = IF granted THEN [grants EXCEPT ![s][w] = "RESERVED"] ELSE grants
           /\ \/ /\ runner[g].scorer # "killed"
                 /\ \E sent \in BOOLEAN :
                      runner' = [runner EXCEPT ![g].todo =
                        IF granted THEN Execution(w, sent) ELSE Deferral(w)]
              \/ /\ runner[g].scorer = "killed"
                 /\ runner' = [runner EXCEPT
                      ![g].todo = Rerun(w), ![g].scorer = "heuristic",
                      ![g].cut = IF granted THEN @ \cup {w} ELSE @]
  /\ UNCHANGED <<chain, exists, path, undo, active, session, started, excused,
                 crashed, viewer>>

\* The loop of run: the stop is looked at between two windows only.
NextWindow(g) ==
  /\ runner[g].at = "running" /\ runner[g].todo = <<>> /\ tx[g] = Idle
  /\ LET w == runner[g].window + 1
     IN  runner' = IF runner[g].stop THEN [runner EXCEPT ![g].at = "stopped"]
                   ELSE IF w \notin Windows THEN [runner EXCEPT ![g].at = "finished"]
                   ELSE [runner EXCEPT ![g].window = w, ![g].todo = Opening(w)]
  /\ UNCHANGED <<chain, state, session, started, excused, crashed, viewer>>

Thread(g) ==
  \/ StatementFails(g) \/ RecordEvent(g) \/ AppendStep(g) \/ CommitDrop(g)
  \/ AppendFails(g)
  \/ AppendRaises(g) \/ WriteGrant(g) \/ Mediate(g) \/ NextWindow(g)

-----------------------------------------------------------------------------
(* The API's threads: each of these holds the session's lock from the first   *)
(* of its steps to the last.                                                  *)

LockIsFree == session.op = "none"
NoSession == [op |-> "none", starting |-> FALSE, run |-> NoRun, thread |-> FALSE]
NoViewer == [at |-> "off", run |-> NoRun, got |-> <<>>, drained |-> FALSE]
Step(op) == session' = [session EXCEPT !.op = op]
Done == Step("none")

\* request_stop, of start and reset alike.
RequestStop == runner' = IF session.run = NoRun THEN runner
                         ELSE [runner EXCEPT ![session.run].stop = TRUE]

\* Mistake: what an earlier run has left is not torn down.
StartAnyway ==
  /\ LockIsFree /\ ~IsRunning /\ started + 1 \in Runs
  /\ session' = [session EXCEPT !.op = "create", !.starting = TRUE]
  /\ UNCHANGED <<chain, state, runner, started, excused, crashed, viewer>>

\* POST /api/run while a run is active is a 409 and changes nothing.
BeginStart ==
  /\ LockIsFree /\ ~IsRunning /\ started + 1 \in Runs
  /\ session' = [session EXCEPT !.op = "join", !.starting = TRUE]
  /\ RequestStop
  /\ UNCHANGED <<chain, state, started, excused, crashed, viewer>>

BeginReset ==
  /\ LockIsFree
  /\ session' = [session EXCEPT !.op = "join", !.starting = FALSE]
  /\ RequestStop
  /\ UNCHANGED <<chain, state, started, excused, crashed, viewer>>

\* join(timeout=10.0): the thread has ended, or ten seconds have passed.
Join ==
  /\ session.op = "join"
  /\ session.run \in Runs \ Troubled => ~IsRunning
  /\ Step("drop")
  /\ UNCHANGED <<chain, state, runner, started, excused, crashed, viewer>>

\* The DROP runs on the runner's own connection.  A statement of the runner that
\* waits for the advisory lock has the connection; a transaction the runner has
\* open takes the DROP and the SET in.
Drop ==
  LET g == session.run
  IN  /\ session.op = "drop"
      /\ Step("close")
      /\ IF g = NoRun THEN UNCHANGED <<exists, path, undo, excused>>
         ELSE /\ tx[g].stage # "lock"
              /\ IF InTransaction(g)
                 THEN /\ undo' = undo \cup {g} /\ excused' = excused \cup {g}
                      /\ UNCHANGED <<exists, path>>
                 ELSE /\ exists' = exists \ {g}
                      /\ path' = [path EXCEPT ![g] = PathAfterDrop]
                      /\ UNCHANGED <<undo, excused>>
      /\ IF exists' # exists THEN Emptied(g) ELSE UNCHANGED <<log, seq, grants, active>>
      /\ UNCHANGED <<lock, tx, runner, started, crashed, viewer>>

\* Both connections are closed, which rolls back what they had open, and every
\* field is set to None.  A thread that is still there can only fail in its next
\* statement, which nobody sees: it is done with here.
Close ==
  LET g == session.run
  IN  /\ session.op = "close"
      /\ session' = [NoSession EXCEPT !.op = IF session.starting THEN "create" ELSE "none"]
      /\ undo' = undo \ {g}
      /\ IF g = NoRun THEN UNCHANGED <<lock, tx, path, runner>>
         ELSE /\ tx' = [tx EXCEPT ![g] = Idle] /\ Release(g)
              /\ path' = [path EXCEPT ![g] = Closed]
              /\ runner' = [runner EXCEPT ![g] = NoRunner]
      /\ viewer' = IF viewer.at \in {"off", "ended"} THEN NoViewer ELSE viewer
      /\ UNCHANGED <<log, seq, exists, grants, active, started, excused, crashed>>

\* create_demo_schema, the DemoRunner, the fields; prepare follows under the lock.
Create ==
  LET g == started + 1
  IN  /\ session.op = "create"
      /\ session' = [session EXCEPT !.op = "prepare", !.run = g]
      /\ started' = g
      /\ exists' = exists \cup {g}
      /\ path' = [path EXCEPT ![g] = g]
      /\ active' = [active EXCEPT ![g] = TRUE]
      /\ runner' = [runner EXCEPT ![g].at = "preparing", ![g].todo = Preparation]
      /\ UNCHANGED <<chain, undo, grants, excused, crashed, viewer>>

\* The database refuses a connection or a statement before the fields are set: the
\* exception leaves start, and no field names the schema if there is one.
CreateFails ==
  LET g == started + 1
  IN  /\ session.op = "create" /\ g \in Troubled
      /\ session' = NoSession
      /\ started' = g
      /\ \/ UNCHANGED <<exists, excused>>
         \/ exists' = exists \cup {g} /\ excused' = excused \cup {g}
      /\ UNCHANGED <<chain, path, undo, grants, active, runner, crashed, viewer>>

Launch ==
  LET g == session.run
  IN  /\ session.op = "prepare" /\ runner[g].todo = <<>> /\ tx[g] = Idle
      /\ session' = [session EXCEPT !.op = "none", !.thread = TRUE]
      /\ runner' = [runner EXCEPT ![g].at = "running"]
      /\ UNCHANGED <<chain, state, started, excused, crashed, viewer>>

\* Chaos control "revoke": the registry row is saved, then the event appended, on
\* the panel's own connection.  An agent that is not ACTIVE is a 409.
BeginRevoke ==
  LET g == session.run
  IN  /\ LockIsFree /\ g # NoRun /\ active[g]
      /\ active' = [active EXCEPT ![g] = FALSE]
      /\ Open(Panel, g, [type |-> "revoked", window |-> 0])
      /\ Step("revoke")
      /\ UNCHANGED <<exists, path, undo, grants, runner, started, excused, crashed, viewer>>

Revoke ==
  /\ session.op = "revoke"
  /\ Continue(Panel)
  /\ IF tx'[Panel] = Idle THEN Done ELSE UNCHANGED session
  /\ UNCHANGED <<state, runner, started, excused, crashed, viewer>>

\* Chaos control "kill model": the seam is killed once in a run.  (Bound: a run
\* that is not Troubled.)
KillModel ==
  LET g == session.run
  IN  /\ LockIsFree /\ g \in Runs \ Troubled /\ runner[g].scorer = "model"
      /\ runner' = [runner EXCEPT ![g].scorer = "killed"]
      /\ UNCHANGED <<chain, state, session, started, excused, crashed, viewer>>

\* The id of the last frame: the cursor of the stream, and what the client asks to
\* go on from.
Cursor == IF viewer.got = <<>> THEN 0 ELSE Last(viewer.got).seq

\* The process dies and comes up again: the database rolls back what was open,
\* and the startup sweep drops the schemas whose names are older than six hours.
Restart(oldest) ==
  /\ started \in Troubled /\ ~crashed /\ crashed' = TRUE
  /\ lock' = Nobody /\ tx' = [a \in Appenders |-> Idle]
  /\ exists' = {s \in exists : s = Public \/ s > oldest}
  /\ excused' = excused \cup (exists' \ {Public})
  /\ path' = [g \in Runs |-> Closed] /\ undo' = {}
  /\ runner' = [g \in Runs |-> NoRunner]
  /\ session' = NoSession /\ viewer' = NoViewer
  /\ UNCHANGED <<log, seq, grants, active, started>>

Api ==
  \/ BeginStart \/ BeginReset \/ Join
  \/ Drop \/ Close \/ Create \/ CreateFails \/ Launch \/ BeginRevoke \/ Revoke
  \/ KillModel

-----------------------------------------------------------------------------
(* The event stream.                                                          *)

\* A page opens /api/stream.
Connect ==
  /\ viewer.at = "off" /\ LockIsFree /\ session.run # NoRun
  /\ viewer' = [NoViewer EXCEPT !.at = "poll", !.run = session.run]
  /\ UNCHANGED <<chain, state, control>>

\* The connection is lost and EventSource opens it again, with the last id the
\* page has seen, which is kept: a new stream goes on from there.  (Bound: only
\* while the run goes on.)
Reconnect ==
  /\ viewer.at \in {"poll", "check"} /\ LockIsFree
  /\ viewer.run = session.run /\ IsRunning
  /\ viewer' = [viewer EXCEPT !.at = "poll", !.drained = FALSE]
  /\ UNCHANGED <<chain, state, control>>

\* The chosen rows in the order of seq: the n-th is the one that n of them do not
\* come after.
BySeq(rows, chosen) ==
  [n \in 1..Cardinality(chosen) |->
     rows[CHOOSE i \in chosen :
            Cardinality({j \in chosen : rows[j].seq <= rows[i].seq}) = n]]

\* Mistake: the row of the cursor is sent again.
RowsFrom(rows, cursor) == BySeq(rows, {i \in DOMAIN rows : rows[i].seq >= cursor})

\* EVENTS_SQL: seq > cursor, by seq.
RowsAfter(rows, cursor) == BySeq(rows, {i \in DOMAIN rows : rows[i].seq > cursor})

\* fetch_events, and a frame for each row of the batch.
Poll ==
  /\ viewer.at = "poll" /\ viewer.run \in exists
  /\ LET rows == RowsAfter(log[viewer.run], Cursor)
         batch == SubSeq(rows, 1, IF Len(rows) < BatchLimit THEN Len(rows) ELSE BatchLimit)
     IN  viewer' = IF batch = <<>> THEN [viewer EXCEPT !.at = "check"]
                   ELSE [viewer EXCEPT !.got = @ \o batch]
  /\ UNCHANGED <<chain, state, control>>

\* Mistake: the stream ends at the first check that finds the run finished.
EndAtOnce == [viewer EXCEPT !.at = "ended"]

\* One more poll after the run has finished.
EndOrDrain == IF viewer.drained THEN [viewer EXCEPT !.at = "ended"]
              ELSE [viewer EXCEPT !.at = "poll", !.drained = TRUE]

\* is_finished is "not session.is_running()", which takes the session's lock.
Check ==
  /\ viewer.at = "check" /\ LockIsFree
  /\ viewer' = IF IsRunning THEN [viewer EXCEPT !.at = "poll"] ELSE EndOrDrain
  /\ UNCHANGED <<chain, state, control>>

\* The schema is gone: the query raises and the response breaks off.
PollFails ==
  /\ viewer.at = "poll" /\ viewer.run \notin exists
  /\ viewer' = NoViewer
  /\ UNCHANGED <<chain, state, control>>

\* The page is closed.
Disconnect ==
  /\ viewer.at \in {"poll", "check"}
  /\ viewer' = NoViewer
  /\ UNCHANGED <<chain, state, control>>

Stream == Poll \/ Check \/ PollFails

-----------------------------------------------------------------------------
Init ==
  /\ ChainInit
  /\ exists = {Public} /\ path = [g \in Runs |-> Closed] /\ undo = {}
  /\ grants = [s \in Schemas |-> [w \in Windows |-> "none"]]
  /\ active = [s \in Schemas |-> FALSE]
  /\ runner = [g \in Runs |-> NoRunner]
  /\ session = NoSession /\ started = 0 /\ excused = {} /\ crashed = FALSE
  /\ viewer = NoViewer

Next ==
  \/ \E g \in Runs : Thread(g)
  \/ Api
  \/ Stream
  \/ Connect \/ Reconnect \/ Disconnect
  \/ \E oldest \in 0..started : Restart(oldest)

Spec == Init /\ [][Next]_vars

\* The threads of the process go on: a run's thread has finitely many steps, so it
\* is enough that some run's thread goes on.  The session's lock, which resets may
\* take again and again, is handed to a stream that waits for it; nobody has to press
\* a button.
FairSpec ==
  /\ Spec
  /\ WF_vars(\E g \in Runs : Thread(g))
  /\ WF_vars(Join \/ Drop \/ Close \/ Create \/ CreateFails \/ Launch \/ Revoke)
  /\ SF_vars(Stream)

-----------------------------------------------------------------------------
(* Correctness. *)

Recorded(g, type, w) == Present([type |-> type, window |-> w], log[g])

\* A run whose schema is there and whose thread was not cut off from it.
Intact(g) == g \in exists /\ g \notin excused

InWindow(g, w) == Threaded(g) /\ runner[g].window = w /\ runner[g].todo # <<>>

\* "The exit criterion is violated the moment a grant exists that the log does
\* not explain" (chain.py:336): verify_chain finds such a grant only while its
\* window is open, or when the model was killed in the middle of it.
GrantsExplained ==
  \A g \in Runs, w \in Windows :
    Intact(g) /\ grants[g][w] # "none" /\ ~Recorded(g, "reserved", w) =>
      InWindow(g, w) \/ w \in runner[g].cut

\* explain_request over the timeline of the request of a window.
Lifecycle == {"executing", "confirmed", "rolled_back"}
Explain(g, w) ==
  CASE \/ ~Recorded(g, "received", w)
       \/ /\ \E type \in Lifecycle : Recorded(g, type, w)
          /\ ~Recorded(g, "reserved", w)   -> "incomplete"
    [] Recorded(g, "reserved", w)           -> "GRANTED"
    [] ~Recorded(g, "reserved", w) /\ Recorded(g, "received", w)
       /\ Recorded(g, "deferred", w)        -> "DEFERRED"
    [] OTHER                                -> "PENDING"

\* Whenever somebody asks, the explanation derived from the log alone can be
\* given and is true of the ledger: it may only be behind in the open window.
ExplanationsHold ==
  \A g \in Runs, w \in Windows :
    Intact(g) /\ (\E row \in ToSet(log[g]) : row.id.type # "degraded" /\ row.id.window = w) =>
      LET said == Explain(g, w)
      IN  /\ said # "incomplete"
          /\ said = "GRANTED" => grants[g][w] # "none"
          /\ said = "DEFERRED" => grants[g][w] = "none" \/ w \in runner[g].cut
          /\ said = "PENDING" => InWindow(g, w)
          /\ Recorded(g, "confirmed", w) => grants[g][w] = "CONFIRMED"
          /\ grants[g][w] \in {"EXECUTING", "CONFIRMED", "ROLLED_BACK"} => said = "GRANTED"

\* What a page was sent is a beginning of the run's chain, in order, nothing twice
\* and nothing left out, whoever appends while it is polling and however often
\* the client reconnects with the last id it has seen.
StreamFaithful ==
  viewer.at # "off" /\ viewer.run \in exists =>
    IsPrefix(viewer.got, log[viewer.run])

\* A stream that said "run_complete" has shown everything the run recorded; only
\* what the panel does to a run that is over can be missing.
EndIsComplete ==
  viewer.at = "ended" =>
    \A row \in ToSet(log[viewer.run]) :
      row.id.type # "revoked" => row \in ToSet(viewer.got)

\* Whatever a reset does under a thread that is still writing, nothing of a run
\* ends up in the protected schema.
PublicUntouched ==
  log[Public] = <<>> /\ \A w \in Windows : grants[Public][w] = "none"

\* A schema outlives its session only if the process died, if the DROP fell into a
\* transaction of a thread that did not stop in time, or if start failed before it
\* had a session.
SchemasAccountedFor == exists \subseteq {Public, session.run} \cup excused

\* Every stream ends or breaks off: the run comes to its end, the session's lock
\* is given back, and the stream is not kept waiting by later runs.
StreamEnds == viewer.at \in {"poll", "check"} ~> viewer.at \in {"off", "ended"}

=============================================================================
