------------------------- MODULE DemoSessionProofs -------------------------
(***************************************************************************)
(* The demo's control plane: for any number of runs and windows, any batch *)
(* of the stream, and whichever runs get into trouble, a reset keeps off   *)
(* the protected schema, the log explains every grant, and a stream shows  *)
(* a beginning of its run's chain and in the end all of it.                *)
(*                                                                         *)
(* None of the properties is inductive.  What the log says of a window is  *)
(* tied to what the thread still has to do (Progress), which rests on the  *)
(* append in progress being that of the thread's next step (Appending),    *)
(* on the schema being there as long as the session has not dropped it     *)
(* (Places), on who holds the session's lock (Turns), and on a schema that *)
(* is yet to come being empty (Born); these six, the chain's own invariant *)
(* and the two properties they need are Core.  ViewInv adds what a stream  *)
(* that is draining knows: its run is over, and stays so.                  *)
(***************************************************************************)
EXTENDS DemoSession, AuditChainProofs, SequenceTheorems, FiniteSetTheorems

(* The invariants. *)

Ops == {"none", "join", "drop", "close", "create", "prepare", "revoke"}
States == {"none", "RESERVED", "EXECUTING", "CONFIRMED", "ROLLED_BACK"}
Fields == {"at", "window", "todo", "stop", "scorer", "cut"}

\* The steps a plan is made of.
Mediation(w) == <<"mediate", "", w>>
Steps == {Event(id.type, id.window) : id \in EventIds}
         \cup {Write(s, w) : s \in States, w \in Windows}
         \cup {Mediation(w) : w \in Windows}

\* The record of every run.
Runners ==
  /\ runner = [g \in Runs |-> runner[g]]
  /\ \A g \in Runs :
       /\ DOMAIN runner[g] = Fields
       /\ runner[g].todo \in Seq(Steps)
       /\ runner[g].window \in Nat

\* The types.
Shape ==
  /\ session \in [op : Ops, starting : BOOLEAN, run : {NoRun} \cup Runs, thread : BOOLEAN]
  /\ started \in Nat
  /\ path \in [Runs -> Schemas \cup {Nowhere, Closed}]
  /\ grants \in [Schemas -> [Windows -> States]]
  /\ active \in [Schemas -> BOOLEAN]
  /\ Runners

\* Runs but the session's have nothing: no thread, no append, no connection.  The
\* session's run has its schema, and its path leads there, until it is dropped; a
\* DROP inside a transaction is on its way while the session is being closed only.
Places ==
  /\ \A g \in Runs : path[g] \in {g, Nowhere, Closed}
  /\ \A g \in Runs \ {session.run} :
       runner[g] = NoRunner /\ tx[g] = Idle /\ path[g] = Closed
  /\ session.run # NoRun /\ session.op # "close" =>
       /\ path[session.run] = session.run /\ session.run \in exists
       /\ session.run \notin excused
       /\ runner[session.run].at \in {"preparing", "running", "finished", "stopped"}
  /\ session.run # NoRun /\ session.op = "close" =>
       session.run \notin exists \/ session.run \in excused
  /\ undo \subseteq {session.run} \cap Runs
  /\ undo # {} => session.op = "close" /\ session.run \in excused

\* What goes with what the session's lock is held for.
Turns ==
  /\ session.op = "create" => session.run = NoRun
  /\ session.op \in {"prepare", "revoke"} => session.run # NoRun
  /\ \A g \in Runs : Preparing(g) => session.op = "prepare"
  /\ session.op = "prepare" => Preparing(session.run)
  /\ \A g \in Runs : Threaded(g) => session.thread

\* The runs that are yet to start have left nothing anywhere.
Born ==
  /\ exists \subseteq Schemas /\ session.run <= started
  /\ \/ session.op = "create"
     \/ session.op \in {"join", "drop", "close"} /\ session.starting
     => started + 1 \in Runs
  /\ \A g \in Runs : g > started =>
       /\ g \notin exists /\ g \notin excused /\ log[g] = <<>>
       /\ \A w \in Windows : grants[g][w] = "none"

\* The append of a connection is of this event, to this schema.
Carries(a, s, id) ==
  /\ tx[a].stage \in {"lock", "read", "insert"} => tx[a].schema = s /\ tx[a].fact = id
  /\ tx[a].stage = "commit" => tx[a].schema = s /\ tx[a].row.id = id

\* An append in progress is the next step of a run's thread, or the panel's revoke;
\* it fails only when its schema was dropped under it.
Appending ==
  /\ \A g \in Runs : tx[g].stage # "idle" =>
       /\ Doing(g, "event") /\ Carries(g, g, Id(Head(runner[g].todo)))
       /\ tx[g].stage = "failed" => session.op = "close"
  /\ tx[Panel].stage # "idle" =>
       /\ session.op = "revoke" /\ tx[Panel].stage # "failed"
       /\ Carries(Panel, session.run, [type |-> "revoked", window |-> 0])

\* What the log holds of the request of a window: exactly these of its types.
Stages == Types \ {"degraded"}
Told(g, w, types) == \A type \in Stages : Recorded(g, type, w) <=> type \in types

\* A window that is yet to be opened, ...
Fresh(g, w) == Told(g, w, {}) /\ grants[g][w] = "none"

\* ... one that got no grant, but for the one its killed model has left, ...
Unserved(g, w) ==
  grants[g][w] = "none" \/ (grants[g][w] = "RESERVED" /\ w \in runner[g].cut)

\* ... and one that is over.
Settled(g, w) ==
  \/ /\ Told(g, w, {"received", "reserved", "executing", "confirmed"})
     /\ grants[g][w] = "CONFIRMED"
  \/ /\ Told(g, w, {"received", "reserved", "executing", "rolled_back"})
     /\ grants[g][w] = "ROLLED_BACK"
  \/ Told(g, w, {"received", "deferred"}) /\ Unserved(g, w)

\* In the open window, what the thread has still to do says what the log and the
\* ledger hold.
End(sent) == IF sent THEN "CONFIRMED" ELSE "ROLLED_BACK"
EndEvent(sent) == IF sent THEN "confirmed" ELSE "rolled_back"

Executing(g, w, todo) ==
  \E sent \in BOOLEAN :
    \/ /\ todo = <<Event("reserved", w), Write("EXECUTING", w), Event("executing", w),
                   Write(End(sent), w), Event(EndEvent(sent), w)>>
       /\ Told(g, w, {"received"}) /\ grants[g][w] = "RESERVED"
    \/ /\ todo = <<Write("EXECUTING", w), Event("executing", w),
                   Write(End(sent), w), Event(EndEvent(sent), w)>>
       /\ Told(g, w, {"received", "reserved"}) /\ grants[g][w] = "RESERVED"
    \/ /\ todo = <<Event("executing", w), Write(End(sent), w), Event(EndEvent(sent), w)>>
       /\ Told(g, w, {"received", "reserved"}) /\ grants[g][w] = "EXECUTING"
    \/ /\ todo = <<Write(End(sent), w), Event(EndEvent(sent), w)>>
       /\ Told(g, w, {"received", "reserved", "executing"}) /\ grants[g][w] = "EXECUTING"
    \/ /\ todo = <<Event(EndEvent(sent), w)>>
       /\ Told(g, w, {"received", "reserved", "executing"}) /\ grants[g][w] = End(sent)

Deferring(g, w, todo) ==
  /\ todo \in {<<Event("degraded", w), Event("deferred", w)>>, <<Event("deferred", w)>>}
  /\ Told(g, w, {"received"}) /\ Unserved(g, w)

Beginning(g, w, todo) ==
  /\ \/ todo = <<Event("received", w), Mediation(w)>> /\ Told(g, w, {})
     \/ todo = <<Mediation(w)>> /\ Told(g, w, {"received"})
  /\ grants[g][w] = "none"

Position(g, w, todo) ==
  Beginning(g, w, todo) \/ Executing(g, w, todo) \/ Deferring(g, w, todo)

\* The windows of a run, before the open one, after it, and the open one itself.
Progress(g) ==
  /\ \A w \in Windows : w > runner[g].window => Fresh(g, w)
  /\ \A w \in Windows : w < runner[g].window => Settled(g, w)
  /\ IF runner[g].todo = <<>>
     THEN runner[g].window \in Windows => Settled(g, runner[g].window)
     ELSE IF Preparing(g)
     THEN /\ runner[g].window = 0
          /\ runner[g].todo \in {Preparation, <<Event("degraded", 0)>>}
     ELSE /\ Threaded(g) /\ runner[g].window \in Windows
          /\ Position(g, runner[g].window, runner[g].todo)

\* The run of a session that is not being torn down is where it should be.
OnCourse == session.run # NoRun /\ session.op # "close" => Progress(session.run)

Core ==
  /\ ChainInv /\ Shape /\ Places /\ Turns /\ Born
  /\ SchemasAccountedFor /\ PublicUntouched /\ Appending /\ OnCourse

\* All of the rows that the panel did not append.
NotPanels(rows, got) ==
  \A i \in DOMAIN rows : rows[i].id.type # "revoked" => \E j \in DOMAIN got : got[j] = rows[i]

\* A stream has sent a beginning of the chain; once it drains its run is over, and
\* when its last poll has come back empty it has everything the run recorded.
ViewInv ==
  /\ viewer \in [at : {"off", "poll", "check", "ended"}, run : {NoRun} \cup Runs,
                 got : Seq(Rows), drained : BOOLEAN]
  /\ viewer.at # "off" =>
     /\ viewer.run # NoRun /\ viewer.run <= started
     /\ viewer.run \in exists => IsPrefix(viewer.got, log[viewer.run])
     /\ viewer.drained \/ viewer.at = "ended" => ~Busy(viewer.run)
     /\ viewer.at = "ended" \/ (viewer.at = "check" /\ viewer.drained) =>
          NotPanels(log[viewer.run], viewer.got)

-----------------------------------------------------------------------------
(* The constants, and the record of a run. *)

\* The runs, the windows and the schemas.
LEMMA ConstantFacts ==
  /\ Runs \subseteq Nat \ {0} /\ Windows \subseteq Nat \ {0}
  /\ Runs \subseteq Schemas /\ Public \in Schemas /\ Public \notin Runs
  /\ Runs \subseteq Appenders /\ Panel \in Appenders /\ Panel \notin Runs
  /\ Schemas = Runs \cup {Public} /\ Appenders = Runs \cup {Panel}
  /\ Nowhere \notin Schemas /\ Closed \notin Schemas /\ NoRun \notin Schemas
  /\ Nowhere # Closed
BY SessionAssumption DEF Nowhere, Closed, NoRun

\* A plan and what is left of it.
LEMMA StepsTail ==
  ASSUME NEW todo \in Seq(Steps), todo # <<>>
  PROVE  Tail(todo) \in Seq(Steps) /\ Head(todo) \in Steps
BY HeadTailProperties

Others(g) == \A h \in Runs \ {g} : runner'[h] = runner[h]
Keeps(g, fields) == \A f \in fields : runner'[g][f] = runner[g][f]

\* The thread goes on to its next step.
LEMMA Next1Does ==
  ASSUME Runners, NEW g \in Runs, runner[g].todo # <<>>, Next1(g)
  PROVE  /\ Runners' /\ Others(g)
         /\ runner'[g].todo = Tail(runner[g].todo)
         /\ runner'[g].at = runner[g].at /\ runner'[g].window = runner[g].window
         /\ runner'[g].cut = runner[g].cut
<1>1. Tail(runner[g].todo) \in Seq(Steps)
  BY StepsTail DEF Runners
<1> QED
  BY <1>1 DEF Runners, Next1, Others, Fields

\* An exception ends the thread.
LEMMA FailedDoes ==
  ASSUME Runners, NEW g \in Runs, Failed(g)
  PROVE  Runners' /\ Others(g) /\ runner'[g].at = "failed" /\ runner'[g].todo = <<>>
<1>1. <<>> \in Seq(Steps)
  OBVIOUS
<1> QED
  BY <1>1 DEF Runners, Failed, NoRunner, Others, Fields

\* A stop changes nothing but the flag.
LEMMA StopDoes ==
  ASSUME Runners, session.run \in {NoRun} \cup Runs, RequestStop
  PROVE  /\ Runners' /\ Others(session.run)
         /\ \A g \in Runs :
              /\ runner'[g].todo = runner[g].todo /\ runner'[g].at = runner[g].at
              /\ runner'[g].window = runner[g].window /\ runner'[g].cut = runner[g].cut
<1>1. CASE session.run = NoRun
  BY <1>1 DEF RequestStop, Runners, Others
<1>2. CASE session.run \in Runs
  <2>1. runner' = [runner EXCEPT ![session.run].stop = TRUE]
    BY <1>2, ConstantFacts DEF RequestStop
  <2> QED
    BY <1>2, <2>1 DEF Runners, Others, Fields
<1> QED
  BY <1>1, <1>2

\* What kind a step is, and what it names.
LEMMA StepKinds ==
  ASSUME NEW step \in Steps
  PROVE  /\ step[1] = "event" => Id(step) \in EventIds
         /\ step[1] = "write" => step[2] \in States /\ step[3] \in Windows
         /\ step[1] = "mediate" => step[3] \in Windows
<1>1. CASE \E id \in EventIds : step = Event(id.type, id.window)
  <2>1. PICK id \in EventIds : step = Event(id.type, id.window)
    BY <1>1
  <2>2. step[1] = "event" /\ Id(step) = [type |-> id.type, window |-> id.window]
    BY <2>1 DEF Event, Id
  <2>3. [type |-> id.type, window |-> id.window] \in EventIds
    BY DEF EventIds
  <2> QED
    BY <2>2, <2>3
<1>2. CASE \E s \in States, w \in Windows : step = Write(s, w)
  BY <1>2 DEF Write
<1>3. CASE \E w \in Windows : step = Mediation(w)
  <2>1. PICK w \in Windows : step = Mediation(w)
    BY <1>3
  <2>2. step[1] = "mediate" /\ step[3] = w
    BY <2>1 DEF Mediation
  <2> QED
    BY <2>2
<1>4. \/ \E id \in EventIds : step = Event(id.type, id.window)
      \/ \E s \in States, w \in Windows : step = Write(s, w)
      \/ \E w \in Windows : step = Mediation(w)
  BY DEF Steps
<1> QED
  BY <1>1, <1>2, <1>3, <1>4

\* Only the run of the session has a thread, a transaction or a schema to write to.
LEMMA OneRun ==
  ASSUME Core, NEW g \in Runs
  PROVE  /\ Busy(g) => g = session.run
         /\ tx[g].stage # "idle" => g = session.run
         /\ g \in undo => g = session.run
         /\ Reaches(g) => path[g] = g /\ g = session.run
<1>1. g # session.run => runner[g] = NoRunner /\ tx[g] = Idle /\ path[g] = Closed
  BY DEF Core, Places
<1> QED
  BY <1>1, ConstantFacts
  DEF Core, Places, Busy, Preparing, Threaded, NoRunner, Idle, Reaches

\* What the thread of a run is about to do.
LEMMA NextStep ==
  ASSUME Core, NEW g \in Runs, NEW kind, Doing(g, kind)
  PROVE  /\ runner[g].todo # <<>> /\ Head(runner[g].todo) \in Steps
         /\ Head(runner[g].todo)[1] = kind /\ g = session.run
BY OneRun, StepsTail DEF Doing, Core, Shape, Runners

-----------------------------------------------------------------------------
(* The chain stays a chain, whatever is dropped or closed under it. *)

\* A step of the chain of its own.
LEMMA ChainOnly == ChainInv /\ ChainNext => ChainInv'
BY NextInv

\* The stages of an append.
LEMMA TxTypes ==
  ASSUME ChainInv, NEW a \in Appenders
  PROVE  /\ tx[a] \in Appends /\ (tx[a].stage = "idle" <=> tx[a] = Idle)
         /\ tx[a].stage \in {"idle", "lock", "read", "insert", "commit", "failed"}
BY DEF ChainInv, TypeOK, Appends, Idle

\* No append that is in progress is to the schema of a run without one.
LEMMA NobodyThere ==
  ASSUME Core, NEW g \in Runs, g = session.run, session.op \in {"drop", "close"},
         NEW a \in Appenders, a # g
  PROVE  tx[a] = Idle
<1>1. CASE a = Panel
  BY <1>1, TxTypes DEF Core, Appending
<1>2. CASE a \in Runs
  BY <1>2 DEF Core, Places
<1> QED
  BY <1>1, <1>2, ConstantFacts

\* The thread of a run: a table is dropped with its append, or its append goes on.
LEMMA ChainThread ==
  ASSUME Core, NEW g \in Runs, Thread(g)
  PROVE  ChainInv'
<1>1. ChainInv /\ g \in Appenders
  BY ConstantFacts DEF Core
<1>2. CASE StatementFails(g) \/ WriteGrant(g) \/ Mediate(g) \/ NextWindow(g)
  BY <1>1, <1>2, NextInv DEF StatementFails, WriteGrant, Mediate, NextWindow
<1>3. CASE RecordEvent(g)
  <2>1. /\ Open(g, path[g], Id(Head(runner[g].todo))) /\ path[g] = g
        /\ Id(Head(runner[g].todo)) \in EventIds
    BY <1>3, OneRun, NextStep, StepKinds DEF RecordEvent
  <2> QED
    BY <1>1, <2>1, ConstantFacts, FactsAssumption, ChainOnly DEF ChainNext
<1>4. CASE AppendStep(g)
  BY <1>1, <1>4, ContinueInv DEF AppendStep
<1>5. CASE CommitDrop(g)
  <2>1. /\ tx' = [tx EXCEPT ![g] = Idle] /\ lock' = IF lock = g THEN Nobody ELSE lock
        /\ log' = [log EXCEPT ![g] = <<>>] /\ seq' = [seq EXCEPT ![g] = 1]
    BY <1>5 DEF CommitDrop, Emptied, Release
  <2>2. /\ tx \in [Appenders -> Appends] /\ log \in [Schemas -> Seq(Rows)]
        /\ seq \in [Schemas -> Nat \ {0}] /\ lock \in Appenders \cup {Nobody} /\ Idle \in Appends
    BY <1>1 DEF ChainInv, TypeOK, Appends
  <2>3. g = session.run /\ session.op = "close"
    BY <1>5, OneRun DEF CommitDrop, Core, Places
  <2>4. \A a \in Appenders : tx'[a] = Idle
    BY <2>1, <2>2, <2>3, NobodyThere
  <2>5. TypeOK'
    <3>1. <<>> \in Seq(Rows) /\ 1 \in Nat \ {0}
      OBVIOUS
    <3> QED
      BY <2>1, <2>2, <3>1 DEF TypeOK
  <2>6. Locked' /\ \A a \in Appenders : StillFits(a)'
    BY <2>4 DEF Locked, StillFits, Idle
  <2>7. ASSUME NEW s \in Schemas PROVE Chained(log'[s], seq'[s])
    <3>1. CASE s = g
      BY <2>1, <2>2, <3>1, EmptyChained
    <3>2. CASE s # g
      BY <1>1, <2>1, <2>2, <3>2 DEF ChainInv
    <3> QED
      BY <3>1, <3>2
  <2> QED
    BY <2>5, <2>6, <2>7 DEF ChainInv
<1>6. CASE AppendFails(g)
  BY <1>1, <1>6, ChainOnly DEF AppendFails, ChainNext
<1>7. CASE AppendRaises(g)
  <2>1. Forget(g)
    BY <1>7 DEF AppendRaises, Forget
  <2> QED
    BY <1>1, <2>1, ChainOnly DEF ChainNext
<1> QED
  BY <1>2, <1>3, <1>4, <1>5, <1>6, <1>7 DEF Thread

\* The calls of the API: nobody else appends to what a DROP or a close takes away.
LEMMA ChainApi ==
  ASSUME Core, Api
  PROVE  ChainInv'
<1>1. ChainInv /\ Panel \in Appenders /\ session.run \in {NoRun} \cup Runs
  BY ConstantFacts DEF Core, Shape
<1>2. CASE BeginStart \/ BeginReset \/ Join \/ Create \/ CreateFails \/ Launch \/ KillModel
  BY <1>1, <1>2, NextInv DEF BeginStart, BeginReset, Join, Create, CreateFails, Launch, KillModel
<1>3. CASE Drop
  <2>1. CASE UNCHANGED <<log, seq>>
    BY <1>1, <1>3, <2>1, NextInv DEF Drop, chain
  <2>2. CASE Emptied(session.run) /\ exists' # exists
    <3>1. session.run \in Runs /\ session.op = "drop"
      BY <1>1, <1>3, <2>2 DEF Drop
    <3>2. ~InTransaction(session.run) /\ tx[session.run].stage # "lock"
      BY <1>3, <2>2, <3>1, ConstantFacts DEF Drop
    <3>3. tx[session.run].stage \in {"idle", "failed"}
      BY <1>1, <3>1, <3>2, TxTypes, ConstantFacts DEF InTransaction
    <3>4. \A a \in Appenders : tx[a].stage \notin {"idle", "failed"} => tx[a].schema # session.run
      BY <3>1, <3>3, NobodyThere DEF Idle
    <3>5. DropTable(session.run)
      BY <1>3, <2>2, <3>4 DEF Drop, Emptied, DropTable
    <3> QED
      BY <1>1, <3>1, <3>5, ConstantFacts, ChainOnly DEF ChainNext
  <2> QED
    BY <1>3, <2>1, <2>2 DEF Drop
<1>4. CASE Close
  <2>1. CASE session.run = NoRun
    BY <1>1, <1>4, <2>1, NextInv DEF Close, chain
  <2>2. CASE session.run # NoRun
    <3>1. session.run \in Appenders /\ Idle \in Appends
      BY <1>1, <2>2, ConstantFacts DEF Appends
    <3>2. /\ tx' = [tx EXCEPT ![session.run] = Idle] /\ UNCHANGED <<log, seq>>
          /\ lock' = IF lock = session.run THEN Nobody ELSE lock
      BY <1>4, <2>2 DEF Close, Release
    <3>3. /\ tx \in [Appenders -> Appends] /\ lock \in Appenders \cup {Nobody} /\ Locked
      BY <1>1 DEF ChainInv, TypeOK
    <3>4. tx'[session.run] = Idle /\ \A b \in Appenders \ {session.run} : tx'[b] = tx[b]
      BY <3>1, <3>2, <3>3
    <3>5. \A b \in Appenders : tx'[b].stage \in {"read", "insert", "commit"} => lock' = b
      BY <3>2, <3>3, <3>4 DEF Locked, Idle
    <3> DEFINE g == session.run
    <3>6. /\ tx'[g].stage # "insert" /\ tx'[g].stage # "commit"
      BY <3>4 DEF Idle
    <3>7. PICK h \in Appenders : h = session.run
      BY <3>1
    <3>8. StillFits(h)' /\ Locked'
      BY <3>5, <3>6, <3>7 DEF StillFits, Locked
    <3> QED
      BY <1>1, <3>1, <3>2, <3>3, <3>7, <3>8, TablesUntouched
  <2> QED
    BY <2>1, <2>2
<1>5. CASE BeginRevoke
  <2>1. session.run \in Schemas /\ [type |-> "revoked", window |-> 0] \in Facts
    BY <1>1, <1>5, ConstantFacts, FactsAssumption DEF BeginRevoke, EventIds
  <2>2. Open(Panel, session.run, [type |-> "revoked", window |-> 0])
    BY <1>5 DEF BeginRevoke
  <2> QED
    BY <1>1, <2>1, <2>2, ChainOnly DEF ChainNext
<1>6. CASE Revoke
  BY <1>1, <1>6, ContinueInv DEF Revoke
<1> QED
  BY <1>2, <1>3, <1>4, <1>5, <1>6 DEF Api

\* The process dies: every append is rolled back.
LEMMA ChainRestart ==
  ASSUME Core, NEW oldest, Restart(oldest)
  PROVE  ChainInv'
<1>1. ChainInv
  BY DEF Core
<1>2. \A a \in Appenders : tx'[a] = Idle
  BY DEF Restart
<1>3. TypeOK'
  <2>1. Idle \in Appends
    BY DEF Appends
  <2> QED
    BY <1>1, <2>1 DEF Restart, TypeOK, ChainInv
<1>4. Locked' /\ \A a \in Appenders : StillFits(a)'
  BY <1>2 DEF Locked, StillFits, Idle
<1> QED
  BY <1>1, <1>3, <1>4 DEF ChainInv, Restart

-----------------------------------------------------------------------------
(* The plans of the thread. *)

\* A concatenation of short literals, written out.
LEMMA ThreeAndTwo ==
  ASSUME NEW S, NEW a \in S, NEW b \in S, NEW c \in S, NEW d \in S, NEW e \in S
  PROVE  <<a, b, c>> \o <<d, e>> = <<a, b, c, d, e>>
<1>1. <<a, b, c>> \in Seq(S) /\ <<d, e>> \in Seq(S) /\ <<a, b, c, d, e>> \in Seq(S)
  OBVIOUS
<1> DEFINE x == <<a, b, c>>  y == <<d, e>>  z == <<a, b, c, d, e>>
<1>2. Len(x) = 3 /\ Len(y) = 2 /\ Len(z) = 5
  OBVIOUS
<1>3. /\ z[1] = a /\ z[2] = b /\ z[3] = c /\ z[4] = d /\ z[5] = e
      /\ x[1] = a /\ x[2] = b /\ x[3] = c /\ y[1] = d /\ y[2] = e
  OBVIOUS
<1> HIDE DEF x, y, z
<1>4. Len(x \o y) = 5 /\ \A i \in 1..5 : (x \o y)[i] = z[i]
  BY <1>1, <1>2, <1>3, ConcatProperties DEF x, y, z
<1> QED
  BY <1>1, <1>2, <1>4, SeqEqual, ConcatProperties DEF x, y, z

\* Two short plans, step by step.
LEMMA OneAndOne ==
  ASSUME NEW S, NEW a \in S, NEW b \in S
  PROVE  <<a>> \o <<b>> = <<a, b>>
<1>1. <<a>> \in Seq(S) /\ <<b>> \in Seq(S) /\ <<a, b>> \in Seq(S)
  OBVIOUS
<1> DEFINE x == <<a>>  y == <<b>>  z == <<a, b>>
<1>2. Len(x) = 1 /\ Len(y) = 1 /\ Len(z) = 2 /\ z[1] = a /\ z[2] = b /\ x[1] = a /\ y[1] = b
  OBVIOUS
<1> HIDE DEF x, y, z
<1>4. Len(x \o y) = 2 /\ \A i \in 1..2 : (x \o y)[i] = z[i]
  BY <1>1, <1>2, ConcatProperties DEF x, y, z
<1> QED
  BY <1>1, <1>2, <1>4, SeqEqual, ConcatProperties DEF x, y, z

\* Every step a plan is made of is a step.
LEMMA StepTypes ==
  /\ \A id \in EventIds : Event(id.type, id.window) \in Steps
  /\ \A s \in States, w \in Windows : Write(s, w) \in Steps
  /\ \A w \in Windows : Mediation(w) \in Steps
BY DEF Steps

\* The events of a window.
LEMMA EventTypes ==
  /\ \A type \in Types, w \in Windows : Event(type, w) \in Steps
  /\ Event("registered", 0) \in Steps /\ Event("degraded", 0) \in Steps
<1>1. ASSUME NEW type \in Types, NEW w \in Windows PROVE Event(type, w) \in Steps
  <2>1. [type |-> type, window |-> w] \in EventIds
    BY DEF EventIds
  <2> QED
    BY <2>1, StepTypes
<1>2. ASSUME NEW type \in {"registered", "degraded"} PROVE Event(type, 0) \in Steps
  <2>1. [type |-> type, window |-> 0] \in EventIds
    BY DEF EventIds
  <2> QED
    BY <2>1, StepTypes
<1> QED
  BY <1>1, <1>2

\* What the thread has ahead of it after each decision, step by step.
LEMMA Plans ==
  ASSUME NEW w \in Windows
  PROVE  /\ \A sent \in BOOLEAN : Execution(w, sent) =
              <<Event("reserved", w), Write("EXECUTING", w), Event("executing", w),
                Write(End(sent), w), Event(EndEvent(sent), w)>>
         /\ Opening(w) = <<Event("received", w), Mediation(w)>>
         /\ Deferral(w) = <<Event("deferred", w)>>
         /\ Rerun(w) = <<Event("degraded", w), Event("deferred", w)>>
<1>1. ASSUME NEW sent \in BOOLEAN
      PROVE  Execution(w, sent) =
               <<Event("reserved", w), Write("EXECUTING", w), Event("executing", w),
                 Write(End(sent), w), Event(EndEvent(sent), w)>>
  <2>1. /\ Event("reserved", w) \in Steps /\ Write("EXECUTING", w) \in Steps
        /\ Event("executing", w) \in Steps
        /\ Write("CONFIRMED", w) \in Steps /\ Event("confirmed", w) \in Steps
        /\ Write("ROLLED_BACK", w) \in Steps /\ Event("rolled_back", w) \in Steps
    BY StepTypes, EventTypes DEF Types, States
  <2>2. CASE sent
    BY <2>1, <2>2, ThreeAndTwo DEF Execution, End, EndEvent
  <2>3. CASE ~sent
    BY <2>1, <2>3, ThreeAndTwo DEF Execution, End, EndEvent
  <2> QED
    BY <2>2, <2>3
<1>2. Event("degraded", w) \in Steps /\ Event("deferred", w) \in Steps
  BY EventTypes DEF Types
<1> QED
  BY <1>1, <1>2, OneAndOne DEF Opening, Mediation, Deferral, Rerun

\* Every plan is a sequence of steps.
LEMMA PlanTypes ==
  /\ \A w \in Windows :
       /\ \A sent \in BOOLEAN : Execution(w, sent) \in Seq(Steps)
       /\ Opening(w) \in Seq(Steps) /\ Deferral(w) \in Seq(Steps) /\ Rerun(w) \in Seq(Steps)
  /\ Preparation \in Seq(Steps)
<1>1. ASSUME NEW w \in Windows
      PROVE  /\ \A sent \in BOOLEAN : Execution(w, sent) \in Seq(Steps)
             /\ Opening(w) \in Seq(Steps) /\ Deferral(w) \in Seq(Steps) /\ Rerun(w) \in Seq(Steps)
  <2>1. /\ Event("received", w) \in Steps /\ Mediation(w) \in Steps
        /\ Event("deferred", w) \in Steps /\ Event("degraded", w) \in Steps
        /\ Event("reserved", w) \in Steps /\ Write("EXECUTING", w) \in Steps
        /\ Event("executing", w) \in Steps
    BY StepTypes, EventTypes DEF Types, States
  <2>2. ASSUME NEW sent \in BOOLEAN
        PROVE  Write(End(sent), w) \in Steps /\ Event(EndEvent(sent), w) \in Steps
    <3>1. End(sent) \in States /\ EndEvent(sent) \in Types
      BY DEF End, EndEvent, States, Types
    <3> QED
      BY <3>1, StepTypes, EventTypes
  <2>3. ASSUME NEW sent \in BOOLEAN PROVE Execution(w, sent) \in Seq(Steps)
    <3>1. <<Event("reserved", w), Write("EXECUTING", w), Event("executing", w),
            Write(End(sent), w), Event(EndEvent(sent), w)>> \in Seq(Steps)
      BY <2>1, <2>2
    <3>2. Execution(w, sent) =
            <<Event("reserved", w), Write("EXECUTING", w), Event("executing", w),
              Write(End(sent), w), Event(EndEvent(sent), w)>>
      BY Plans
    <3> QED
      BY <3>1, <3>2
  <2> QED
    BY <2>1, <2>3, Plans
<1>2. Preparation \in Seq(Steps)
  BY EventTypes DEF Preparation
<1> QED
  BY <1>1, <1>2

-----------------------------------------------------------------------------
(* What each action does to the records of the runs. *)

\* The mediation of a window puts a plan in the place of the step.
LEMMA MediateDoes ==
  ASSUME Core, NEW g \in Runs, Mediate(g)
  PROVE  LET w == Head(runner[g].todo)[3]
         IN  /\ g = session.run /\ path[g] = g /\ w \in Windows /\ runner[g].todo # <<>>
             /\ Head(runner[g].todo)[1] = "mediate" /\ Busy(g)
             /\ Runners' /\ Others(g)
             /\ runner'[g].at = runner[g].at /\ runner'[g].window = runner[g].window
             /\ \/ /\ grants' = [grants EXCEPT ![g][w] = "RESERVED"]
                   /\ runner'[g].cut = runner[g].cut
                   /\ \E sent \in BOOLEAN : runner'[g].todo = Execution(w, sent)
                \/ /\ grants' = grants /\ runner'[g].cut = runner[g].cut
                   /\ runner'[g].todo = Deferral(w)
                \/ /\ grants' = [grants EXCEPT ![g][w] = "RESERVED"]
                   /\ runner'[g].cut = runner[g].cut \cup {w}
                   /\ runner'[g].todo = Rerun(w)
                \/ /\ grants' = grants /\ runner'[g].cut = runner[g].cut
                   /\ runner'[g].todo = Rerun(w)
<1> DEFINE w == Head(runner[g].todo)[3]
<1>1. /\ g = session.run /\ path[g] = g /\ w \in Windows /\ runner[g].todo # <<>>
      /\ Head(runner[g].todo)[1] = "mediate" /\ Busy(g)
  BY OneRun, NextStep, StepKinds DEF Mediate, Doing
<1>2. Runners
  BY DEF Core, Shape
<1> HIDE DEF w
<1>3. PICK granted \in BOOLEAN :
        /\ grants' = IF granted THEN [grants EXCEPT ![g][w] = "RESERVED"] ELSE grants
        /\ \/ \E sent \in BOOLEAN :
                runner' = [runner EXCEPT ![g].todo =
                  IF granted THEN Execution(w, sent) ELSE Deferral(w)]
           \/ runner' = [runner EXCEPT
                ![g].todo = Rerun(w), ![g].scorer = "heuristic",
                ![g].cut = IF granted THEN @ \cup {w} ELSE @]
  BY <1>1 DEF Mediate, w
<1>4. CASE \E sent \in BOOLEAN :
             runner' = [runner EXCEPT ![g].todo =
               IF granted THEN Execution(w, sent) ELSE Deferral(w)]
  <2>1. PICK sent \in BOOLEAN :
          runner' = [runner EXCEPT ![g].todo =
            IF granted THEN Execution(w, sent) ELSE Deferral(w)]
    BY <1>4
  <2>2. PICK todo \in Seq(Steps) : todo = IF granted THEN Execution(w, sent) ELSE Deferral(w)
    BY <1>1, PlanTypes
  <2>3. runner' = [runner EXCEPT ![g].todo = todo]
    BY <2>1, <2>2
  <2>4. /\ Runners' /\ Others(g) /\ runner'[g].todo = todo
        /\ runner'[g].at = runner[g].at /\ runner'[g].window = runner[g].window
        /\ runner'[g].cut = runner[g].cut
    BY <1>2, <2>3 DEF Runners, Others, Fields
  <2> QED
    BY <1>1, <1>3, <2>2, <2>4 DEF w
<1>5. CASE runner' = [runner EXCEPT
             ![g].todo = Rerun(w), ![g].scorer = "heuristic",
             ![g].cut = IF granted THEN @ \cup {w} ELSE @]
  <2>1. PICK todo \in Seq(Steps) : todo = Rerun(w)
    BY <1>1, PlanTypes
  <2>2. PICK cut : cut = IF granted THEN runner[g].cut \cup {w} ELSE runner[g].cut
    OBVIOUS
  <2>3. runner' = [runner EXCEPT ![g].todo = todo, ![g].scorer = "heuristic", ![g].cut = cut]
    BY <1>2, <1>5, <2>1, <2>2 DEF Runners, Fields
  <2>4. /\ Runners' /\ Others(g) /\ runner'[g].todo = todo
        /\ runner'[g].at = runner[g].at /\ runner'[g].window = runner[g].window
        /\ runner'[g].cut = cut
    BY <1>2, <2>3 DEF Runners, Others, Fields
  <2> QED
    BY <1>1, <1>3, <2>1, <2>2, <2>4 DEF w
<1> QED
  BY <1>3, <1>4, <1>5

\* The loop of run.
LEMMA NextWindowDoes ==
  ASSUME Core, NEW g \in Runs, NextWindow(g)
  PROVE  /\ g = session.run /\ runner[g].todo = <<>> /\ Threaded(g) /\ tx[g] = Idle
         /\ Runners' /\ Others(g) /\ runner'[g].cut = runner[g].cut
         /\ \/ /\ runner'[g].at \in {"stopped", "finished"} /\ runner'[g].todo = <<>>
               /\ runner'[g].window = runner[g].window
            \/ /\ runner[g].window + 1 \in Windows
               /\ runner'[g].window = runner[g].window + 1 /\ runner'[g].at = "running"
               /\ runner'[g].todo = Opening(runner[g].window + 1)
<1> DEFINE w == runner[g].window + 1
<1>1. g = session.run /\ runner[g].todo = <<>> /\ Threaded(g) /\ tx[g] = Idle
  BY OneRun DEF NextWindow, Busy, Threaded
<1>2. Runners /\ runner[g].window \in Nat
  BY DEF Core, Shape, Runners
<1>3. CASE runner' = [runner EXCEPT ![g].at = "stopped"]
  <2>1. /\ Runners' /\ Others(g) /\ runner'[g].cut = runner[g].cut
        /\ runner'[g].at = "stopped" /\ runner'[g].todo = runner[g].todo
        /\ runner'[g].window = runner[g].window
    BY <1>2, <1>3 DEF Runners, Others, Fields
  <2> QED
    BY <1>1, <2>1
<1>4. CASE runner' = [runner EXCEPT ![g].at = "finished"]
  <2>1. /\ Runners' /\ Others(g) /\ runner'[g].cut = runner[g].cut
        /\ runner'[g].at = "finished" /\ runner'[g].todo = runner[g].todo
        /\ runner'[g].window = runner[g].window
    BY <1>2, <1>4 DEF Runners, Others, Fields
  <2> QED
    BY <1>1, <2>1
<1>5. CASE w \in Windows /\ runner' = [runner EXCEPT ![g].window = w, ![g].todo = Opening(w)]
  <2>1. PICK todo \in Seq(Steps) : todo = Opening(w)
    BY <1>5, PlanTypes
  <2>2. PICK n \in Nat : n = w
    BY <1>2
  <2>3. runner' = [runner EXCEPT ![g].window = n, ![g].todo = todo]
    BY <1>5, <2>1, <2>2
  <2>4. /\ Runners' /\ Others(g) /\ runner'[g].cut = runner[g].cut
        /\ runner'[g].at = runner[g].at /\ runner'[g].todo = todo /\ runner'[g].window = n
    BY <1>2, <2>3 DEF Runners, Others, Fields
  <2> QED
    BY <1>1, <1>5, <2>1, <2>2, <2>4 DEF Threaded
<1> QED
  BY <1>3, <1>4, <1>5 DEF NextWindow

\* The thread is started on a run that is prepared.
LEMMA LaunchDoes ==
  ASSUME Core, Launch
  PROVE  /\ session.run \in Runs /\ Preparing(session.run)
         /\ runner[session.run].todo = <<>> /\ tx[session.run] = Idle
         /\ Runners' /\ Others(session.run) /\ runner'[session.run].at = "running"
         /\ runner'[session.run].todo = <<>>
         /\ runner'[session.run].window = runner[session.run].window
         /\ runner'[session.run].cut = runner[session.run].cut
<1>1. PICK g : g = session.run
  OBVIOUS
<1>2. /\ g \in Runs /\ Preparing(g) /\ runner[g].todo = <<>> /\ tx[g] = Idle /\ Runners
      /\ runner' = [runner EXCEPT ![g].at = "running"]
  BY <1>1 DEF Core, Shape, Turns, Launch
<1>3. /\ Runners' /\ Others(g) /\ runner'[g].at = "running"
      /\ runner'[g].todo = runner[g].todo
      /\ runner'[g].window = runner[g].window /\ runner'[g].cut = runner[g].cut
  BY <1>2 DEF Runners, Others, Fields
<1> QED
  BY <1>1, <1>2, <1>3

\* What prepare has to do.
LEMMA PrepareDoes ==
  ASSUME Runners, NEW g \in Runs, NEW todo \in Seq(Steps),
         runner' = [runner EXCEPT ![g].at = "preparing", ![g].todo = todo]
  PROVE  /\ Runners' /\ Others(g) /\ runner'[g].at = "preparing" /\ runner'[g].todo = todo
         /\ runner'[g].window = runner[g].window
BY DEF Runners, Others, Fields

\* A new run is the next one, and there is no other.
LEMMA CreateDoes ==
  ASSUME Core, Create, NEW g, g = started + 1
  PROVE  /\ g \in Runs /\ session.run = NoRun
         /\ Runners' /\ Others(g) /\ runner'[g].at = "preparing"
         /\ runner'[g].todo = Preparation /\ runner'[g].window = 0
<1>2. /\ g \in Runs /\ session.run = NoRun /\ Runners
      /\ runner' = [runner EXCEPT ![g].at = "preparing", ![g].todo = Preparation]
  BY DEF Core, Shape, Born, Turns, Create
<1>3. runner[g] = NoRunner
  BY <1>2, ConstantFacts DEF Core, Places
<1>4. PICK todo \in Seq(Steps) : todo = Preparation
  BY PlanTypes
<1>5. runner' = [runner EXCEPT ![g].at = "preparing", ![g].todo = todo]
  BY <1>2, <1>4
<1>6. /\ Runners' /\ Others(g) /\ runner'[g].at = "preparing" /\ runner'[g].todo = todo
      /\ runner'[g].window = runner[g].window
  BY <1>2, <1>5, PrepareDoes
<1>7. runner[g].window = 0
  BY <1>3 DEF NoRunner
<1> QED
  BY <1>2, <1>4, <1>6, <1>7

\* The seam of the scorer is not what a run is followed by.
LEMMA KillDoes ==
  ASSUME Core, KillModel
  PROVE  /\ session.run \in Runs /\ Runners' /\ Others(session.run)
         /\ runner'[session.run].at = runner[session.run].at
         /\ runner'[session.run].todo = runner[session.run].todo
         /\ runner'[session.run].window = runner[session.run].window
         /\ runner'[session.run].cut = runner[session.run].cut
<1>1. PICK g : g = session.run
  OBVIOUS
<1>2. g \in Runs /\ Runners /\ runner' = [runner EXCEPT ![g].scorer = "killed"]
  BY <1>1 DEF Core, Shape, KillModel
<1>3. /\ Runners' /\ Others(g) /\ runner'[g].at = runner[g].at
      /\ runner'[g].todo = runner[g].todo
      /\ runner'[g].window = runner[g].window /\ runner'[g].cut = runner[g].cut
  BY <1>2 DEF Runners, Others, Fields
<1> QED
  BY <1>1, <1>2, <1>3

\* After a close there is no run.
LEMMA CloseDoes ==
  ASSUME Core, Close
  PROVE  Runners' /\ \A g \in Runs : runner'[g] = NoRunner
<1>1. CASE session.run = NoRun
  <2>1. \A g \in Runs : g # NoRun
    BY ConstantFacts
  <2> QED
    BY <1>1, <2>1 DEF Close, Core, Shape, Runners, Places
<1>2. CASE session.run # NoRun
  <2>1. PICK g \in Runs : g = session.run
    BY <1>2 DEF Core, Shape
  <2>2. runner' = [runner EXCEPT ![g] = NoRunner] /\ Runners /\ <<>> \in Seq(Steps)
    BY <1>2, <2>1 DEF Close, Core, Shape
  <2>3. Runners' /\ runner'[g] = NoRunner /\ Others(g)
    BY <2>2 DEF Runners, NoRunner, Others, Fields
  <2> QED
    BY <2>1, <2>3 DEF Core, Places, Others
<1> QED
  BY <1>1, <1>2

-----------------------------------------------------------------------------
(* The types. *)

\* The thread of a run.
LEMMA ShapeThread ==
  ASSUME Core, NEW g \in Runs, Thread(g)
  PROVE  Shape'
<1>1. Shape /\ Runners /\ g \in Schemas
  BY ConstantFacts DEF Core, Shape
<1>2. session' = session /\ started' = started
  BY DEF Thread, StatementFails, RecordEvent, AppendStep, CommitDrop, AppendFails, AppendRaises,
         WriteGrant, Mediate, NextWindow, control
<1>3. CASE StatementFails(g) \/ AppendRaises(g)
  BY <1>1, <1>2, <1>3, FailedDoes DEF StatementFails, AppendRaises, Shape, state
<1>4. CASE RecordEvent(g) \/ AppendFails(g)
  BY <1>1, <1>2, <1>4 DEF RecordEvent, AppendFails, Shape, Runners, state, control
<1>5. CASE AppendStep(g)
  <2>1. CASE runner' = runner
    BY <1>1, <1>2, <1>5, <2>1 DEF AppendStep, Shape, Runners, state
  <2>2. CASE runner' # runner
    <3>1. Next1(g) /\ tx'[g] = Idle /\ Continue(g)
      BY <1>5, <2>2 DEF AppendStep
    <3>2. tx[g].stage # "idle"
      BY <3>1 DEF Continue, TakeLock, FindEvent, ReadHead, Insert, Refuse, Commit
    <3>3. runner[g].todo # <<>>
      BY <3>2 DEF Core, Appending, Doing
    <3> QED
      BY <1>1, <1>2, <1>5, <3>1, <3>3, Next1Does DEF AppendStep, Shape, state
  <2> QED
    BY <2>1, <2>2
<1>6. CASE CommitDrop(g)
  <2>1. tx[g].stage # "idle" /\ Next1(g)
    BY <1>6 DEF CommitDrop
  <2>2. runner[g].todo # <<>>
    BY <2>1 DEF Core, Appending, Doing
  <2>3. Runners'
    BY <1>1, <2>1, <2>2, Next1Does
  <2>4. /\ path' = [path EXCEPT ![g] = Nowhere]
        /\ grants' = [grants EXCEPT ![g] = [w \in Windows |-> "none"]]
        /\ active' = [active EXCEPT ![g] = FALSE]
    BY <1>6 DEF CommitDrop, PathAfterDrop, Emptied
  <2>5. [w \in Windows |-> "none"] \in [Windows -> States]
    BY DEF States
  <2> QED
    BY <1>1, <1>2, <2>3, <2>4, <2>5 DEF Shape
<1>7. CASE WriteGrant(g)
  <2> DEFINE step == Head(runner[g].todo)
  <2>1. /\ path[g] = g /\ runner[g].todo # <<>> /\ step[2] \in States /\ step[3] \in Windows
    BY <1>7, OneRun, NextStep, StepKinds DEF WriteGrant
  <2>2. Runners'
    BY <1>1, <1>7, <2>1, Next1Does DEF WriteGrant
  <2>3. grants' = [grants EXCEPT ![g][step[3]] = step[2]]
    BY <1>7, <2>1 DEF WriteGrant
  <2>4. grants' \in [Schemas -> [Windows -> States]]
    <3> HIDE DEF step
    <3> QED
      BY <1>1, <2>1, <2>3 DEF Shape
  <2> QED
    BY <1>1, <1>2, <1>7, <2>2, <2>4 DEF Shape, WriteGrant
<1>8. CASE Mediate(g)
  <2> DEFINE w == Head(runner[g].todo)[3]
  <2>1. w \in Windows /\ Runners'
    BY <1>8, MediateDoes
  <2>2. grants' \in {grants, [grants EXCEPT ![g][w] = "RESERVED"]}
    BY <1>8, MediateDoes
  <2>3. grants' \in [Schemas -> [Windows -> States]]
    <3> HIDE DEF w
    <3>1. "RESERVED" \in States
      BY DEF States
    <3> QED
      BY <1>1, <2>1, <2>2, <3>1 DEF Shape
  <2> QED
    BY <1>1, <1>2, <1>8, <2>1, <2>3 DEF Shape, Mediate
<1>9. CASE NextWindow(g)
  BY <1>1, <1>2, <1>9, NextWindowDoes DEF Shape, NextWindow, state
<1> QED
  BY <1>3, <1>4, <1>5, <1>6, <1>7, <1>8, <1>9 DEF Thread

\* The calls of the API.
LEMMA ShapeApi ==
  ASSUME Core, Api
  PROVE  Shape'
<1>1. Shape /\ Runners /\ session.run \in {NoRun} \cup Runs
  BY DEF Core, Shape
<1>2. session \in [op : Ops, starting : BOOLEAN, run : {NoRun} \cup Runs, thread : BOOLEAN]
  BY <1>1 DEF Shape
<1>3. CASE BeginStart \/ BeginReset
  <2>1. Runners'
    BY <1>1, <1>3, StopDoes DEF BeginStart, BeginReset
  <2>2. session' \in [op : Ops, starting : BOOLEAN, run : {NoRun} \cup Runs, thread : BOOLEAN]
    BY <1>2, <1>3 DEF BeginStart, BeginReset, Ops
  <2> QED
    BY <1>1, <1>3, <2>1, <2>2 DEF BeginStart, BeginReset, Shape, state
<1>4. CASE Join \/ Revoke
  <2>1. session' \in [op : Ops, starting : BOOLEAN, run : {NoRun} \cup Runs, thread : BOOLEAN]
    BY <1>2, <1>4 DEF Join, Revoke, Step, Done, Ops
  <2> QED
    BY <1>1, <1>4, <2>1 DEF Join, Revoke, Shape, Runners, state
<1>5. CASE Drop
  <2>1. session' \in [op : Ops, starting : BOOLEAN, run : {NoRun} \cup Runs, thread : BOOLEAN]
    BY <1>2, <1>5 DEF Drop, Step, Ops
  <2>2. path' \in {path, [path EXCEPT ![session.run] = Nowhere]}
    BY <1>5 DEF Drop, PathAfterDrop
  <2>3. /\ grants' \in {grants, [grants EXCEPT ![session.run] = [w \in Windows |-> "none"]]}
        /\ active' \in {active, [active EXCEPT ![session.run] = FALSE]}
    BY <1>5 DEF Drop, Emptied
  <2>4. [w \in Windows |-> "none"] \in [Windows -> States]
    BY DEF States
  <2>5. runner' = runner /\ started' = started
    BY <1>5 DEF Drop
  <2>6. path' \in [Runs -> Schemas \cup {Nowhere, Closed}]
    BY <1>1, <2>2 DEF Shape
  <2>7. grants' \in [Schemas -> [Windows -> States]]
    BY <1>1, <2>3, <2>4 DEF Shape
  <2>8. active' \in [Schemas -> BOOLEAN]
    BY <1>1, <2>3 DEF Shape
  <2> QED
    BY <1>1, <2>1, <2>5, <2>6, <2>7, <2>8 DEF Shape, Runners
<1>6. CASE Close
  <2>1. session' \in [op : Ops, starting : BOOLEAN, run : {NoRun} \cup Runs, thread : BOOLEAN]
    BY <1>2, <1>6 DEF Close, NoSession, Ops
  <2>2. path' \in {path, [path EXCEPT ![session.run] = Closed]}
    BY <1>6 DEF Close
  <2> QED
    BY <1>1, <1>6, <2>1, <2>2, CloseDoes DEF Close, Shape
<1>7. CASE Create
  <2>1. PICK g : g = started + 1
    OBVIOUS
  <2>2. /\ g \in Runs /\ Runners' /\ started' = g
        /\ path' = [path EXCEPT ![g] = g] /\ active' = [active EXCEPT ![g] = TRUE]
    BY <1>7, <2>1, CreateDoes DEF Create
  <2>3. session' \in [op : Ops, starting : BOOLEAN, run : {NoRun} \cup Runs, thread : BOOLEAN]
    <3>1. session' = [session EXCEPT !.op = "prepare", !.run = g]
      BY <1>7, <2>1 DEF Create
    <3>2. "prepare" \in Ops /\ g \in {NoRun} \cup Runs
      BY <2>2 DEF Ops
    <3> QED
      BY <1>2, <3>1, <3>2
  <2> QED
    BY <1>1, <1>7, <2>2, <2>3, ConstantFacts DEF Create, Shape
<1>8. CASE CreateFails
  <2>1. session' \in [op : Ops, starting : BOOLEAN, run : {NoRun} \cup Runs, thread : BOOLEAN]
    BY <1>8 DEF CreateFails, NoSession, Ops
  <2>2. started' \in Nat
    BY <1>1, <1>8 DEF CreateFails, Shape
  <2> QED
    BY <1>1, <1>8, <2>1, <2>2 DEF CreateFails, Shape, Runners
<1>9. CASE Launch
  <2>1. session' \in [op : Ops, starting : BOOLEAN, run : {NoRun} \cup Runs, thread : BOOLEAN]
    BY <1>2, <1>9 DEF Launch, Ops
  <2> QED
    BY <1>1, <1>9, <2>1, LaunchDoes DEF Launch, Shape, state
<1>10. CASE BeginRevoke
  <2>1. session' \in [op : Ops, starting : BOOLEAN, run : {NoRun} \cup Runs, thread : BOOLEAN]
    BY <1>2, <1>10 DEF BeginRevoke, Step, Ops
  <2>2. active' = [active EXCEPT ![session.run] = FALSE]
    BY <1>10 DEF BeginRevoke
  <2> QED
    BY <1>1, <1>10, <2>1, <2>2 DEF BeginRevoke, Shape, Runners
<1>11. CASE KillModel
  BY <1>1, <1>11, KillDoes DEF KillModel, Shape, state
<1> QED
  BY <1>3, <1>4, <1>5, <1>6, <1>7, <1>8, <1>9, <1>10, <1>11 DEF Api

\* After a restart there is no run.
LEMMA RestartDoes ==
  ASSUME Core, NEW oldest, Restart(oldest)
  PROVE  Runners' /\ \A g \in Runs : runner'[g] = NoRunner /\ path'[g] = Closed
<1>1. <<>> \in Seq(Steps)
  OBVIOUS
<1> QED
  BY <1>1 DEF Restart, Runners, NoRunner, Fields

\* The process dies.
LEMMA ShapeRestart ==
  ASSUME Core, NEW oldest, Restart(oldest)
  PROVE  Shape'
<1>1. session' \in [op : Ops, starting : BOOLEAN, run : {NoRun} \cup Runs, thread : BOOLEAN]
  BY DEF Restart, NoSession, Ops
<1> QED
  BY <1>1, RestartDoes DEF Restart, Shape, Core

-----------------------------------------------------------------------------
(* Who has which schema: what a step of a thread leaves alone, and the calls. *)

\* A step of the append of one connection concerns that connection and the schema
\* it appends to.
LEMMA ContinueDoes ==
  ASSUME ChainInv, NEW a \in Appenders, Continue(a)
  PROVE  /\ tx[a].stage \in {"lock", "read", "insert", "commit"}
         /\ \A b \in Appenders \ {a} : tx'[b] = tx[b]
         /\ \A s \in Schemas : s # tx[a].schema => log'[s] = log[s]
         /\ tx'[a].stage # "failed"
         /\ tx'[a] # Idle =>
              /\ log' = log /\ tx[a].stage # "commit"
              /\ tx'[a].schema = tx[a].schema
              /\ tx'[a].stage \in {"read", "insert", "commit"}
              /\ tx'[a].stage \in {"read", "insert"} => tx'[a].fact = tx[a].fact
              /\ tx'[a].stage = "commit" => tx'[a].row.id = tx[a].fact
         /\ tx'[a] = Idle =>
              \/ log' = log /\ tx[a].stage = "read" /\ Present(tx[a].fact, log[tx[a].schema])
              \/ /\ tx[a].stage = "commit"
                 /\ log' = [log EXCEPT ![tx[a].schema] = Append(@, tx[a].row)]
<1>1. tx \in [Appenders -> Appends] /\ log \in [Schemas -> Seq(Rows)]
  BY DEF ChainInv, TypeOK
<1>2. CASE TakeLock(a)
  <2>1. /\ tx[a].stage = "lock" /\ log' = log
        /\ tx' = [tx EXCEPT ![a] = [stage |-> "read", schema |-> @.schema, fact |-> @.fact]]
    BY <1>2 DEF TakeLock
  <2>2. /\ tx'[a] = [stage |-> "read", schema |-> tx[a].schema, fact |-> tx[a].fact]
        /\ \A b \in Appenders \ {a} : tx'[b] = tx[b]
    BY <1>1, <2>1
  <2>3. tx'[a].stage = "read" /\ Idle.stage = "idle"
    BY <2>2 DEF Idle
  <2> QED
    BY <2>1, <2>2, <2>3
<1>3. CASE FindEvent(a)
  BY <1>1, <1>3 DEF FindEvent, Idle
<1>4. CASE ReadHead(a)
  <2>1. /\ tx[a].stage = "read" /\ log' = log
        /\ tx' = [tx EXCEPT ![a] =
             [stage |-> "insert", schema |-> @.schema, fact |-> @.fact,
              prev |-> HeadHash(log[@.schema])]]
    BY <1>4 DEF ReadHead
  <2>2. /\ tx'[a] = [stage |-> "insert", schema |-> tx[a].schema, fact |-> tx[a].fact,
                     prev |-> HeadHash(log[tx[a].schema])]
        /\ \A b \in Appenders \ {a} : tx'[b] = tx[b]
    BY <1>1, <2>1
  <2>3. tx'[a].stage = "insert" /\ Idle.stage = "idle"
    BY <2>2 DEF Idle
  <2> QED
    BY <2>1, <2>2, <2>3
<1>5. CASE Insert(a)
  <2>1. /\ tx[a].stage = "insert" /\ log' = log
        /\ tx' = [tx EXCEPT ![a] =
             [stage |-> "commit", schema |-> @.schema,
              row |-> [id |-> @.fact, prev |-> @.prev, seq |-> seq[@.schema]]]]
    BY <1>5 DEF Insert
  <2>2. /\ tx'[a] = [stage |-> "commit", schema |-> tx[a].schema,
                     row |-> [id |-> tx[a].fact, prev |-> tx[a].prev, seq |-> seq[tx[a].schema]]]
        /\ \A b \in Appenders \ {a} : tx'[b] = tx[b]
    BY <1>1, <2>1
  <2>3. tx'[a].stage = "commit" /\ Idle.stage = "idle"
    BY <2>2 DEF Idle
  <2> QED
    BY <2>1, <2>2, <2>3
<1>6. CASE Refuse(a)
  <2>1. StillFits(a) /\ tx[a] \in Appends
    BY <1>1 DEF ChainInv
  <2>2. tx[a].stage \in {"insert", "commit"} => tx[a].schema \in Schemas
    BY <2>1, InProgress
  <2>3. ASSUME tx[a].stage \in {"insert", "commit"}
        PROVE  ~Claimed(HeadHash(log[tx[a].schema]), log[tx[a].schema])
    <3>1. log[tx[a].schema] \in Seq(Rows) /\ Chained(log[tx[a].schema], seq[tx[a].schema])
      BY <1>1, <2>2, <2>3 DEF ChainInv
    <3> QED
      BY <3>1, HeadUnclaimed
  <2>4. FALSE
    BY <1>6, <2>1, <2>3 DEF Refuse, StillFits, FitsHead
  <2> QED
    BY <2>4
<1>7. CASE Commit(a)
  <2>1. /\ tx[a].stage = "commit" /\ tx' = [tx EXCEPT ![a] = Idle]
        /\ log' = [log EXCEPT ![tx[a].schema] = Append(@, tx[a].row)]
    BY <1>7 DEF Commit
  <2>2. tx'[a] = Idle /\ \A b \in Appenders \ {a} : tx'[b] = tx[b]
    BY <1>1, <2>1
  <2> QED
    BY <1>1, <2>1, <2>2 DEF Idle
<1> QED
  BY <1>2, <1>3, <1>4, <1>5, <1>6, <1>7 DEF Continue

\* What a step of a thread leaves alone: everything of other runs, and as long as its
\* run is not being closed, its connection, its schema and its being there.
LEMMA ThreadDoes ==
  ASSUME Core, NEW g \in Runs, Thread(g)
  PROVE  /\ g = session.run
         /\ session' = session /\ started' = started /\ excused' = excused
         /\ viewer' = viewer
         /\ Others(g) /\ \A a \in Appenders \ {g} : tx'[a] = tx[a]
         /\ \A s \in Schemas \ {g} : log'[s] = log[s] /\ grants'[s] = grants[s]
         /\ \/ runner'[g].at = runner[g].at
            \/ runner[g].at = "running" /\ runner'[g].at \in {"stopped", "finished"}
            \/ session.op = "close" /\ runner'[g].at = "failed"
         /\ \/ exists' = exists /\ path' = path /\ undo' \subseteq undo
            \/ /\ session.op = "close" /\ exists' = exists \ {g} /\ undo' \subseteq undo
               /\ path' = [path EXCEPT ![g] = Nowhere]
<1>1. /\ tx \in [Appenders -> Appends] /\ log \in [Schemas -> Seq(Rows)] /\ Runners
      /\ grants \in [Schemas -> [Windows -> States]]
      /\ ChainInv /\ g \in Appenders /\ g \in Schemas
  BY ConstantFacts DEF Core, ChainInv, TypeOK, Shape
<1>2. session' = session /\ started' = started /\ excused' = excused /\ viewer' = viewer
  BY DEF Thread, StatementFails, RecordEvent, AppendStep, CommitDrop, AppendFails, AppendRaises,
         WriteGrant, Mediate, NextWindow, control
<1>3. CASE StatementFails(g)
  <2>1. g = session.run /\ ~Reaches(g)
    BY <1>3, OneRun DEF StatementFails
  <2>2. session.op = "close"
    BY <1>1, <2>1, ConstantFacts DEF Core, Places, Reaches
  <2> QED
    BY <1>1, <1>2, <1>3, <2>1, <2>2, FailedDoes DEF StatementFails, chain, state
<1>4. CASE RecordEvent(g)
  <2>1. g = session.run
    BY <1>4, NextStep DEF RecordEvent
  <2> QED
    BY <1>1, <1>2, <1>4, <2>1 DEF RecordEvent, Open, state, control, Others
<1>5. CASE AppendStep(g)
  <2>1. tx[g].stage \in {"lock", "read", "insert", "commit"} /\ Continue(g)
    BY <1>1, <1>5, ContinueDoes DEF AppendStep
  <2>2. g = session.run /\ runner[g].todo # <<>> /\ tx[g].schema = g
    BY <2>1, OneRun DEF Core, Appending, Doing, Carries
  <2>3. /\ Others(g) /\ runner'[g].at = runner[g].at
    <3>1. CASE Next1(g)
      BY <1>1, <2>2, <3>1, Next1Does
    <3>2. CASE runner' = runner
      BY <3>2 DEF Others
    <3> QED
      BY <1>5, <3>1, <3>2 DEF AppendStep
  <2>4. /\ \A a \in Appenders \ {g} : tx'[a] = tx[a]
        /\ \A s \in Schemas \ {g} : log'[s] = log[s]
    BY <1>1, <2>1, <2>2, ContinueDoes
  <2> QED
    BY <1>2, <1>5, <2>2, <2>3, <2>4 DEF AppendStep, state
<1>6. CASE CommitDrop(g)
  <2>1. g = session.run /\ session.op = "close"
    BY <1>6, OneRun DEF CommitDrop, Core, Places
  <2>2. tx[g].stage # "idle" /\ Next1(g)
    BY <1>6 DEF CommitDrop
  <2>3. runner[g].todo # <<>>
    BY <2>2 DEF Core, Appending, Doing
  <2>4. Others(g) /\ runner'[g].at = runner[g].at
    BY <1>1, <2>2, <2>3, Next1Does
  <2> QED
    BY <1>1, <1>2, <1>6, <2>1, <2>4 DEF CommitDrop, Emptied, PathAfterDrop
<1>7. CASE AppendFails(g)
  BY <1>1, <1>2, <1>7, OneRun DEF AppendFails, Rollback, control, Others
<1>8. CASE AppendRaises(g)
  <2>1. g = session.run /\ session.op = "close"
    BY <1>8, OneRun DEF AppendRaises, Core, Appending
  <2> QED
    BY <1>1, <1>2, <1>8, <2>1, FailedDoes DEF AppendRaises, state
<1>9. CASE WriteGrant(g)
  <2> DEFINE step == Head(runner[g].todo)
  <2>1. g = session.run /\ path[g] = g /\ runner[g].todo # <<>>
    BY <1>9, OneRun, NextStep DEF WriteGrant
  <2>2. Others(g) /\ runner'[g].at = runner[g].at
    BY <1>1, <1>9, <2>1, Next1Does DEF WriteGrant
  <2>3. grants' = [grants EXCEPT ![g][step[3]] = step[2]]
    BY <1>9, <2>1 DEF WriteGrant
  <2>4. \A s \in Schemas \ {g} : grants'[s] = grants[s]
    <3> HIDE DEF step
    <3> QED
      BY <1>1, <2>3
  <2> QED
    BY <1>2, <1>9, <2>1, <2>2, <2>4 DEF WriteGrant, chain
<1>10. CASE Mediate(g)
  <2> DEFINE w == Head(runner[g].todo)[3]
  <2>1. grants' \in {grants, [grants EXCEPT ![g][w] = "RESERVED"]}
    BY <1>10, MediateDoes
  <2>2. \A s \in Schemas \ {g} : grants'[s] = grants[s]
    <3> HIDE DEF w
    <3> QED
      BY <1>1, <2>1
  <2>3. g = session.run /\ Others(g) /\ runner'[g].at = runner[g].at
    BY <1>10, MediateDoes
  <2> QED
    BY <1>2, <1>10, <2>2, <2>3 DEF Mediate, chain
<1>11. CASE NextWindow(g)
  BY <1>2, <1>11, NextWindowDoes DEF NextWindow, chain, state, Threaded
<1> QED
  BY <1>3, <1>4, <1>5, <1>6, <1>7, <1>8, <1>9, <1>10, <1>11 DEF Thread

\* The thread of a run: only a DROP that it commits takes its schema away.
LEMMA PlacesThread ==
  ASSUME Core, NEW g \in Runs, Thread(g)
  PROVE  Places' /\ Turns' /\ Born' /\ SchemasAccountedFor' /\ PublicUntouched'
<1>1. /\ Places /\ Turns /\ Born /\ SchemasAccountedFor /\ PublicUntouched /\ Shape
      /\ g = session.run
  BY ThreadDoes DEF Core
<1>2. /\ session' = session /\ started' = started /\ excused' = excused
      /\ Others(g) /\ \A a \in Appenders \ {g} : tx'[a] = tx[a]
      /\ \A s \in Schemas \ {g} : log'[s] = log[s] /\ grants'[s] = grants[s]
  BY ThreadDoes
<1>3. \/ runner'[g].at = runner[g].at
      \/ runner[g].at = "running" /\ runner'[g].at \in {"stopped", "finished"}
      \/ session.op = "close" /\ runner'[g].at = "failed"
  BY ThreadDoes
<1>4. \/ exists' = exists /\ path' = path /\ undo' \subseteq undo
      \/ /\ session.op = "close" /\ exists' = exists \ {g} /\ undo' \subseteq undo
         /\ path' = [path EXCEPT ![g] = Nowhere]
  BY ThreadDoes
<1>5. path \in [Runs -> Schemas \cup {Nowhere, Closed}]
  BY <1>1 DEF Shape
<1>6. Places'
  <2>1. \A h \in Runs : path'[h] \in {h, Nowhere, Closed}
    BY <1>1, <1>4, <1>5 DEF Places
  <2>2. \A h \in Runs \ {session.run} :
          runner'[h] = NoRunner /\ tx'[h] = Idle /\ path'[h] = Closed
    BY <1>1, <1>2, <1>4, <1>5, ConstantFacts DEF Places, Others
  <2>3. session.op # "close" =>
          /\ path'[g] = g /\ g \in exists' /\ g \notin excused
          /\ runner'[g].at \in {"preparing", "running", "finished", "stopped"}
    BY <1>1, <1>3, <1>4, ConstantFacts DEF Places
  <2>4. session.op = "close" => g \notin exists' \/ g \in excused
    BY <1>1, <1>4, ConstantFacts DEF Places
  <2>5. undo' \subseteq {session.run} \cap Runs
        /\ (undo' # {} => session.op = "close" /\ session.run \in excused)
    BY <1>1, <1>4 DEF Places
  <2> QED
    BY <1>1, <1>2, <2>1, <2>2, <2>3, <2>4, <2>5 DEF Places
<1>7. Turns'
  <2>1. \A h \in Runs \ {g} : runner'[h] = runner[h]
    BY <1>2 DEF Others
  <2> QED
    BY <1>1, <1>2, <1>3, <2>1 DEF Turns, Preparing, Threaded
<1>8. Born'
  <2>1. \A h \in Runs : h > started => h # g /\ h \in Schemas
    BY <1>1, ConstantFacts DEF Born, Shape
  <2> QED
    BY <1>1, <1>2, <1>4, <2>1 DEF Born
<1>9. SchemasAccountedFor' /\ PublicUntouched'
  BY <1>1, <1>2, <1>4, ConstantFacts DEF SchemasAccountedFor, PublicUntouched
<1> QED
  BY <1>6, <1>7, <1>8, <1>9

\* A step of the API under which no run comes or goes: what may change of the runner
\* is its stop, its scorer and, when it is launched, where it is at.
LEMMA PlacesKept ==
  ASSUME Core, session'.run = session.run, session.op # "close", session'.op # "close",
         session'.op # "create", session.op # "create",
         UNCHANGED <<path, exists, undo, started, excused>>,
         Runners', Others(session.run), \A g \in Runs : tx'[g] = tx[g],
         \A s \in Schemas \ {session.run} : log'[s] = log[s] /\ grants'[s] = grants[s],
         session.run # NoRun =>
           /\ runner'[session.run].at \in {"preparing", "running", "finished", "stopped"}
           /\ (runner'[session.run].at = "preparing" <=> session'.op = "prepare")
           /\ (runner'[session.run].at = "running" => session'.thread),
         session'.op \in {"join", "drop"} /\ session'.starting => started + 1 \in Runs,
         session'.op \in {"prepare", "revoke"} => session.run # NoRun
  PROVE  Places' /\ Turns' /\ Born' /\ SchemasAccountedFor' /\ PublicUntouched'
<1>1. /\ Places /\ Turns /\ Born /\ SchemasAccountedFor /\ PublicUntouched /\ Shape
      /\ session.run \in {NoRun} \cup Runs
  BY DEF Core, Shape
<1>2. Places'
  <2>1. \A h \in Runs \ {session.run} : runner'[h] = NoRunner /\ tx'[h] = Idle
    BY <1>1 DEF Places, Others
  <2> QED
    BY <1>1, <2>1 DEF Places
<1>3. Turns'
  <2>1. \A h \in Runs \ {session.run} : ~Preparing(h)' /\ ~Threaded(h)'
    BY <1>1 DEF Places, Others, Preparing, Threaded, NoRunner
  <2> QED
    BY <1>1, <2>1, ConstantFacts DEF Turns, Preparing, Threaded
<1>4. Born'
  <2>1. \A h \in Runs : h > started => h # session.run /\ h \in Schemas
    BY <1>1, ConstantFacts DEF Born, Shape, NoRun
  <2> QED
    BY <1>1, <2>1 DEF Born
<1>5. SchemasAccountedFor' /\ PublicUntouched'
  BY <1>1, ConstantFacts DEF SchemasAccountedFor, PublicUntouched
<1> QED
  BY <1>2, <1>3, <1>4, <1>5

\* The calls that neither drop, close nor create.
LEMMA PlacesApi ==
  ASSUME Core, BeginStart \/ BeginReset \/ Join \/ Launch \/ BeginRevoke \/ Revoke \/ KillModel
  PROVE  Places' /\ Turns' /\ Born' /\ SchemasAccountedFor' /\ PublicUntouched'
<1>1. /\ Places /\ Turns /\ Born /\ Shape /\ Runners /\ ChainInv
      /\ session.run \in {NoRun} \cup Runs /\ session.op \in Ops
      /\ session \in [op : Ops, starting : BOOLEAN, run : {NoRun} \cup Runs, thread : BOOLEAN]
      /\ tx \in [Appenders -> Appends]
  BY DEF Core, Shape, ChainInv, TypeOK
<1>2. session.run # NoRun /\ session.op # "close" =>
        /\ runner[session.run].at \in {"preparing", "running", "finished", "stopped"}
        /\ (runner[session.run].at = "preparing" <=> session.op = "prepare")
        /\ (runner[session.run].at = "running" => session.thread)
  BY <1>1 DEF Places, Turns, Preparing, Threaded
<1>3. CASE BeginStart \/ BeginReset
  <2>1. /\ session'.op = "join" /\ session'.run = session.run /\ session'.thread = session.thread
        /\ session'.starting => started + 1 \in Runs
        /\ session.op = "none"
    BY <1>1, <1>3 DEF BeginStart, BeginReset, LockIsFree
  <2>2. RequestStop /\ UNCHANGED <<chain, state, started, excused>>
    BY <1>3 DEF BeginStart, BeginReset
  <2>3. Runners' /\ Others(session.run) /\ \A g \in Runs : runner'[g].at = runner[g].at
    BY <1>1, <2>2, StopDoes
  <2> QED
    BY <1>1, <1>2, <2>1, <2>2, <2>3, PlacesKept DEF chain, state
<1>4. CASE Join
  <2>1. /\ session'.op = "drop" /\ session'.run = session.run /\ session'.thread = session.thread
        /\ session'.starting = session.starting /\ session.op = "join"
        /\ UNCHANGED <<chain, state, runner, started, excused>>
    BY <1>1, <1>4 DEF Join, Step
  <2>2. Runners' /\ Others(session.run)
    BY <1>1, <2>1 DEF Runners, Others
  <2> QED
    BY <1>1, <1>2, <2>1, <2>2, PlacesKept DEF chain, state, Born
<1>5. CASE Launch
  <2>1. /\ session'.op = "none" /\ session'.run = session.run /\ session'.thread
        /\ session.op = "prepare"
        /\ UNCHANGED <<chain, state, started, excused>>
    BY <1>1, <1>5 DEF Launch
  <2> QED
    BY <1>1, <2>1, <1>5, LaunchDoes, PlacesKept DEF chain, state
<1>6. CASE BeginRevoke
  <2>1. /\ session'.op = "revoke" /\ session'.run = session.run
        /\ session'.thread = session.thread /\ session.op = "none" /\ session.run # NoRun
        /\ UNCHANGED <<log, grants, exists, path, undo, runner, started, excused>>
    BY <1>1, <1>6 DEF BeginRevoke, Step, LockIsFree, Open
  <2>2. \A g \in Runs : tx'[g] = tx[g]
    BY <1>1, <1>6, ConstantFacts DEF BeginRevoke, Open
  <2>3. Runners' /\ Others(session.run)
    BY <1>1, <2>1 DEF Runners, Others
  <2> QED
    BY <1>1, <1>2, <2>1, <2>2, <2>3, PlacesKept
<1>7. CASE Revoke
  <2>1. /\ session'.op \in {"none", "revoke"} /\ session'.run = session.run
        /\ session'.thread = session.thread /\ session.op = "revoke"
        /\ session.run # NoRun /\ session.run \in Runs
        /\ UNCHANGED <<state, runner, started, excused>>
    BY <1>1, <1>7 DEF Revoke, Done, Step, Turns
  <2>2. /\ tx[Panel].stage \in {"lock", "read", "insert", "commit"}
        /\ \A g \in Runs : tx'[g] = tx[g]
        /\ \A s \in Schemas : s # tx[Panel].schema => log'[s] = log[s]
    BY <1>1, <1>7, ContinueDoes, ConstantFacts DEF Revoke
  <2>3. tx[Panel].schema = session.run
    BY <2>2 DEF Core, Appending, Carries
  <2>4. Runners' /\ Others(session.run)
    BY <1>1, <2>1 DEF Runners, Others
  <2> QED
    BY <1>1, <1>2, <2>1, <2>2, <2>3, <2>4, PlacesKept DEF state
<1>8. CASE KillModel
  <2>1. session' = session /\ UNCHANGED <<chain, state, started, excused>> /\ session.op = "none"
    BY <1>8 DEF KillModel, LockIsFree
  <2> QED
    BY <1>1, <1>2, <1>8, <2>1, KillDoes, PlacesKept DEF chain, state
<1> QED
  BY <1>3, <1>4, <1>5, <1>6, <1>7, <1>8

\* The DROP, by itself or inside the transaction of the thread.
LEMMA PlacesDrop ==
  ASSUME Core, Drop
  PROVE  Places' /\ Turns' /\ Born' /\ SchemasAccountedFor' /\ PublicUntouched'
<1>1. /\ Places /\ Turns /\ Born /\ SchemasAccountedFor /\ PublicUntouched /\ Shape
      /\ session.run \in {NoRun} \cup Runs
      /\ session \in [op : Ops, starting : BOOLEAN, run : {NoRun} \cup Runs, thread : BOOLEAN]
      /\ log \in [Schemas -> Seq(Rows)] /\ grants \in [Schemas -> [Windows -> States]]
      /\ path \in [Runs -> Schemas \cup {Nowhere, Closed}]
  BY DEF Core, Shape, ChainInv, TypeOK
<1>2. /\ session'.op = "close" /\ session'.run = session.run /\ session'.thread = session.thread
      /\ session'.starting = session.starting /\ session.op = "drop"
      /\ UNCHANGED <<tx, runner, started>>
  BY <1>1 DEF Drop, Step
<1>3. /\ undo = {}
      /\ \A g \in Runs : ~Preparing(g)
  BY <1>1, <1>2 DEF Places, Turns
<1>4. CASE session.run = NoRun
  <2>1. UNCHANGED <<exists, path, undo, excused, log, grants>>
    BY <1>4 DEF Drop
  <2> QED
    BY <1>1, <1>2, <1>3, <1>4, <2>1
    DEF Places, Turns, Born, SchemasAccountedFor, PublicUntouched, Preparing, Threaded
<1>5. CASE session.run # NoRun
  <2>1. PICK g \in Runs : g = session.run
    BY <1>1, <1>5
  <2>2. /\ path[g] = g /\ g \in exists /\ g <= started /\ g \in Schemas /\ g # Public
    BY <1>1, <1>2, <1>5, <2>1, ConstantFacts DEF Places, Born
  <2>3. \/ /\ undo' = undo \cup {g} /\ excused' = excused \cup {g}
           /\ exists' = exists /\ path' = path
        \/ /\ exists' = exists \ {g} /\ path' = [path EXCEPT ![g] = Nowhere]
           /\ UNCHANGED <<undo, excused>>
    BY <1>5, <2>1 DEF Drop, PathAfterDrop
  <2>4. \A s \in Schemas \ {g} : log'[s] = log[s] /\ grants'[s] = grants[s]
    BY <1>1, <2>1 DEF Drop, Emptied
  <2>5. Places'
    <3>1. \A h \in Runs : path'[h] \in {h, Nowhere, Closed}
      BY <1>1, <2>3 DEF Places
    <3>2. \A h \in Runs \ {g} : runner'[h] = NoRunner /\ tx'[h] = Idle /\ path'[h] = Closed
      BY <1>1, <1>2, <2>1, <2>3 DEF Places
    <3>3. g \notin exists' \/ g \in excused'
      BY <2>3
    <3>4. undo' \subseteq {g} /\ (undo' # {} => g \in excused')
      BY <1>3, <2>3
    <3> QED
      BY <1>2, <2>1, <3>1, <3>2, <3>3, <3>4 DEF Places
  <2>6. Turns'
    BY <1>1, <1>2, <1>3 DEF Turns, Preparing, Threaded
  <2>7. Born'
    <3>1. \A h \in Runs : h > started => h # g /\ h \in Schemas
      BY <1>1, <2>1, <2>2, ConstantFacts DEF Shape
    <3> QED
      BY <1>1, <1>2, <2>1, <2>3, <2>4, <3>1 DEF Born
  <2>8. SchemasAccountedFor' /\ PublicUntouched'
    BY <1>1, <1>2, <2>1, <2>2, <2>3, <2>4, ConstantFacts DEF SchemasAccountedFor, PublicUntouched
  <2> QED
    BY <2>5, <2>6, <2>7, <2>8
<1> QED
  BY <1>4, <1>5

\* The close: what is left is accounted for.
LEMMA PlacesClose ==
  ASSUME Core, Close
  PROVE  Places' /\ Turns' /\ Born' /\ SchemasAccountedFor' /\ PublicUntouched'
<1>1. /\ Places /\ Turns /\ Born /\ SchemasAccountedFor /\ PublicUntouched /\ Shape
      /\ session.run \in {NoRun} \cup Runs
      /\ path \in [Runs -> Schemas \cup {Nowhere, Closed}] /\ tx \in [Appenders -> Appends]
      /\ Runs \subseteq Appenders
  BY ConstantFacts DEF Core, Shape, ChainInv, TypeOK
<1>2. /\ session'.op \in {"none", "create"} /\ session'.run = NoRun /\ ~session'.thread
      /\ session'.op = "create" => session.starting
      /\ session'.starting = FALSE /\ session.op = "close"
      /\ UNCHANGED <<log, exists, grants, started, excused>>
  BY DEF Close, NoSession
<1>3. Runners' /\ \A g \in Runs : runner'[g] = NoRunner
  BY CloseDoes
<1>4. \A g \in Runs : tx'[g] = Idle /\ path'[g] = Closed
  <2>1. CASE session.run = NoRun
    BY <1>1, <2>1, ConstantFacts DEF Close, Places
  <2>2. CASE session.run # NoRun
    BY <1>1, <2>2 DEF Close, Places
  <2> QED
    BY <2>1, <2>2
<1>5. undo' = {}
  BY <1>1 DEF Close, Places
<1>6. Places' /\ Turns'
  BY <1>2, <1>3, <1>4, <1>5 DEF Places, Turns, Preparing, Threaded, NoRunner
<1>7. Born'
  BY <1>1, <1>2 DEF Born, NoRun, Shape
<1>8. SchemasAccountedFor' /\ PublicUntouched'
  BY <1>1, <1>2 DEF SchemasAccountedFor, PublicUntouched, Places
<1> QED
  BY <1>6, <1>7, <1>8

\* The schema of a new run.
LEMMA PlacesCreate ==
  ASSUME Core, Create
  PROVE  Places' /\ Turns' /\ Born' /\ SchemasAccountedFor' /\ PublicUntouched'
<1>1. /\ Places /\ Turns /\ Born /\ SchemasAccountedFor /\ PublicUntouched /\ Shape
      /\ session \in [op : Ops, starting : BOOLEAN, run : {NoRun} \cup Runs, thread : BOOLEAN]
      /\ path \in [Runs -> Schemas \cup {Nowhere, Closed}] /\ started \in Nat
  BY DEF Core, Shape
<1>2. PICK g : g = started + 1
  OBVIOUS
<1>3. g \in Runs /\ Runners' /\ Others(g) /\ runner'[g].at = "preparing" /\ session.run = NoRun
  BY <1>2, CreateDoes
<1>4. /\ started' = g /\ exists' = exists \cup {g} /\ path' = [path EXCEPT ![g] = g]
      /\ session' = [session EXCEPT !.op = "prepare", !.run = g] /\ session.op = "create"
      /\ UNCHANGED <<log, tx, undo, grants, excused>>
  BY <1>2 DEF Create, chain
<1>5. session'.op = "prepare" /\ session'.run = g
  BY <1>1, <1>4
<1>6. g > started /\ g # NoRun /\ g # Public
  BY <1>1, <1>2, <1>3, ConstantFacts
<1>7. g \notin excused
  BY <1>1, <1>3, <1>6 DEF Born
<1>8. Places'
  <2>1. \A h \in Runs : path'[h] \in {h, Nowhere, Closed}
    BY <1>1, <1>4 DEF Places
  <2>2. \A h \in Runs \ {g} : runner'[h] = NoRunner /\ tx'[h] = Idle /\ path'[h] = Closed
    BY <1>1, <1>3, <1>4, ConstantFacts DEF Places, Others
  <2>3. path'[g] = g /\ undo = {}
    BY <1>1, <1>3, <1>4 DEF Places
  <2> QED
    BY <1>3, <1>4, <1>5, <1>6, <1>7, <2>1, <2>2, <2>3 DEF Places
<1>9. Turns'
  <2>1. \A h \in Runs \ {g} : ~Preparing(h)' /\ ~Threaded(h)'
    BY <1>1, <1>3, ConstantFacts DEF Places, Others, Preparing, Threaded, NoRunner
  <2> QED
    BY <1>3, <1>5, <1>6, <2>1 DEF Turns, Preparing, Threaded
<1>10. Born'
  <2>1. \A h \in Runs : h > g => h > started /\ h # g
    BY <1>1, <1>2, ConstantFacts
  <2>2. g <= g /\ g \in Schemas
    BY <1>3, ConstantFacts
  <2> QED
    BY <1>1, <1>4, <1>5, <2>1, <2>2 DEF Born
<1>11. SchemasAccountedFor' /\ PublicUntouched'
  BY <1>1, <1>3, <1>4, <1>5, ConstantFacts DEF SchemasAccountedFor, PublicUntouched, Born
<1> QED
  BY <1>8, <1>9, <1>10, <1>11

\* A start that fails leaves a schema that nobody has.
LEMMA PlacesCreateFails ==
  ASSUME Core, CreateFails
  PROVE  Places' /\ Turns' /\ Born' /\ SchemasAccountedFor' /\ PublicUntouched'
<1>1. /\ Places /\ Turns /\ Born /\ SchemasAccountedFor /\ PublicUntouched /\ Shape
      /\ started \in Nat /\ session.run = NoRun /\ session.op = "create"
  BY DEF Core, Shape, CreateFails, Turns
<1>2. PICK g : g = started + 1
  OBVIOUS
<1>3. g \in Runs
  BY <1>2, SessionAssumption DEF CreateFails
<1>4. /\ started' = g
      /\ \/ exists' = exists /\ excused' = excused
         \/ exists' = exists \cup {g} /\ excused' = excused \cup {g}
      /\ UNCHANGED <<log, tx, path, undo, grants, runner>>
  BY <1>2 DEF CreateFails, chain
<1>5. session'.op = "none" /\ session'.run = NoRun
  BY DEF CreateFails, NoSession
<1>6. Places'
  BY <1>1, <1>4, <1>5 DEF Places
<1>7. Turns'
  <2>1. \A h \in Runs : ~Preparing(h)' /\ ~Threaded(h)'
    <3>1. \A h \in Runs : h # session.run
      BY <1>1, ConstantFacts
    <3>2. \A h \in Runs : runner'[h] = NoRunner
      BY <1>1, <1>4, <3>1 DEF Places
    <3> QED
      BY <3>2 DEF Preparing, Threaded, NoRunner
  <2> QED
    BY <1>5, <2>1 DEF Turns
<1>8. Born'
  <2>1. \A h \in Runs : h > g => h > started /\ h # g
    BY <1>1, <1>2, ConstantFacts
  <2>2. NoRun <= g /\ g \in Schemas
    BY <1>3, ConstantFacts DEF NoRun
  <2> QED
    BY <1>1, <1>4, <1>5, <2>1, <2>2 DEF Born
<1>9. SchemasAccountedFor' /\ PublicUntouched'
  BY <1>1, <1>4, <1>5 DEF SchemasAccountedFor, PublicUntouched
<1> QED
  BY <1>6, <1>7, <1>8, <1>9

\* The process dies: what is left is accounted for.
LEMMA PlacesRestart ==
  ASSUME Core, NEW oldest, Restart(oldest)
  PROVE  Places' /\ Turns' /\ Born' /\ SchemasAccountedFor' /\ PublicUntouched'
<1>1. Places /\ Born /\ SchemasAccountedFor /\ PublicUntouched /\ started \in Nat
  BY DEF Core, Shape
<1>2. /\ \A g \in Runs : runner'[g] = NoRunner /\ path'[g] = Closed /\ tx'[g] = Idle
      /\ undo' = {} /\ session'.op = "none" /\ session'.run = NoRun
  BY RestartDoes, ConstantFacts DEF Restart, NoSession
<1>3. /\ exists' \subseteq exists /\ excused' = excused \cup (exists' \ {Public})
      /\ UNCHANGED <<log, grants, started>>
  BY DEF Restart
<1>4. Places' /\ Turns'
  BY <1>2 DEF Places, Turns, Preparing, Threaded, NoRunner
<1>5. Born'
  BY <1>1, <1>2, <1>3 DEF Born, NoRun
<1>6. SchemasAccountedFor' /\ PublicUntouched'
  BY <1>1, <1>2, <1>3 DEF SchemasAccountedFor, PublicUntouched
<1> QED
  BY <1>4, <1>5, <1>6

-----------------------------------------------------------------------------
(* Which append is in progress. *)

\* What the appends in progress carry stays what their callers wait for.
LEMMA AppendingThread ==
  ASSUME Core, NEW g \in Runs, Thread(g)
  PROVE  Appending'
<1>1. /\ Appending /\ ChainInv /\ Runners /\ g = session.run
      /\ tx \in [Appenders -> Appends] /\ g \in Appenders /\ Panel \in Appenders /\ Panel # g
  BY ThreadDoes, ConstantFacts DEF Core, ChainInv, TypeOK, Shape
<1>2. /\ session' = session /\ Others(g) /\ \A a \in Appenders \ {g} : tx'[a] = tx[a]
  BY ThreadDoes
<1>3. ASSUME tx'[g].stage # "idle"
      PROVE  /\ Doing(g, "event")' /\ Carries(g, g, Id(Head(runner[g].todo)))'
             /\ tx'[g].stage = "failed" => session.op = "close"
  <2>1. CASE StatementFails(g) \/ WriteGrant(g) \/ Mediate(g) \/ NextWindow(g)
    <3>1. tx' = tx /\ tx[g] # Idle
      BY <1>3, <2>1 DEF StatementFails, WriteGrant, Mediate, NextWindow, chain, Idle
    <3>2. Mediate(g)
      BY <2>1, <3>1 DEF StatementFails, WriteGrant, NextWindow
    <3>3. Head(runner[g].todo)[1] = "mediate"
      BY <3>2 DEF Mediate, Doing
    <3>4. Head(runner[g].todo)[1] = "event"
      BY <1>1, <1>3, <3>1 DEF Appending, Doing
    <3> QED
      BY <3>3, <3>4
  <2>2. CASE RecordEvent(g)
    <3>1. /\ runner' = runner /\ Doing(g, "event") /\ path[g] = g
          /\ tx' = [tx EXCEPT ![g] = [stage |-> "lock", schema |-> path[g],
                                      fact |-> Id(Head(runner[g].todo))]]
      BY <2>2, OneRun DEF RecordEvent, Open, control
    <3>2. tx'[g] = [stage |-> "lock", schema |-> g, fact |-> Id(Head(runner[g].todo))]
      BY <1>1, <3>1
    <3> QED
      BY <3>1, <3>2 DEF Doing, Carries, Busy, Preparing, Threaded
  <2>3. CASE AppendStep(g)
    <3>1. Continue(g) /\ tx'[g] # Idle
      BY <1>3, <2>3 DEF AppendStep, Idle
    <3>2. runner' = runner
      BY <2>3, <3>1 DEF AppendStep
    <3>3. /\ tx[g].stage \in {"lock", "read", "insert"}
          /\ tx'[g].schema = tx[g].schema
          /\ tx'[g].stage \in {"read", "insert", "commit"}
          /\ tx'[g].stage \in {"read", "insert"} => tx'[g].fact = tx[g].fact
          /\ tx'[g].stage = "commit" => tx'[g].row.id = tx[g].fact
      BY <1>1, <3>1, ContinueDoes
    <3>4. Doing(g, "event") /\ Carries(g, g, Id(Head(runner[g].todo)))
      BY <1>1, <3>3 DEF Appending
    <3> QED
      BY <3>2, <3>3, <3>4 DEF Doing, Carries, Busy, Preparing, Threaded
  <2>4. CASE CommitDrop(g) \/ AppendRaises(g)
    <3>1. tx'[g] = Idle
      BY <1>1, <2>4 DEF CommitDrop, AppendRaises
    <3> QED
      BY <1>3, <3>1 DEF Idle
  <2>5. CASE AppendFails(g)
    <3>1. /\ tx'[g] = [stage |-> "failed"] /\ runner' = runner /\ session.op = "close"
          /\ tx[g].stage # "idle"
      BY <1>1, <2>5 DEF AppendFails, Rollback, control, Core, Places
    <3>2. Doing(g, "event")
      BY <1>1, <3>1 DEF Appending
    <3> QED
      BY <3>1, <3>2 DEF Doing, Carries, Busy, Preparing, Threaded
  <2> QED
    BY <2>1, <2>2, <2>3, <2>4, <2>5 DEF Thread
<1>4. ASSUME NEW h \in Runs, h # g, tx'[h].stage # "idle" PROVE FALSE
  BY <1>1, <1>2, <1>4, ConstantFacts DEF Core, Places, Idle
<1>5. tx'[Panel] = tx[Panel]
  BY <1>1, <1>2
<1> QED
  BY <1>1, <1>2, <1>3, <1>4, <1>5 DEF Appending, Carries

\* An append that is not touched.
LEMMA AppendingKept ==
  ASSUME Core, session.op \notin {"close", "revoke"}, tx' = tx,
         \A g \in Runs :
           \/ tx[g] = Idle
           \/ runner'[g].todo = runner[g].todo /\ runner'[g].at = runner[g].at
  PROVE  Appending'
<1>1. Appending /\ ChainInv /\ Panel \in Appenders
  BY ConstantFacts DEF Core
<1>2. tx[Panel].stage = "idle"
  BY <1>1 DEF Appending
<1>3. ASSUME NEW g \in Runs, tx'[g].stage # "idle"
      PROVE  /\ Doing(g, "event")' /\ Carries(g, g, Id(Head(runner[g].todo)))'
             /\ tx'[g].stage # "failed"
  <2>1. /\ tx'[g] = tx[g] /\ tx[g] # Idle
    BY <1>3 DEF Idle
  <2>2. runner'[g].todo = runner[g].todo /\ runner'[g].at = runner[g].at
    BY <2>1
  <2>3. Doing(g, "event") /\ Carries(g, g, Id(Head(runner[g].todo))) /\ tx[g].stage # "failed"
    BY <1>1, <1>3, <2>1 DEF Appending
  <2> QED
    BY <2>1, <2>2, <2>3 DEF Doing, Carries, Busy, Preparing, Threaded
<1> QED
  BY <1>2, <1>3 DEF Appending

\* The calls of the API: the panel appends under the lock.
LEMMA AppendingApi ==
  ASSUME Core, Api
  PROVE  Appending'
<1>1. /\ Appending /\ ChainInv /\ Places /\ Runners /\ session.run \in {NoRun} \cup Runs
      /\ session \in [op : Ops, starting : BOOLEAN, run : {NoRun} \cup Runs, thread : BOOLEAN]
      /\ tx \in [Appenders -> Appends]
      /\ Panel \in Appenders /\ Runs \subseteq Appenders /\ Panel \notin Runs
  BY ConstantFacts DEF Core, Shape, ChainInv, TypeOK
<1>2. \A g \in Runs \ {session.run} : tx[g] = Idle
  BY <1>1 DEF Places
<1>3. CASE BeginStart \/ BeginReset
  <2>1. session.op = "none" /\ tx' = tx /\ RequestStop
    BY <1>3 DEF BeginStart, BeginReset, LockIsFree, chain
  <2>2. \A g \in Runs : runner'[g].todo = runner[g].todo /\ runner'[g].at = runner[g].at
    BY <1>1, <2>1, StopDoes
  <2> QED
    BY <2>1, <2>2, AppendingKept
<1>4. CASE Join \/ Drop \/ CreateFails
  <2>1. session.op \in {"join", "drop", "create"} /\ tx' = tx /\ runner' = runner
    BY <1>4 DEF Join, Drop, CreateFails, chain
  <2> QED
    BY <2>1, AppendingKept
<1>5. CASE Create
  <2>1. PICK g : g = started + 1
    OBVIOUS
  <2>2. g \in Runs /\ session.run = NoRun /\ tx' = tx /\ session.op = "create"
    BY <1>5, <2>1, CreateDoes DEF Create, chain
  <2>3. \A h \in Runs : tx[h] = Idle
    BY <1>2, <2>2, ConstantFacts
  <2> QED
    BY <2>2, <2>3, AppendingKept
<1>6. CASE Launch
  <2>1. tx' = tx /\ session.op = "prepare" /\ tx[session.run] = Idle
    BY <1>6 DEF Launch, chain
  <2> QED
    BY <1>2, <2>1, AppendingKept
<1>7. CASE KillModel
  <2>1. tx' = tx /\ session.op = "none"
    BY <1>7 DEF KillModel, LockIsFree, chain
  <2>2. /\ runner'[session.run].todo = runner[session.run].todo
        /\ runner'[session.run].at = runner[session.run].at
    BY <1>7, KillDoes
  <2> QED
    BY <1>2, <2>1, <2>2, AppendingKept
<1>8. CASE Close
  <2>1. \A g \in Runs : tx'[g] = Idle
    <3>1. CASE session.run = NoRun
      BY <1>1, <1>2, <1>8, <3>1, ConstantFacts DEF Close
    <3>2. CASE session.run # NoRun
      BY <1>1, <1>2, <1>8, <3>2 DEF Close
    <3> QED
      BY <3>1, <3>2
  <2>2. tx'[Panel].stage = "idle"
    <3>1. tx[Panel].stage = "idle"
      BY <1>1, <1>8 DEF Appending, Close
    <3>2. tx'[Panel] = tx[Panel]
      BY <1>1, <1>8 DEF Close
    <3> QED
      BY <3>1, <3>2
  <2> QED
    BY <2>1, <2>2 DEF Appending, Idle
<1>9. CASE BeginRevoke
  <2>1. /\ session'.op = "revoke" /\ session'.run = session.run /\ session.op = "none"
        /\ runner' = runner
        /\ tx' = [tx EXCEPT ![Panel] =
             [stage |-> "lock", schema |-> session.run,
              fact |-> [type |-> "revoked", window |-> 0]]]
    BY <1>1, <1>9 DEF BeginRevoke, Step, LockIsFree, Open
  <2>2. /\ \A g \in Runs : tx'[g] = tx[g]
        /\ tx'[Panel] = [stage |-> "lock", schema |-> session.run,
                         fact |-> [type |-> "revoked", window |-> 0]]
    BY <1>1, <2>1
  <2> QED
    BY <1>1, <2>1, <2>2 DEF Appending, Carries, Doing, Busy, Preparing, Threaded
<1>10. CASE Revoke
  <2>1. /\ session.op = "revoke" /\ session'.run = session.run /\ runner' = runner
        /\ tx'[Panel] = Idle => session'.op = "none"
        /\ tx'[Panel] # Idle => session'.op = "revoke"
    BY <1>1, <1>10 DEF Revoke, Done, Step
  <2>2. \A g \in Runs : tx'[g] = tx[g]
    BY <1>1, <1>10, ContinueDoes DEF Revoke
  <2>3. Carries(Panel, session.run, [type |-> "revoked", window |-> 0])
    BY <1>1, <1>10, ContinueDoes DEF Appending, Revoke
  <2>4. tx'[Panel] # Idle =>
          /\ tx'[Panel].stage # "failed"
          /\ Carries(Panel, session.run, [type |-> "revoked", window |-> 0])'
    BY <1>1, <1>10, <2>1, <2>3, ContinueDoes DEF Revoke, Carries
  <2>5. tx'[Panel] = Idle => tx'[Panel].stage = "idle"
    BY DEF Idle
  <2>6. ASSUME NEW g \in Runs, tx'[g].stage # "idle"
        PROVE  /\ Doing(g, "event")' /\ Carries(g, g, Id(Head(runner[g].todo)))'
               /\ tx'[g].stage # "failed"
    BY <1>1, <2>1, <2>2, <2>6 DEF Appending, Carries, Doing, Busy, Preparing, Threaded
  <2> QED
    BY <2>1, <2>4, <2>5, <2>6 DEF Appending
<1> QED
  BY <1>3, <1>4, <1>5, <1>6, <1>7, <1>8, <1>9, <1>10 DEF Api

\* The process dies: nobody appends.
LEMMA AppendingRestart ==
  ASSUME Core, NEW oldest, Restart(oldest)
  PROVE  Appending'
BY ConstantFacts DEF Restart, Appending, Idle

-----------------------------------------------------------------------------
(* Where a run is: the log, the ledger and what the thread has to do. *)

\* A row more.
LEMMA PresentAppended ==
  ASSUME NEW rows \in Seq(Rows), NEW row \in Rows, NEW fact
  PROVE  Present(fact, Append(rows, row)) <=> Present(fact, rows) \/ row.id = fact
<1> DEFINE longer == Append(rows, row)
<1>1. /\ Len(rows) \in Nat /\ DOMAIN rows = 1..Len(rows)
      /\ DOMAIN longer = 1..(Len(rows) + 1)
      /\ \A i \in 1..Len(rows) : longer[i] = rows[i]
      /\ longer[Len(rows) + 1] = row
  OBVIOUS
<1> HIDE DEF longer
<1>2. Present(fact, longer) <=> Present(fact, rows) \/ row.id = fact
  BY <1>1 DEF Present
<1> QED
  BY <1>2 DEF longer

\* The facts of a window, once one more is recorded.
LEMMA OneMoreTold ==
  ASSUME NEW g, NEW w \in Windows, NEW t, NEW v,
         \A type \in Stages, u \in Windows :
           Recorded(g, type, u)' <=> Recorded(g, type, u) \/ (type = t /\ u = v),
         NEW types, Told(g, w, types)
  PROVE  /\ v # w => Told(g, w, types)'
         /\ v = w /\ t \in Stages => Told(g, w, types \cup {t})'
         /\ v = w /\ t \notin Stages => Told(g, w, types)'
BY DEF Told

\* Nothing of what is told of a window has changed, nor its grant.
LEMMA WindowKept ==
  ASSUME NEW g, NEW w \in Windows,
         \A type \in Stages : Recorded(g, type, w)' <=> Recorded(g, type, w),
         grants'[g][w] = grants[g][w], runner[g].cut \subseteq runner'[g].cut
  PROVE  /\ Fresh(g, w) => Fresh(g, w)'
         /\ Settled(g, w) => Settled(g, w)'
         /\ \A todo : Position(g, w, todo) => Position(g, w, todo)'
<1>1. ASSUME NEW types, Told(g, w, types) PROVE Told(g, w, types)'
  BY <1>1 DEF Told
<1>2. Unserved(g, w) => Unserved(g, w)'
  BY DEF Unserved
<1>3. Fresh(g, w) => Fresh(g, w)'
  BY <1>1 DEF Fresh
<1>4. Settled(g, w) => Settled(g, w)'
  BY <1>1, <1>2 DEF Settled
<1>5. ASSUME NEW todo, Position(g, w, todo) PROVE Position(g, w, todo)'
  <2>1. Beginning(g, w, todo) => Beginning(g, w, todo)'
    BY <1>1 DEF Beginning
  <2>2. Deferring(g, w, todo) => Deferring(g, w, todo)'
    BY <1>1, <1>2 DEF Deferring
  <2>3. Executing(g, w, todo) => Executing(g, w, todo)'
    BY <1>1 DEF Executing
  <2> QED
    BY <1>5, <2>1, <2>2, <2>3 DEF Position
<1> QED
  BY <1>3, <1>4, <1>5

\* An event of the open window is recorded: the window is one step further.
LEMMA EventRecorded ==
  ASSUME NEW g, NEW w \in Windows, NEW todo, Position(g, w, todo), Head(todo)[1] = "event",
         \A type \in Stages, u \in Windows :
           Recorded(g, type, u)' <=>
             Recorded(g, type, u) \/ (type = Head(todo)[2] /\ u = Head(todo)[3]),
         grants'[g][w] = grants[g][w], runner'[g].cut = runner[g].cut
  PROVE  /\ Head(todo)[3] = w
         /\ Tail(todo) # <<>> => Position(g, w, Tail(todo))'
         /\ Tail(todo) = <<>> => Settled(g, w)'
<1>1. ASSUME NEW type, NEW types, Head(todo) = Event(type, w), Told(g, w, types)
      PROVE  /\ type \in Stages => Told(g, w, types \cup {type})'
             /\ type \notin Stages => Told(g, w, types)'
             /\ Head(todo)[3] = w
  <2>1. Head(todo)[2] = type /\ Head(todo)[3] = w
    BY <1>1 DEF Event
  <2>2. \A t \in Stages, u \in Windows :
          Recorded(g, t, u)' <=> Recorded(g, t, u) \/ (t = type /\ u = w)
    BY <2>1
  <2> QED
    BY <1>1, <2>1, <2>2, OneMoreTold
<1>2. ASSUME Beginning(g, w, todo)
      PROVE  /\ Head(todo)[3] = w /\ Tail(todo) # <<>> /\ Position(g, w, Tail(todo))'
  <2>1. ASSUME todo = <<Mediation(w)>> PROVE FALSE
    <3>1. Head(todo) = Mediation(w)
      BY <2>1
    <3>2. Mediation(w)[1] = "mediate"
      BY DEF Mediation
    <3> QED
      BY <3>1, <3>2
  <2>2. /\ todo = <<Event("received", w), Mediation(w)>> /\ Told(g, w, {})
        /\ grants[g][w] = "none"
    BY <1>2, <2>1 DEF Beginning
  <2>3. Head(todo) = Event("received", w) /\ Tail(todo) = <<Mediation(w)>>
    BY <2>2
  <2>4. Told(g, w, {} \cup {"received"})' /\ Head(todo)[3] = w
    BY <1>1, <2>2, <2>3 DEF Stages, Types
  <2>5. Told(g, w, {"received"})'
    BY <2>4 DEF Told
  <2>6. Beginning(g, w, Tail(todo))' /\ Tail(todo) # <<>>
    BY <2>2, <2>3, <2>5 DEF Beginning
  <2> QED
    BY <2>3, <2>4, <2>6 DEF Position
<1>3. ASSUME Deferring(g, w, todo)
      PROVE  /\ Head(todo)[3] = w
             /\ Tail(todo) # <<>> => Position(g, w, Tail(todo))'
             /\ Tail(todo) = <<>> => Settled(g, w)'
  <2>1. Told(g, w, {"received"}) /\ Unserved(g, w)'
    BY <1>3 DEF Deferring, Unserved
  <2>2. CASE todo = <<Event("degraded", w), Event("deferred", w)>>
    <3>1. Head(todo) = Event("degraded", w) /\ Tail(todo) = <<Event("deferred", w)>>
      BY <2>2
    <3>2. Told(g, w, {"received"})' /\ Head(todo)[3] = w
      BY <1>1, <2>1, <3>1 DEF Stages, Types
    <3>3. Deferring(g, w, Tail(todo))'
      BY <2>1, <3>1, <3>2 DEF Deferring
    <3> QED
      BY <3>1, <3>2, <3>3 DEF Position
  <2>3. CASE todo = <<Event("deferred", w)>>
    <3>1. Head(todo) = Event("deferred", w) /\ Tail(todo) = <<>>
      BY <2>3
    <3>2. Told(g, w, {"received"} \cup {"deferred"})' /\ Head(todo)[3] = w
      BY <1>1, <2>1, <3>1 DEF Stages, Types
    <3>3. Told(g, w, {"received", "deferred"})'
      BY <3>2 DEF Told
    <3> QED
      BY <2>1, <3>1, <3>2, <3>3 DEF Settled
  <2> QED
    BY <1>3, <2>2, <2>3 DEF Deferring
<1>4. ASSUME Executing(g, w, todo)
      PROVE  /\ Head(todo)[3] = w
             /\ Tail(todo) # <<>> => Position(g, w, Tail(todo))'
             /\ Tail(todo) = <<>> => Settled(g, w)'
  <2>1. PICK sent \in BOOLEAN :
    \/ /\ todo = <<Event("reserved", w), Write("EXECUTING", w), Event("executing", w),
                   Write(End(sent), w), Event(EndEvent(sent), w)>>
       /\ Told(g, w, {"received"}) /\ grants[g][w] = "RESERVED"
    \/ /\ todo = <<Write("EXECUTING", w), Event("executing", w),
                   Write(End(sent), w), Event(EndEvent(sent), w)>>
       /\ Told(g, w, {"received", "reserved"}) /\ grants[g][w] = "RESERVED"
    \/ /\ todo = <<Event("executing", w), Write(End(sent), w), Event(EndEvent(sent), w)>>
       /\ Told(g, w, {"received", "reserved"}) /\ grants[g][w] = "EXECUTING"
    \/ /\ todo = <<Write(End(sent), w), Event(EndEvent(sent), w)>>
       /\ Told(g, w, {"received", "reserved", "executing"}) /\ grants[g][w] = "EXECUTING"
    \/ /\ todo = <<Event(EndEvent(sent), w)>>
       /\ Told(g, w, {"received", "reserved", "executing"}) /\ grants[g][w] = End(sent)
    BY <1>4 DEF Executing
  <2>2. /\ Head(todo) # Write("EXECUTING", w) /\ Head(todo) # Write(End(sent), w)
    BY DEF Write
  <2>3. CASE /\ todo = <<Event("reserved", w), Write("EXECUTING", w), Event("executing", w),
                         Write(End(sent), w), Event(EndEvent(sent), w)>>
             /\ Told(g, w, {"received"}) /\ grants[g][w] = "RESERVED"
    <3>1. /\ Head(todo) = Event("reserved", w)
          /\ Tail(todo) = <<Write("EXECUTING", w), Event("executing", w),
                            Write(End(sent), w), Event(EndEvent(sent), w)>>
      BY <2>3
    <3>2. Told(g, w, {"received"} \cup {"reserved"})' /\ Head(todo)[3] = w
      BY <1>1, <2>3, <3>1 DEF Stages, Types
    <3>3. Told(g, w, {"received", "reserved"})'
      BY <3>2 DEF Told
    <3>4. Executing(g, w, Tail(todo))'
      BY <2>3, <3>1, <3>3 DEF Executing
    <3> QED
      BY <3>1, <3>2, <3>4 DEF Position
  <2>4. CASE /\ todo = <<Event("executing", w), Write(End(sent), w), Event(EndEvent(sent), w)>>
             /\ Told(g, w, {"received", "reserved"}) /\ grants[g][w] = "EXECUTING"
    <3>1. /\ Head(todo) = Event("executing", w)
          /\ Tail(todo) = <<Write(End(sent), w), Event(EndEvent(sent), w)>>
      BY <2>4
    <3>2. Told(g, w, {"received", "reserved"} \cup {"executing"})' /\ Head(todo)[3] = w
      BY <1>1, <2>4, <3>1 DEF Stages, Types
    <3>3. Told(g, w, {"received", "reserved", "executing"})'
      BY <3>2 DEF Told
    <3>4. Executing(g, w, Tail(todo))'
      BY <2>4, <3>1, <3>3 DEF Executing
    <3> QED
      BY <3>1, <3>2, <3>4 DEF Position
  <2>5. CASE /\ todo = <<Event(EndEvent(sent), w)>>
             /\ Told(g, w, {"received", "reserved", "executing"}) /\ grants[g][w] = End(sent)
    <3>1. Head(todo) = Event(EndEvent(sent), w) /\ Tail(todo) = <<>>
      BY <2>5
    <3>2. EndEvent(sent) \in Stages
      BY DEF EndEvent, Stages, Types
    <3>3. Told(g, w, {"received", "reserved", "executing"} \cup {EndEvent(sent)})'
          /\ Head(todo)[3] = w
      BY <1>1, <2>5, <3>1, <3>2
    <3>4. CASE sent
      <4>1. Told(g, w, {"received", "reserved", "executing", "confirmed"})'
        BY <3>3, <3>4 DEF Told, EndEvent
      <4> QED
        BY <2>5, <3>1, <3>3, <3>4, <4>1 DEF Settled, End
    <3>5. CASE ~sent
      <4>1. Told(g, w, {"received", "reserved", "executing", "rolled_back"})'
        BY <3>3, <3>5 DEF Told, EndEvent
      <4> QED
        BY <2>5, <3>1, <3>3, <3>5, <4>1 DEF Settled, End
    <3> QED
      BY <3>4, <3>5
  <2> QED
    BY <2>1, <2>2, <2>3, <2>4, <2>5
<1> QED
  BY <1>2, <1>3, <1>4 DEF Position

\* Of an open window, a grant is written next.
LEMMA GrantWritten ==
  ASSUME NEW g, NEW w \in Windows, NEW todo, Position(g, w, todo), Head(todo)[1] = "write",
         \A type \in Stages : Recorded(g, type, w)' <=> Recorded(g, type, w),
         Head(todo)[3] = w => grants'[g][w] = Head(todo)[2]
  PROVE  Head(todo)[3] = w /\ Tail(todo) # <<>> /\ Position(g, w, Tail(todo))'
<1>1. \A t : Event(t, w)[1] = "event"
  BY DEF Event
<1>2. Mediation(w)[1] = "mediate"
  BY DEF Mediation
<1>3. ~Beginning(g, w, todo) /\ ~Deferring(g, w, todo)
  <2>1. ASSUME Beginning(g, w, todo) PROVE FALSE
    <3>1. Head(todo) = Event("received", w) \/ Head(todo) = Mediation(w)
      BY <2>1 DEF Beginning
    <3> QED
      BY <1>1, <1>2, <3>1
  <2>2. ASSUME Deferring(g, w, todo) PROVE FALSE
    <3>1. Head(todo) = Event("degraded", w) \/ Head(todo) = Event("deferred", w)
      BY <2>2 DEF Deferring
    <3> QED
      BY <1>1, <3>1
  <2> QED
    BY <2>1, <2>2
<1>4. PICK sent \in BOOLEAN :
  \/ Head(todo) \in {Event("reserved", w), Event("executing", w), Event(EndEvent(sent), w)}
  \/ /\ todo = <<Write("EXECUTING", w), Event("executing", w),
                 Write(End(sent), w), Event(EndEvent(sent), w)>>
     /\ Told(g, w, {"received", "reserved"}) /\ grants[g][w] = "RESERVED"
  \/ /\ todo = <<Write(End(sent), w), Event(EndEvent(sent), w)>>
     /\ Told(g, w, {"received", "reserved", "executing"}) /\ grants[g][w] = "EXECUTING"
  BY <1>3 DEF Position, Executing
<1>5. ASSUME NEW types, Told(g, w, types) PROVE Told(g, w, types)'
  BY <1>5 DEF Told
<1>6. CASE /\ todo = <<Write("EXECUTING", w), Event("executing", w),
                       Write(End(sent), w), Event(EndEvent(sent), w)>>
           /\ Told(g, w, {"received", "reserved"}) /\ grants[g][w] = "RESERVED"
  <2>1. /\ Head(todo) = Write("EXECUTING", w)
        /\ Tail(todo) = <<Event("executing", w), Write(End(sent), w), Event(EndEvent(sent), w)>>
    BY <1>6
  <2>2. Head(todo)[2] = "EXECUTING" /\ Head(todo)[3] = w
    BY <2>1 DEF Write
  <2>3. Executing(g, w, Tail(todo))'
    BY <1>5, <1>6, <2>1, <2>2 DEF Executing
  <2> QED
    BY <2>1, <2>2, <2>3 DEF Position
<1>7. CASE /\ todo = <<Write(End(sent), w), Event(EndEvent(sent), w)>>
           /\ Told(g, w, {"received", "reserved", "executing"}) /\ grants[g][w] = "EXECUTING"
  <2>1. /\ Head(todo) = Write(End(sent), w) /\ Tail(todo) = <<Event(EndEvent(sent), w)>>
    BY <1>7
  <2>2. Head(todo)[2] = End(sent) /\ Head(todo)[3] = w
    BY <2>1 DEF Write
  <2>3. Executing(g, w, Tail(todo))'
    BY <1>5, <1>7, <2>1, <2>2 DEF Executing
  <2> QED
    BY <2>1, <2>2, <2>3 DEF Position
<1> QED
  BY <1>1, <1>4, <1>6, <1>7

\* An open window that is about to be mediated.
LEMMA ToBeMediated ==
  ASSUME NEW g, NEW w \in Windows, NEW todo, Position(g, w, todo), Head(todo)[1] = "mediate"
  PROVE  Head(todo)[3] = w /\ Told(g, w, {"received"}) /\ grants[g][w] = "none"
<1>1. /\ \A t, v : Event(t, v)[1] = "event"
      /\ \A t, v : Write(t, v)[1] = "write"
  BY DEF Event, Write
<1>2. ~Executing(g, w, todo) /\ ~Deferring(g, w, todo)
  <2>1. ASSUME Executing(g, w, todo) PROVE FALSE
    <3>1. \/ \E t : Head(todo) = Event(t, w)
          \/ \E t : Head(todo) = Write(t, w)
      BY <2>1 DEF Executing
    <3> QED
      BY <1>1, <3>1
  <2>2. ASSUME Deferring(g, w, todo) PROVE FALSE
    <3>1. Head(todo) = Event("degraded", w) \/ Head(todo) = Event("deferred", w)
      BY <2>2 DEF Deferring
    <3> QED
      BY <1>1, <3>1
  <2> QED
    BY <2>1, <2>2
<1>3. Beginning(g, w, todo)
  BY <1>2 DEF Position
<1>4. ~(todo = <<Event("received", w), Mediation(w)>>)
  <2>1. ASSUME todo = <<Event("received", w), Mediation(w)>> PROVE Head(todo) = Event("received", w)
    BY <2>1
  <2> QED
    BY <1>1, <2>1
<1>5. todo = <<Mediation(w)>> /\ Told(g, w, {"received"}) /\ grants[g][w] = "none"
  BY <1>3, <1>4 DEF Beginning
<1>6. Head(todo) = Mediation(w)
  BY <1>5
<1>7. Mediation(w)[3] = w
  BY DEF Mediation
<1> QED
  BY <1>5, <1>6, <1>7

\* What mediation makes of it.
LEMMA AfterMediation ==
  ASSUME NEW g, NEW w \in Windows, NEW todo,
         Told(g, w, {"received"}), grants[g][w] = "none",
         \A type \in Stages : Recorded(g, type, w)' <=> Recorded(g, type, w),
         \/ grants'[g][w] = "RESERVED" /\ \E sent \in BOOLEAN : todo = Execution(w, sent)
         \/ grants'[g][w] = "none" /\ todo \in {Deferral(w), Rerun(w)}
         \/ grants'[g][w] = "RESERVED" /\ w \in runner'[g].cut /\ todo = Rerun(w)
  PROVE  todo # <<>> /\ Position(g, w, todo)'
<1>1. Told(g, w, {"received"})'
  BY DEF Told
<1>2. CASE grants'[g][w] = "RESERVED" /\ \E sent \in BOOLEAN : todo = Execution(w, sent)
  <2>1. PICK sent \in BOOLEAN : todo = Execution(w, sent)
    BY <1>2
  <2>2. todo = <<Event("reserved", w), Write("EXECUTING", w), Event("executing", w),
                 Write(End(sent), w), Event(EndEvent(sent), w)>>
    BY <2>1, Plans
  <2>3. todo # <<>> /\ Executing(g, w, todo)'
    BY <1>1, <1>2, <2>2 DEF Executing
  <2> QED
    BY <2>3 DEF Position
<1>3. CASE todo \in {Deferral(w), Rerun(w)} /\ Unserved(g, w)'
  <2>1. todo \in {<<Event("degraded", w), Event("deferred", w)>>, <<Event("deferred", w)>>}
    BY <1>3, Plans
  <2>2. todo # <<>> /\ Deferring(g, w, todo)'
    BY <1>1, <1>3, <2>1 DEF Deferring
  <2> QED
    BY <2>2 DEF Position
<1>4. \/ grants'[g][w] = "none"
      \/ grants'[g][w] = "RESERVED" /\ w \in runner'[g].cut
      => Unserved(g, w)'
  BY DEF Unserved
<1> QED
  BY <1>2, <1>3, <1>4

\* The open window went a step further and no other window was touched.
LEMMA CourseStep ==
  ASSUME NEW g \in Runs, Progress(g), NEW w \in Windows, w = runner[g].window,
         NEW todo, todo = runner'[g].todo,
         runner'[g].window = w, runner[g].cut \subseteq runner'[g].cut,
         runner'[g].at = "running",
         \A u \in Windows \ {w} :
           /\ \A type \in Stages : Recorded(g, type, u)' <=> Recorded(g, type, u)
           /\ grants'[g][u] = grants[g][u],
         todo = <<>> => Settled(g, w)',
         todo # <<>> => Position(g, w, todo)'
  PROVE  Progress(g)'
<1>1. ASSUME NEW u \in Windows, u > w PROVE Fresh(g, u)'
  <2>1. u # w /\ Fresh(g, u)
    BY <1>1, ConstantFacts DEF Progress
  <2> QED
    BY <2>1, WindowKept
<1>2. ASSUME NEW u \in Windows, u < w PROVE Settled(g, u)'
  <2>1. u # w /\ Settled(g, u)
    BY <1>2, ConstantFacts DEF Progress
  <2> QED
    BY <2>1, WindowKept
<1>3. Threaded(g)' /\ ~Preparing(g)'
  BY DEF Threaded, Preparing
<1> QED
  BY <1>1, <1>2, <1>3 DEF Progress

\* No window was touched.
LEMMA CourseKept ==
  ASSUME NEW g \in Runs, Progress(g),
         runner'[g].todo = runner[g].todo, runner'[g].window = runner[g].window,
         runner'[g].cut = runner[g].cut,
         runner'[g].at = runner[g].at \/ runner[g].todo = <<>>,
         \A u \in Windows :
           /\ \A type \in Stages : Recorded(g, type, u)' <=> Recorded(g, type, u)
           /\ grants'[g][u] = grants[g][u]
  PROVE  Progress(g)'
<1>1. PICK w, todo : w = runner[g].window /\ todo = runner[g].todo
  OBVIOUS
<1>2. ASSUME NEW u \in Windows
      PROVE  /\ Fresh(g, u) => Fresh(g, u)'
             /\ Settled(g, u) => Settled(g, u)'
             /\ Position(g, u, todo) => Position(g, u, todo)'
  <2>1. /\ \A type \in Stages : Recorded(g, type, u)' <=> Recorded(g, type, u)
        /\ grants'[g][u] = grants[g][u] /\ runner[g].cut \subseteq runner'[g].cut
    OBVIOUS
  <2> QED
    BY <2>1, WindowKept
<1>3. /\ \A u \in Windows : u > w => Fresh(g, u)'
      /\ \A u \in Windows : u < w => Settled(g, u)'
  BY <1>1, <1>2 DEF Progress
<1>4. CASE todo = <<>>
  BY <1>1, <1>2, <1>3, <1>4 DEF Progress
<1>5. CASE todo # <<>> /\ Preparing(g)
  BY <1>1, <1>2, <1>3, <1>5 DEF Progress, Preparing
<1>6. CASE todo # <<>> /\ ~Preparing(g)
  <2>1. Threaded(g) /\ w \in Windows /\ Position(g, w, todo)
    BY <1>1, <1>6 DEF Progress
  <2>2. Threaded(g)' /\ ~Preparing(g)' /\ Position(g, w, todo)'
    BY <1>1, <1>2, <1>6, <2>1 DEF Threaded, Preparing
  <2> QED
    BY <1>1, <1>3, <1>6, <2>1, <2>2 DEF Progress
<1> QED
  BY <1>4, <1>5, <1>6

\* When the append of a connection is done, its event is in the table, and nothing
\* else has come into it.
LEMMA AppendDone ==
  ASSUME Core, NEW a \in Appenders, NEW s \in Schemas, NEW id, Carries(a, s, id),
         Continue(a), tx'[a] = Idle, NEW fact
  PROVE  Present(fact, log'[s]) <=> Present(fact, log[s]) \/ fact = id
<1>1. /\ ChainInv /\ log \in [Schemas -> Seq(Rows)] /\ tx[a] \in Appends
      /\ log[s] \in Seq(Rows)
  BY DEF Core, ChainInv, TypeOK
<1>2. \/ log' = log /\ tx[a].stage = "read" /\ Present(tx[a].fact, log[tx[a].schema])
      \/ /\ tx[a].stage = "commit"
         /\ log' = [log EXCEPT ![tx[a].schema] = Append(@, tx[a].row)]
  BY <1>1, ContinueDoes
<1>3. CASE log' = log /\ tx[a].stage = "read" /\ Present(tx[a].fact, log[tx[a].schema])
  BY <1>3 DEF Carries
<1>4. CASE /\ tx[a].stage = "commit"
           /\ log' = [log EXCEPT ![tx[a].schema] = Append(@, tx[a].row)]
  <2>1. tx[a].schema = s /\ tx[a].row.id = id /\ tx[a].row \in Rows
    BY <1>1, <1>4, InProgress DEF Carries
  <2>2. log'[s] = Append(log[s], tx[a].row)
    BY <1>1, <1>4, <2>1
  <2> QED
    BY <1>1, <2>1, <2>2, PresentAppended
<1> QED
  BY <1>2, <1>3, <1>4

\* A step of an append: when it is done, its event is recorded and no other.
LEMMA CourseAppend ==
  ASSUME Core, NEW g \in Runs, AppendStep(g), session.op # "close"
  PROVE  Progress(g)'
<1>1. /\ Continue(g) /\ g \in Appenders /\ g \in Schemas /\ ChainInv /\ Runners /\ grants' = grants
  BY ConstantFacts DEF AppendStep, Core, Shape, state
<1>2. tx[g].stage \in {"lock", "read", "insert", "commit"}
  BY <1>1, ContinueDoes
<1>3. /\ g = session.run /\ Progress(g) /\ Doing(g, "event")
      /\ Carries(g, g, Id(Head(runner[g].todo)))
  BY <1>2, OneRun, ConstantFacts DEF Core, Appending, OnCourse
<1>4. CASE tx'[g] # Idle
  <2>1. log' = log /\ runner' = runner
    BY <1>1, <1>4, ContinueDoes DEF AppendStep
  <2> QED
    BY <1>1, <1>3, <2>1, CourseKept DEF Recorded
<1>5. CASE tx'[g] = Idle
  <2>1. PICK todo, w : todo = runner[g].todo /\ w = runner[g].window
    OBVIOUS
  <2>2. /\ todo # <<>> /\ Head(todo)[1] = "event" /\ Next1(g)
    BY <1>3, <1>5, <2>1 DEF Doing, AppendStep
  <2>3. /\ runner'[g].todo = Tail(todo) /\ runner'[g].window = w
        /\ runner'[g].at = runner[g].at /\ runner'[g].cut = runner[g].cut
    BY <1>1, <2>1, <2>2, Next1Does
  <2>4. ASSUME NEW type \in Stages, NEW u \in Windows
        PROVE  Recorded(g, type, u)' <=>
                 Recorded(g, type, u) \/ (type = Head(todo)[2] /\ u = Head(todo)[3])
    <3>1. Present([type |-> type, window |-> u], log'[g]) <=>
            \/ Present([type |-> type, window |-> u], log[g])
            \/ [type |-> type, window |-> u] = Id(Head(todo))
      BY <1>1, <1>3, <1>5, <2>1, AppendDone
    <3>2. Id(Head(todo)) = [type |-> Head(todo)[2], window |-> Head(todo)[3]]
      BY DEF Id
    <3>3. [type |-> type, window |-> u] = [type |-> Head(todo)[2], window |-> Head(todo)[3]]
            <=> type = Head(todo)[2] /\ u = Head(todo)[3]
      OBVIOUS
    <3> QED
      BY <3>1, <3>2, <3>3 DEF Recorded
  <2>5. CASE Preparing(g)
    <3>1. w = 0 /\ todo \in {Preparation, <<Event("degraded", 0)>>}
      BY <1>3, <2>1, <2>2, <2>5 DEF Progress
    <3>2. /\ Head(todo)[3] = 0
          /\ Tail(todo) \in {<<>>, <<Event("degraded", 0)>>}
      <4>1. CASE todo = <<Event("registered", 0), Event("degraded", 0)>>
        <5>1. Head(todo) = Event("registered", 0) /\ Tail(todo) = <<Event("degraded", 0)>>
          BY <4>1
        <5> QED
          BY <5>1 DEF Event
      <4>2. CASE todo = <<Event("degraded", 0)>>
        <5>1. Head(todo) = Event("degraded", 0) /\ Tail(todo) = <<>>
          BY <4>2
        <5> QED
          BY <5>1 DEF Event
      <4> QED
        BY <3>1, <4>1, <4>2 DEF Preparation
    <3>3. ASSUME NEW u \in Windows PROVE Fresh(g, u)'
      <4>1. u > 0 /\ u # 0 /\ Fresh(g, u)
        BY <1>3, <2>1, <3>1, ConstantFacts DEF Progress
      <4>2. \A type \in Stages : Recorded(g, type, u)' <=> Recorded(g, type, u)
        BY <2>4, <3>2, <4>1
      <4> QED
        BY <1>1, <2>3, <4>1, <4>2, WindowKept
    <3>4. Preparing(g)' /\ 0 \notin Windows /\ \A u \in Windows : ~(u < 0)
      BY <2>3, <2>5, ConstantFacts DEF Preparing
    <3> QED
      BY <2>3, <3>1, <3>2, <3>3, <3>4 DEF Progress
  <2>6. CASE ~Preparing(g)
    <3>1. w \in Windows /\ Threaded(g) /\ Position(g, w, todo)
      BY <1>3, <2>1, <2>2, <2>6 DEF Progress
    <3>2. /\ Head(todo)[3] = w
          /\ Tail(todo) # <<>> => Position(g, w, Tail(todo))'
          /\ Tail(todo) = <<>> => Settled(g, w)'
      BY <1>1, <2>2, <2>3, <2>4, <3>1, EventRecorded
    <3>3. \A u \in Windows \ {w} :
            /\ \A type \in Stages : Recorded(g, type, u)' <=> Recorded(g, type, u)
            /\ grants'[g][u] = grants[g][u]
      BY <1>1, <2>4, <3>2
    <3>4. PICK rest : rest = Tail(todo)
      OBVIOUS
    <3>5. runner'[g].at = "running" /\ (rest # <<>> => Position(g, w, rest)')
      BY <2>3, <3>1, <3>2, <3>4 DEF Threaded
    <3> QED
      BY <1>3, <2>1, <2>3, <3>1, <3>2, <3>3, <3>4, <3>5, CourseStep
  <2> QED
    BY <2>5, <2>6
<1> QED
  BY <1>4, <1>5

\* Whoever has a step to take that is not an event is in an open window.
LEMMA InOpenWindow ==
  ASSUME NEW g \in Runs, Progress(g), NEW kind \in {"write", "mediate"}, Doing(g, kind)
  PROVE  /\ Threaded(g) /\ runner[g].window \in Windows /\ runner[g].todo # <<>>
         /\ Position(g, runner[g].window, runner[g].todo) /\ Head(runner[g].todo)[1] = kind
<1>1. runner[g].todo # <<>> /\ Head(runner[g].todo)[1] = kind
  BY DEF Doing
<1>2. ASSUME runner[g].todo \in {Preparation, <<Event("degraded", 0)>>} PROVE FALSE
  <2>1. \A t, v : Event(t, v)[1] = "event"
    BY DEF Event
  <2>2. \E t, v : Head(runner[g].todo) = Event(t, v)
    <3>1. CASE runner[g].todo = <<Event("registered", 0), Event("degraded", 0)>>
      <4>1. Head(runner[g].todo) = Event("registered", 0)
        BY <3>1
      <4> QED
        BY <4>1
    <3>2. CASE runner[g].todo = <<Event("degraded", 0)>>
      <4>1. Head(runner[g].todo) = Event("degraded", 0)
        BY <3>2
      <4> QED
        BY <4>1
    <3> QED
      BY <1>2, <3>1, <3>2 DEF Preparation
  <2> QED
    BY <1>1, <2>1, <2>2
<1> QED
  BY <1>1, <1>2 DEF Progress

\* A business write.
LEMMA CourseWrite ==
  ASSUME Core, NEW g \in Runs, WriteGrant(g), session.op # "close"
  PROVE  Progress(g)'
<1>1. PICK w, todo, rest : w = runner[g].window /\ todo = runner[g].todo /\ rest = Tail(todo)
  OBVIOUS
<1>2. /\ g = session.run /\ path[g] = g /\ g \in Schemas /\ Runners /\ log' = log
      /\ grants \in [Schemas -> [Windows -> States]]
      /\ runner[g].todo # <<>> /\ Doing(g, "write") /\ Next1(g)
  BY OneRun, NextStep, ConstantFacts DEF WriteGrant, Core, Shape, chain
<1>3. Progress(g)
  BY <1>2, ConstantFacts DEF Core, OnCourse
<1>4. /\ Threaded(g) /\ w \in Windows /\ todo # <<>> /\ Position(g, w, todo)
      /\ Head(todo)[1] = "write"
  BY <1>1, <1>2, <1>3, InOpenWindow
<1>5. /\ runner'[g].todo = rest /\ runner'[g].window = w
      /\ runner'[g].at = "running" /\ runner'[g].cut = runner[g].cut
  BY <1>1, <1>2, <1>4, Next1Does DEF Threaded
<1>6. grants' = [grants EXCEPT ![g][Head(todo)[3]] = Head(todo)[2]]
  BY <1>1, <1>2 DEF WriteGrant
<1>7. PICK v, s : v = Head(todo)[3] /\ s = Head(todo)[2]
  OBVIOUS
<1>8. v = w => grants'[g][w] = s
  BY <1>2, <1>4, <1>6, <1>7
<1>9. v = w /\ rest # <<>> /\ Position(g, w, rest)'
  <2>1. \A type \in Stages : Recorded(g, type, w)' <=> Recorded(g, type, w)
    BY <1>2 DEF Recorded
  <2>2. Head(todo)[3] = w => grants'[g][w] = Head(todo)[2]
    BY <1>7, <1>8
  <2>3. Head(todo)[3] = w /\ Tail(todo) # <<>> /\ Position(g, w, Tail(todo))'
    BY <1>4, <2>1, <2>2, GrantWritten
  <2> QED
    BY <1>1, <1>7, <2>3
<1>10. \A u \in Windows \ {w} :
         /\ \A type \in Stages : Recorded(g, type, u)' <=> Recorded(g, type, u)
         /\ grants'[g][u] = grants[g][u]
  BY <1>2, <1>4, <1>6, <1>7, <1>9 DEF Recorded
<1> QED
  BY <1>1, <1>3, <1>4, <1>5, <1>9, <1>10, CourseStep

\* The mediation of a window.
LEMMA CourseMediate ==
  ASSUME Core, NEW g \in Runs, Mediate(g), session.op # "close"
  PROVE  Progress(g)'
<1>1. PICK w, todo : w = runner[g].window /\ todo = runner'[g].todo
  OBVIOUS
<1>2. /\ g = session.run /\ g \in Schemas /\ Doing(g, "mediate") /\ log' = log
      /\ grants \in [Schemas -> [Windows -> States]]
  BY MediateDoes, ConstantFacts DEF Mediate, Core, Shape, chain
<1>3. Progress(g)
  BY <1>2, ConstantFacts DEF Core, OnCourse
<1>4. /\ Threaded(g) /\ w \in Windows /\ Position(g, w, runner[g].todo)
      /\ Head(runner[g].todo)[1] = "mediate"
  BY <1>1, <1>2, <1>3, InOpenWindow
<1>5. PICK before : before = runner[g].todo
  OBVIOUS
<1>6. Head(runner[g].todo)[3] = w /\ Told(g, w, {"received"}) /\ grants[g][w] = "none"
  BY <1>4, <1>5, ToBeMediated
<1>7. /\ runner'[g].at = "running" /\ runner'[g].window = w
      /\ \/ /\ grants' = [grants EXCEPT ![g][w] = "RESERVED"]
            /\ runner'[g].cut = runner[g].cut
            /\ \E sent \in BOOLEAN : todo = Execution(w, sent)
         \/ /\ grants' = grants /\ runner'[g].cut = runner[g].cut
            /\ todo = Deferral(w)
         \/ /\ grants' = [grants EXCEPT ![g][w] = "RESERVED"]
            /\ runner'[g].cut = runner[g].cut \cup {w}
            /\ todo = Rerun(w)
         \/ /\ grants' = grants /\ runner'[g].cut = runner[g].cut
            /\ todo = Rerun(w)
  BY <1>1, <1>4, <1>6, MediateDoes DEF Threaded
<1>8. \A u \in Windows \ {w} : grants'[g][u] = grants[g][u]
  BY <1>2, <1>4, <1>7
<1>9. \/ grants'[g][w] = "RESERVED" /\ \E sent \in BOOLEAN : todo = Execution(w, sent)
      \/ grants'[g][w] = "none" /\ todo \in {Deferral(w), Rerun(w)}
      \/ grants'[g][w] = "RESERVED" /\ w \in runner'[g].cut /\ todo = Rerun(w)
  <2>1. grants' = [grants EXCEPT ![g][w] = "RESERVED"] => grants'[g][w] = "RESERVED"
    BY <1>2, <1>4
  <2> QED
    BY <1>6, <1>7, <2>1
<1>10. todo # <<>> /\ Position(g, w, todo)'
  BY <1>2, <1>4, <1>6, <1>9, AfterMediation DEF Recorded
<1>11. \A u \in Windows, type \in Stages : Recorded(g, type, u)' <=> Recorded(g, type, u)
  BY <1>2 DEF Recorded
<1>12. runner[g].cut \subseteq runner'[g].cut
  BY <1>7
<1> QED
  BY <1>1, <1>3, <1>4, <1>7, <1>8, <1>10, <1>11, <1>12, CourseStep

\* The loop of run.
LEMMA CourseNext ==
  ASSUME Core, NEW g \in Runs, NextWindow(g), session.op # "close"
  PROVE  Progress(g)'
<1>1. PICK w : w = runner[g].window
  OBVIOUS
<1>2. /\ g = session.run /\ runner[g].todo = <<>> /\ log' = log /\ grants' = grants
      /\ runner'[g].cut = runner[g].cut /\ w \in Nat
  BY <1>1, NextWindowDoes DEF NextWindow, chain, state, Core, Shape, Runners
<1>3. Progress(g)
  BY <1>2, ConstantFacts DEF Core, OnCourse
<1>4. \A u \in Windows, type \in Stages : Recorded(g, type, u)' <=> Recorded(g, type, u)
  BY <1>2 DEF Recorded
<1>5. CASE runner'[g].todo = <<>> /\ runner'[g].window = w
  BY <1>1, <1>2, <1>3, <1>4, <1>5, CourseKept
<1>6. CASE /\ w + 1 \in Windows /\ runner'[g].window = w + 1 /\ runner'[g].at = "running"
           /\ runner'[g].todo = Opening(w + 1)
  <2>1. PICK v, todo : v = w + 1 /\ todo = runner'[g].todo
    OBVIOUS
  <2>2. /\ v \in Windows /\ runner'[g].window = v
        /\ todo = <<Event("received", v), Mediation(v)>>
    BY <1>6, <2>1, Plans
  <2>3. ASSUME NEW u \in Windows
        PROVE  /\ Fresh(g, u) => Fresh(g, u)'
               /\ Settled(g, u) => Settled(g, u)'
    BY <1>2, <1>4, WindowKept
  <2>4. ASSUME NEW u \in Windows, u > v PROVE Fresh(g, u)'
    <3>1. u > w
      BY <1>2, <2>1, <2>4, ConstantFacts
    <3> QED
      BY <1>1, <1>3, <2>3, <3>1 DEF Progress
  <2>5. ASSUME NEW u \in Windows, u < v PROVE Settled(g, u)'
    <3>1. u < w \/ u = w
      BY <1>2, <2>1, <2>5, ConstantFacts
    <3> QED
      BY <1>1, <1>2, <1>3, <2>3, <3>1 DEF Progress
  <2>6. Fresh(g, v)'
    <3>1. v > w
      BY <1>2, <2>1
    <3> QED
      BY <1>1, <1>3, <2>2, <2>3, <3>1 DEF Progress
  <2>7. Position(g, v, todo)' /\ todo # <<>>
    <3>1. Beginning(g, v, todo)' /\ todo # <<>>
      BY <2>2, <2>6 DEF Fresh, Beginning
    <3> QED
      BY <3>1 DEF Position
  <2>8. Threaded(g)' /\ ~Preparing(g)'
    BY <1>6 DEF Threaded, Preparing
  <2> QED
    BY <2>1, <2>2, <2>4, <2>5, <2>7, <2>8 DEF Progress
<1> QED
  BY <1>1, <1>5, <1>6, NextWindowDoes

\* The thread of a run whose schema is not being dropped.
LEMMA CourseThread ==
  ASSUME Core, NEW g \in Runs, Thread(g)
  PROVE  OnCourse'
<1>1. g = session.run /\ session' = session
  BY ThreadDoes
<1> SUFFICES ASSUME session.op # "close" PROVE Progress(g)'
  BY <1>1 DEF OnCourse
<1>2. Progress(g) /\ undo = {} /\ runner[g].at # "failed"
  BY <1>1, ConstantFacts DEF Core, OnCourse, Places
<1>3. runner'[g].at # "failed"
  BY <1>2, ThreadDoes
<1>4. CASE StatementFails(g) \/ AppendRaises(g)
  BY <1>3, <1>4, FailedDoes DEF StatementFails, AppendRaises, Core, Shape
<1>5. CASE RecordEvent(g)
  BY <1>2, <1>5, CourseKept DEF RecordEvent, Open, state, control, Recorded
<1>6. CASE CommitDrop(g) \/ AppendFails(g)
  BY <1>2, <1>6 DEF CommitDrop, AppendFails
<1> QED
  BY <1>4, <1>5, <1>6, CourseAppend, CourseWrite, CourseMediate, CourseNext DEF Thread

\* A step that does not touch the windows of the run, while it goes on.
LEMMA CourseSame ==
  ASSUME Core, session'.run = session.run, session.op # "close", grants' = grants,
         session.run # NoRun =>
           /\ runner'[session.run].todo = runner[session.run].todo
           /\ runner'[session.run].window = runner[session.run].window
           /\ runner'[session.run].cut = runner[session.run].cut
           /\ \/ runner'[session.run].at = runner[session.run].at
              \/ runner[session.run].todo = <<>>
           /\ \A u \in Windows, type \in Stages :
                Recorded(session.run, type, u)' <=> Recorded(session.run, type, u)
  PROVE  OnCourse'
<1> SUFFICES ASSUME session.run # NoRun PROVE Progress(session.run)'
  BY DEF OnCourse
<1>1. PICK g \in Runs : g = session.run
  BY DEF Core, Shape
<1>2. Progress(g)
  BY <1>1 DEF Core, OnCourse
<1>3. \A u \in Windows, type \in Stages : Recorded(g, type, u)' <=> Recorded(g, type, u)
  BY <1>1 DEF Recorded
<1>4. Progress(g)'
  BY <1>1, <1>2, <1>3, CourseKept
<1> QED
  BY <1>1, <1>4

\* The calls of the API: the panel records what is of no window.
LEMMA CourseApi ==
  ASSUME Core, Api
  PROVE  OnCourse'
<1>1. /\ Runners /\ session.run \in {NoRun} \cup Runs /\ ChainInv
      /\ session \in [op : Ops, starting : BOOLEAN, run : {NoRun} \cup Runs, thread : BOOLEAN]
  BY DEF Core, Shape
<1>2. log' = log => \A g, u, type : Recorded(g, type, u)' <=> Recorded(g, type, u)
  BY DEF Recorded
<1>3. CASE BeginStart \/ BeginReset
  <2>1. session.op = "none" /\ log' = log /\ grants' = grants /\ session'.run = session.run
    BY <1>1, <1>3 DEF BeginStart, BeginReset, LockIsFree, chain, state
  <2>2. RequestStop
    BY <1>3 DEF BeginStart, BeginReset
  <2>3. \A g \in Runs :
          /\ runner'[g].todo = runner[g].todo /\ runner'[g].at = runner[g].at
          /\ runner'[g].window = runner[g].window /\ runner'[g].cut = runner[g].cut
    BY <1>1, <2>2, StopDoes
  <2> QED
    BY <1>1, <1>2, <2>1, <2>3, CourseSame
<1>4. CASE Join \/ BeginRevoke
  <2>1. /\ session.op \in {"join", "none"} /\ log' = log /\ grants' = grants /\ runner' = runner
        /\ session'.run = session.run
    BY <1>1, <1>4 DEF Join, BeginRevoke, LockIsFree, Step, Open, chain, state
  <2> QED
    BY <1>2, <2>1, CourseSame
<1>5. CASE Launch
  <2>1. /\ session.op = "prepare" /\ log' = log /\ grants' = grants
        /\ session'.run = session.run
    BY <1>1, <1>5 DEF Launch, chain, state
  <2> QED
    BY <1>2, <1>5, <2>1, LaunchDoes, CourseSame
<1>6. CASE KillModel
  <2>1. /\ session.op = "none" /\ log' = log /\ grants' = grants
        /\ session'.run = session.run
    BY <1>6 DEF KillModel, LockIsFree, chain, state
  <2> QED
    BY <1>2, <1>6, <2>1, KillDoes, CourseSame
<1>7. CASE Revoke
  <2>1. /\ session.op = "revoke" /\ grants' = grants /\ runner' = runner /\ Continue(Panel)
        /\ session'.run = session.run /\ Panel \in Appenders
        /\ session.run # NoRun
    BY <1>1, <1>7, ConstantFacts DEF Revoke, Done, Step, state, Core, Turns
  <2>2. session.run \in Schemas /\ Carries(Panel, session.run, [type |-> "revoked", window |-> 0])
    BY <1>1, <2>1, ContinueDoes, ConstantFacts DEF Core, Appending
  <2>3. CASE tx'[Panel] # Idle
    BY <1>1, <1>2, <2>1, <2>3, ContinueDoes, CourseSame
  <2>4. CASE tx'[Panel] = Idle
    <3>1. ASSUME NEW u \in Windows, NEW type \in Stages
          PROVE  Recorded(session.run, type, u)' <=> Recorded(session.run, type, u)
      <4>1. PICK s \in Schemas : s = session.run
        BY <2>2
      <4>2. Carries(Panel, s, [type |-> "revoked", window |-> 0])
        BY <2>2, <4>1
      <4>3. Present([type |-> type, window |-> u], log'[s]) <=>
              \/ Present([type |-> type, window |-> u], log[s])
              \/ [type |-> type, window |-> u] = [type |-> "revoked", window |-> 0]
        BY <2>1, <2>4, <4>2, AppendDone
      <4>4. [type |-> type, window |-> u] # [type |-> "revoked", window |-> 0]
        BY DEF Stages, Types
      <4> QED
        BY <2>1, <4>1, <4>3, <4>4 DEF Recorded
    <3> QED
      BY <2>1, <3>1, CourseSame
  <2> QED
    BY <2>3, <2>4
<1>8. CASE Drop \/ Close \/ CreateFails
  <2>1. session'.op = "close" \/ session'.run = NoRun
    BY <1>1, <1>8 DEF Drop, Close, CreateFails, Step, NoSession
  <2> QED
    BY <2>1 DEF OnCourse
<1>9. CASE Create
  <2>1. PICK g : g = started + 1
    OBVIOUS
  <2>2. /\ g \in Runs /\ runner'[g].at = "preparing" /\ session.run = NoRun
        /\ runner'[g].todo = Preparation /\ runner'[g].window = 0
    BY <1>9, <2>1, CreateDoes
  <2>3. session'.run = g /\ log' = log /\ grants' = grants
    BY <1>1, <1>9, <2>1 DEF Create, chain
  <2>4. g > started
    BY <2>1 DEF Core, Shape
  <2>5. log[g] = <<>> /\ \A u \in Windows : grants[g][u] = "none"
    BY <2>2, <2>4 DEF Core, Born
  <2>6. ASSUME NEW u \in Windows PROVE Fresh(g, u)'
    <3>1. \A fact : ~Present(fact, <<>>)
      BY DEF Present
    <3> QED
      BY <2>3, <2>5, <3>1 DEF Fresh, Told, Recorded
  <2>7. /\ Preparing(g)' /\ 0 \notin Windows /\ \A u \in Windows : ~(u < 0)
    BY <2>2, ConstantFacts DEF Preparing
  <2>8. Preparation # <<>>
    BY DEF Preparation
  <2>9. Progress(g)'
    BY <2>2, <2>6, <2>7, <2>8 DEF Progress
  <2> QED
    BY <2>3, <2>9 DEF OnCourse
<1> QED
  BY <1>3, <1>4, <1>5, <1>6, <1>7, <1>8, <1>9 DEF Api

-----------------------------------------------------------------------------
(* Core is an invariant. *)

\* A step of the stream touches none of it.
LEMMA CoreUnmoved ==
  ASSUME Core, UNCHANGED <<chain, state, control>>
  PROVE  Core'
<1>1. /\ log' = log /\ seq' = seq /\ lock' = lock /\ tx' = tx
      /\ exists' = exists /\ path' = path /\ undo' = undo /\ grants' = grants
      /\ active' = active /\ runner' = runner /\ session' = session /\ started' = started
      /\ excused' = excused
  BY DEF chain, state, control
<1>2. ChainInv'
  BY NextInv DEF Core
<1>3. Shape'
  BY <1>1 DEF Core, Shape, Runners
<1>4. Places' /\ Born' /\ SchemasAccountedFor' /\ PublicUntouched'
  BY <1>1 DEF Core, Places, Born, SchemasAccountedFor, PublicUntouched
<1>5. Turns'
  BY <1>1 DEF Core, Turns, Preparing, Threaded
<1>6. Appending'
  BY <1>1 DEF Core, Appending, Carries, Doing, Busy, Preparing, Threaded
<1>7. OnCourse'
  <2>1. CASE session.op # "close"
    BY <1>1, <2>1, CourseSame DEF Recorded
  <2>2. CASE session.op = "close"
    BY <1>1, <2>2 DEF OnCourse
  <2> QED
    BY <2>1, <2>2
<1> QED
  BY <1>2, <1>3, <1>4, <1>5, <1>6, <1>7 DEF Core

\* Every step keeps it.
LEMMA CoreStep ==
  ASSUME Core, [Next]_vars
  PROVE  Core'
<1>1. ASSUME NEW g \in Runs, Thread(g) PROVE Core'
  BY <1>1, ChainThread, ShapeThread, PlacesThread, AppendingThread, CourseThread DEF Core
<1>2. CASE Api
  <2>1. Places' /\ Turns' /\ Born' /\ SchemasAccountedFor' /\ PublicUntouched'
    BY <1>2, PlacesApi, PlacesDrop, PlacesClose, PlacesCreate, PlacesCreateFails DEF Api
  <2> QED
    BY <1>2, <2>1, ChainApi, ShapeApi, AppendingApi, CourseApi DEF Core
<1>3. CASE Stream \/ Connect \/ Reconnect \/ Disconnect
  <2>1. UNCHANGED <<chain, state, control>>
    BY <1>3 DEF Stream, Poll, Check, PollFails, Connect, Reconnect, Disconnect
  <2> QED
    BY <2>1, CoreUnmoved
<1>4. ASSUME NEW oldest, Restart(oldest) PROVE Core'
  <2>1. OnCourse'
    BY <1>4 DEF Restart, NoSession, OnCourse
  <2> QED
    BY <1>4, <2>1, ChainRestart, ShapeRestart, PlacesRestart, AppendingRestart DEF Core
<1>5. CASE UNCHANGED vars
  <2>1. UNCHANGED <<chain, state, control>>
    BY <1>5 DEF vars
  <2> QED
    BY <2>1, CoreUnmoved
<1> QED
  BY <1>1, <1>2, <1>3, <1>4, <1>5 DEF Next

\* It holds at first.
LEMMA CoreInit == Init => Core
<1> SUFFICES ASSUME Init PROVE Core
  OBVIOUS
<1>1. ChainInv
  BY InitInv DEF Init
<1>2. /\ session.op = "none" /\ session.run = NoRun /\ started = 0
  BY DEF Init, NoSession
<1>3. Shape
  <2>1. session \in [op : Ops, starting : BOOLEAN, run : {NoRun} \cup Runs, thread : BOOLEAN]
    BY DEF Init, NoSession, Ops
  <2>2. <<>> \in Seq(Steps) /\ "none" \in States
    BY DEF States
  <2>3. Runners
    BY <2>2 DEF Init, Runners, NoRunner, Fields
  <2> QED
    BY <2>1, <2>2, <2>3 DEF Init, Shape
<1>4. \A g \in Runs : runner[g] = NoRunner /\ path[g] = Closed /\ tx[g] = Idle
  BY ConstantFacts DEF Init, ChainInit
<1>5. Places /\ Turns
  BY <1>2, <1>4 DEF Places, Turns, Preparing, Threaded, NoRunner, Init
<1>6. \A s \in Schemas : log[s] = <<>> /\ \A w \in Windows : grants[s][w] = "none"
  BY DEF Init, ChainInit
<1>7. Born /\ SchemasAccountedFor /\ PublicUntouched
  BY <1>2, <1>6, ConstantFacts DEF Born, SchemasAccountedFor, PublicUntouched, Init, NoSession, NoRun
<1>8. Appending
  BY ConstantFacts DEF Init, ChainInit, Appending, Idle
<1>9. OnCourse
  BY <1>2 DEF OnCourse
<1> QED
  BY <1>1, <1>3, <1>5, <1>7, <1>8, <1>9 DEF Core

\* It always holds.
LEMMA CoreHolds == Spec => []Core
BY CoreInit, CoreStep, PTL DEF Spec

-----------------------------------------------------------------------------
(* What the log says of the ledger. *)

\* A run that is not cut off is the one of the session, and on its course.
LEMMA IntactOnCourse ==
  ASSUME Core, NEW g \in Runs, Intact(g)
  PROVE  g = session.run /\ Progress(g)
<1>1. g = session.run
  BY ConstantFacts DEF Core, SchemasAccountedFor, Intact
<1>2. session.run # NoRun /\ session.op # "close"
  BY <1>1, ConstantFacts DEF Core, Places, Intact
<1> QED
  BY <1>1, <1>2 DEF Core, OnCourse

\* Where a window of a run can be.
LEMMA WhereWindows ==
  ASSUME Core, NEW g \in Runs, Intact(g), NEW w \in Windows
  PROVE  \/ Fresh(g, w)
         \/ Settled(g, w)
         \/ InWindow(g, w) /\ \E todo : Position(g, w, todo)
<1>1. Progress(g)
  BY IntactOnCourse
<1>2. runner[g].window \in Nat /\ w \in Nat /\ w # 0
  BY ConstantFacts DEF Core, Shape, Runners
<1>3. CASE w > runner[g].window
  BY <1>1, <1>3 DEF Progress
<1>4. CASE w < runner[g].window
  BY <1>1, <1>4 DEF Progress
<1>5. CASE w = runner[g].window
  BY <1>1, <1>2, <1>5 DEF Progress, InWindow
<1> QED
  BY <1>2, <1>3, <1>4, <1>5

\* Where the windows are, every grant is explained.
LEMMA ExplainedByLog == Core => GrantsExplained
<1> SUFFICES ASSUME Core, NEW g \in Runs, NEW w \in Windows, Intact(g),
                    grants[g][w] # "none", ~Recorded(g, "reserved", w)
             PROVE  InWindow(g, w) \/ w \in runner[g].cut
  BY DEF GrantsExplained
<1>1. ~Fresh(g, w)
  BY DEF Fresh
<1>2. "reserved" \in Stages
  BY DEF Stages, Types
<1>3. Settled(g, w) => Unserved(g, w)
  BY <1>2 DEF Settled, Told
<1> QED
  BY <1>1, <1>3, WhereWindows DEF Unserved

\* What the log's part of a window says of it.
LEMMA WhatIsSaid ==
  ASSUME NEW g, NEW w, NEW types, Told(g, w, types), "received" \in types,
         types \cap Lifecycle # {} => "reserved" \in types
  PROVE  Explain(g, w) = IF "reserved" \in types THEN "GRANTED"
                         ELSE IF "deferred" \in types THEN "DEFERRED" ELSE "PENDING"
<1>1. /\ Recorded(g, "received", w)
      /\ Recorded(g, "reserved", w) <=> "reserved" \in types
      /\ Recorded(g, "deferred", w) <=> "deferred" \in types
      /\ \A type \in Lifecycle : Recorded(g, type, w) <=> type \in types
  BY DEF Told, Stages, Types, Lifecycle
<1>2. (\E type \in Lifecycle : Recorded(g, type, w)) => Recorded(g, "reserved", w)
  BY <1>1
<1> QED
  BY <1>1, <1>2 DEF Explain

\* Where the windows are, every explanation holds.
LEMMA ToldTruly == Core => ExplanationsHold
<1> SUFFICES ASSUME Core, NEW g \in Runs, NEW w \in Windows, Intact(g),
                    NEW row \in ToSet(log[g]), row.id.type # "degraded", row.id.window = w
             PROVE  LET said == Explain(g, w)
                    IN  /\ said # "incomplete"
                        /\ said = "GRANTED" => grants[g][w] # "none"
                        /\ said = "DEFERRED" => grants[g][w] = "none" \/ w \in runner[g].cut
                        /\ said = "PENDING" => InWindow(g, w)
                        /\ Recorded(g, "confirmed", w) => grants[g][w] = "CONFIRMED"
                        /\ grants[g][w] \in {"EXECUTING", "CONFIRMED", "ROLLED_BACK"} =>
                             said = "GRANTED"
  BY DEF ExplanationsHold
<1>1. PICK type \in Stages : Recorded(g, type, w)
  <2>1. log[g] \in Seq(Rows)
    BY ConstantFacts DEF Core, ChainInv, TypeOK
  <2>2. PICK i \in DOMAIN log[g] : row = log[g][i]
    BY DEF ToSet
  <2>3. row \in Rows
    BY <2>1, <2>2
  <2>4. row.id \in EventIds
    BY <2>3, FactsAssumption DEF Rows
  <2>5. row.id \in [type : Types, window : Windows]
    BY <2>4, ConstantFacts DEF EventIds
  <2>6. row.id = [type |-> row.id.type, window |-> w] /\ row.id.type \in Stages
    BY <2>5 DEF Stages
  <2> QED
    BY <2>2, <2>6 DEF Recorded, Present
<1>2. ASSUME Told(g, w, {}) PROVE FALSE
  BY <1>1, <1>2 DEF Told
<1>3. ASSUME NEW types, Told(g, w, types)
      PROVE  Recorded(g, "confirmed", w) <=> "confirmed" \in types
  BY <1>3 DEF Told, Stages, Types
<1> DEFINE said == Explain(g, w)
<1>4. CASE Settled(g, w)
  <2>1. CASE /\ Told(g, w, {"received", "reserved", "executing", "confirmed"})
             /\ grants[g][w] = "CONFIRMED"
    <3>1. said = "GRANTED"
      BY <2>1, WhatIsSaid DEF Lifecycle
    <3> QED
      BY <2>1, <3>1
  <2>2. CASE /\ Told(g, w, {"received", "reserved", "executing", "rolled_back"})
             /\ grants[g][w] = "ROLLED_BACK"
    <3>1. said = "GRANTED" /\ ~Recorded(g, "confirmed", w)
      BY <1>3, <2>2, WhatIsSaid DEF Lifecycle
    <3> QED
      BY <2>2, <3>1
  <2>3. CASE Told(g, w, {"received", "deferred"}) /\ Unserved(g, w)
    <3>1. said = "DEFERRED" /\ ~Recorded(g, "confirmed", w)
      BY <1>3, <2>3, WhatIsSaid DEF Lifecycle
    <3> QED
      BY <2>3, <3>1 DEF Unserved
  <2> QED
    BY <1>4, <2>1, <2>2, <2>3 DEF Settled
<1>5. CASE InWindow(g, w) /\ \E todo : Position(g, w, todo)
  <2>1. PICK todo : Position(g, w, todo)
    BY <1>5
  <2>2. \/ /\ Told(g, w, {"received"})
           /\ grants[g][w] \in {"none", "RESERVED"}
        \/ /\ Told(g, w, {"received", "reserved"}) /\ grants[g][w] # "none"
        \/ /\ Told(g, w, {"received", "reserved", "executing"}) /\ grants[g][w] # "none"
    <3>1. Beginning(g, w, todo) => Told(g, w, {"received"}) /\ grants[g][w] = "none"
      BY <1>2 DEF Beginning
    <3>2. Deferring(g, w, todo) => Told(g, w, {"received"}) /\ grants[g][w] \in {"none", "RESERVED"}
      BY DEF Deferring, Unserved
    <3>3. Executing(g, w, todo) =>
            \/ /\ Told(g, w, {"received"}) /\ grants[g][w] = "RESERVED"
            \/ /\ Told(g, w, {"received", "reserved"}) /\ grants[g][w] # "none"
            \/ /\ Told(g, w, {"received", "reserved", "executing"}) /\ grants[g][w] # "none"
      BY DEF Executing, End
    <3> QED
      BY <2>1, <3>1, <3>2, <3>3 DEF Position
  <2>3. CASE Told(g, w, {"received"}) /\ grants[g][w] \in {"none", "RESERVED"}
    <3>1. said = "PENDING" /\ ~Recorded(g, "confirmed", w)
      BY <1>3, <2>3, WhatIsSaid DEF Lifecycle
    <3> QED
      BY <1>5, <2>3, <3>1
  <2>4. CASE Told(g, w, {"received", "reserved"}) /\ grants[g][w] # "none"
    <3>1. said = "GRANTED" /\ ~Recorded(g, "confirmed", w)
      BY <1>3, <2>4, WhatIsSaid DEF Lifecycle
    <3> QED
      BY <2>4, <3>1
  <2>5. CASE Told(g, w, {"received", "reserved", "executing"}) /\ grants[g][w] # "none"
    <3>1. said = "GRANTED" /\ ~Recorded(g, "confirmed", w)
      BY <1>3, <2>5, WhatIsSaid DEF Lifecycle
    <3> QED
      BY <2>5, <3>1
  <2> QED
    BY <2>2, <2>3, <2>4, <2>5
<1> QED
  BY <1>2, <1>4, <1>5, WhereWindows DEF Fresh

-----------------------------------------------------------------------------
(* The stream. *)

\* A beginning of a chain, row by row.
LEMMA BeginningOf ==
  ASSUME NEW got \in Seq(Rows), NEW rows \in Seq(Rows)
  PROVE  IsPrefix(got, rows) <=>
           Len(got) <= Len(rows) /\ \A i \in 1..Len(got) : got[i] = rows[i]
<1>1. Len(got) \in Nat /\ Len(rows) \in Nat
  OBVIOUS
<1>2. SubSeq(got, 1, Len(got)) = [i \in 1..Len(got) |-> got[i]]
  BY <1>1
<1>3. ASSUME Len(got) <= Len(rows)
      PROVE  SubSeq(rows, 1, Len(got)) = [i \in 1..Len(got) |-> rows[i]]
  BY <1>1, <1>3
<1>4. ASSUME Len(got) <= Len(rows)
      PROVE  IsPrefix(got, rows) <=> \A i \in 1..Len(got) : got[i] = rows[i]
  BY <1>2, <1>3, <1>4 DEF IsPrefix
<1> QED
  BY <1>4 DEF IsPrefix

\* What comes after the n-th row of a chain, by seq, is the rest of the chain.
LEMMA RestOfChain ==
  ASSUME NEW rows \in Seq(Rows), InSeqOrder(rows), NEW n \in 0..Len(rows),
         NEW cursor, cursor = IF n = 0 THEN 0 ELSE rows[n].seq
  PROVE  RowsAfter(rows, cursor) = [k \in 1..(Len(rows) - n) |-> rows[n + k]]
<1>1. /\ Len(rows) \in Nat /\ DOMAIN rows = 1..Len(rows)
      /\ \A i \in 1..Len(rows) : rows[i].seq \in Nat /\ rows[i].seq > 0
  <2>1. \A row \in Rows : row.seq \in Nat /\ row.seq > 0
    BY DEF Rows
  <2> QED
    BY <2>1
<1>2. \A i, j \in 1..Len(rows) : i < j => rows[i].seq < rows[j].seq
  BY <1>1 DEF InSeqOrder
<1> DEFINE chosen == (n + 1)..Len(rows)
<1>3. {i \in DOMAIN rows : rows[i].seq > cursor} = chosen
  <2>1. CASE n = 0
    BY <1>1, <2>1
  <2>2. CASE n # 0
    BY <1>1, <1>2, <2>2
  <2> QED
    BY <2>1, <2>2
<1>4. Cardinality(chosen) = Len(rows) - n
  <2>1. n + 1 \in Int /\ Len(rows) \in Int
    BY <1>1
  <2>2. Cardinality((n + 1)..Len(rows)) =
          IF n + 1 > Len(rows) THEN 0 ELSE Len(rows) - (n + 1) + 1
    BY <2>1, FS_Interval
  <2> QED
    BY <1>1, <2>2
<1>5. ASSUME NEW i \in chosen
      PROVE  Cardinality({j \in chosen : rows[j].seq <= rows[i].seq}) = i - n
  <2>1. {j \in chosen : rows[j].seq <= rows[i].seq} = (n + 1)..i
    BY <1>1, <1>2
  <2>2. Cardinality((n + 1)..i) = i - n
    BY <1>1, FS_Interval
  <2> QED
    BY <2>1, <2>2
<1>6. ASSUME NEW k \in 1..(Len(rows) - n)
      PROVE  (CHOOSE i \in chosen :
                Cardinality({j \in chosen : rows[j].seq <= rows[i].seq}) = k) = n + k
  <2>1. n + k \in chosen /\ \A i \in chosen : i - n = k <=> i = n + k
    BY <1>1
  <2>2. \A i \in chosen :
          Cardinality({j \in chosen : rows[j].seq <= rows[i].seq}) = k <=> i = n + k
    BY <1>5, <2>1
  <2> HIDE DEF chosen
  <2> QED
    BY <2>1, <2>2
<1>7. RowsAfter(rows, cursor) = BySeq(rows, chosen)
  BY <1>3 DEF RowsAfter
<1>8. BySeq(rows, chosen) = [k \in 1..(Len(rows) - n) |-> rows[n + k]]
  <2> DEFINE At(k) == CHOOSE i \in chosen :
                        Cardinality({j \in chosen : rows[j].seq <= rows[i].seq}) = k
  <2>1. BySeq(rows, chosen) = [k \in 1..Cardinality(chosen) |-> rows[At(k)]]
    BY DEF BySeq
  <2>2. \A k \in 1..(Len(rows) - n) : At(k) = n + k
    BY <1>6
  <2> HIDE DEF chosen, At
  <2> QED
    BY <1>4, <2>1, <2>2
<1> QED
  BY <1>7, <1>8

\* A poll: the batch is the next part of the chain, and empty at its end only.
LEMMA PollView ==
  ASSUME Core, ViewInv, Poll
  PROVE  ViewInv'
<1>1. PICK g, got, rows : g = viewer.run /\ got = viewer.got /\ rows = log[g]
  OBVIOUS
<1>2. /\ g \in Runs /\ g # NoRun /\ g <= started /\ g \in exists /\ viewer.at = "poll"
      /\ got \in Seq(Rows) /\ IsPrefix(got, rows) /\ (viewer.drained => ~Busy(g))
      /\ UNCHANGED <<chain, state, control>>
  BY <1>1, ConstantFacts DEF ViewInv, Poll, NoRun
<1>3. rows \in Seq(Rows) /\ InSeqOrder(rows)
  BY <1>1, <1>2, ConstantFacts DEF Core, ChainInv, TypeOK, Chained
<1> DEFINE n == Len(got)
           rest == RowsAfter(rows, Cursor)
           size == IF Len(rest) < BatchLimit THEN Len(rest) ELSE BatchLimit
           batch == SubSeq(rest, 1, size)
<1>4. /\ n \in Nat /\ Len(rows) \in Nat /\ n <= Len(rows)
      /\ \A i \in 1..n : got[i] = rows[i]
  BY <1>2, <1>3, BeginningOf
<1>5. Cursor = IF n = 0 THEN 0 ELSE rows[n].seq
  <2>1. n = 0 <=> got = <<>>
    BY <1>2
  <2>2. n # 0 => got[n] = rows[n]
    BY <1>4
  <2> QED
    BY <1>1, <2>1, <2>2 DEF Cursor, Last
<1>6. rest = [k \in 1..(Len(rows) - n) |-> rows[n + k]]
  <2>1. n \in 0..Len(rows)
    BY <1>4
  <2> HIDE DEF n
  <2> QED
    BY <1>3, <1>5, <2>1, RestOfChain
<1>7. rest \in Seq(Rows) /\ Len(rest) = Len(rows) - n
  <2>1. Len(rows) - n \in Nat /\ \A k \in 1..(Len(rows) - n) : rows[n + k] \in Rows
    BY <1>3, <1>4
  <2> HIDE DEF n, rest
  <2> QED
    BY <1>6, <2>1
<1>8. /\ size \in 0..(Len(rows) - n) /\ (size = 0 => n = Len(rows))
      /\ BatchLimit \in Nat \ {0}
  <2> HIDE DEF n, rest
  <2> QED
    BY <1>4, <1>7, SessionAssumption
<1>9. /\ batch \in Seq(Rows) /\ Len(batch) = size
      /\ \A k \in 1..size : batch[k] = rows[n + k]
  <2> HIDE DEF n, rest, size
  <2>1. /\ batch \in Seq(Rows) /\ Len(batch) = size
        /\ \A k \in 1..size : batch[k] = rest[k]
    BY <1>4, <1>7, <1>8
  <2>2. \A k \in 1..size : k \in 1..(Len(rows) - n)
    BY <1>4, <1>8
  <2>3. \A k \in 1..size : rest[k] = rows[n + k]
    BY <1>6, <2>2
  <2> HIDE DEF batch
  <2> QED
    BY <2>1, <2>3
<1>10. viewer' = IF batch = <<>> THEN [viewer EXCEPT !.at = "check"]
                 ELSE [viewer EXCEPT !.got = got \o batch]
  BY <1>1 DEF Poll
<1>11. /\ exists' = exists /\ log' = log /\ started' = started
       /\ Busy(g)' = Busy(g)
  BY <1>2 DEF chain, state, control, Busy, Preparing, Threaded
<1> HIDE DEF n, rest, size, batch
<1>12. CASE batch = <<>>
  <2>1. n = Len(rows)
    BY <1>8, <1>9, <1>12
  <2>2. NotPanels(rows, got)
    BY <1>2, <1>3, <1>4, <2>1 DEF NotPanels, n
  <2>3. viewer' = [viewer EXCEPT !.at = "check"]
    BY <1>10, <1>12
  <2>4. /\ viewer' \in [at : {"off", "poll", "check", "ended"}, run : {NoRun} \cup Runs,
                        got : Seq(Rows), drained : BOOLEAN]
        /\ viewer'.run = g /\ viewer'.got = got /\ viewer'.at = "check"
        /\ viewer'.drained = viewer.drained
    BY <1>1, <2>3 DEF ViewInv
  <2> QED
    BY <1>1, <1>2, <1>11, <2>2, <2>4 DEF ViewInv
<1>13. CASE batch # <<>>
  <2>1. viewer' = [viewer EXCEPT !.got = got \o batch] /\ got \o batch \in Seq(Rows)
    BY <1>2, <1>9, <1>10, <1>13
  <2>2. /\ viewer' \in [at : {"off", "poll", "check", "ended"}, run : {NoRun} \cup Runs,
                        got : Seq(Rows), drained : BOOLEAN]
        /\ viewer'.run = g /\ viewer'.got = got \o batch /\ viewer'.at = "poll"
        /\ viewer'.drained = viewer.drained
    BY <1>1, <1>2, <2>1 DEF ViewInv
  <2>3. IsPrefix(got \o batch, rows)
    <3>1. /\ Len(got \o batch) = n + size /\ n + size <= Len(rows)
          /\ n \in Nat /\ size \in Nat
      <4>1. Len(got \o batch) = Len(got) + Len(batch)
        BY <1>2, <1>9
      <4> QED
        BY <1>4, <1>8, <1>9, <4>1 DEF n
    <3>2. ASSUME NEW i \in 1..(n + size) PROVE (got \o batch)[i] = rows[i]
      <4>1. CASE i <= n
        BY <1>2, <1>4, <1>9, <4>1 DEF n
      <4>2. CASE i > n
        <5>1. (got \o batch)[i] = batch[i - n] /\ i - n \in 1..size
          BY <1>2, <1>4, <1>8, <1>9, <4>2 DEF n
        <5> QED
          BY <1>4, <1>8, <1>9, <5>1
      <4> QED
        BY <3>1, <4>1, <4>2
    <3> QED
      BY <1>3, <2>1, <3>1, <3>2, BeginningOf
  <2> QED
    BY <1>1, <1>2, <1>11, <2>2, <2>3 DEF ViewInv
<1> QED
  BY <1>12, <1>13

\* The end of a stream: the run was over before the last poll began.
LEMMA CheckView ==
  ASSUME Core, ViewInv, Check
  PROVE  ViewInv'
<1>1. PICK g : g = viewer.run
  OBVIOUS
<1>2. /\ g \in Runs /\ g # NoRun /\ g <= started /\ viewer.at = "check"
      /\ (viewer.drained => ~Busy(g) /\ NotPanels(log[g], viewer.got))
      /\ g \in exists => IsPrefix(viewer.got, log[g])
      /\ session.op = "none"
  BY <1>1 DEF ViewInv, Check, LockIsFree
<1>3. /\ exists' = exists /\ log' = log /\ started' = started /\ Busy(g)' = Busy(g)
  BY DEF Check, chain, state, control, Busy, Preparing, Threaded
<1>4. viewer' \in {[viewer EXCEPT !.at = "poll"], [viewer EXCEPT !.at = "ended"],
                   [viewer EXCEPT !.at = "poll", !.drained = TRUE]}
  BY DEF Check, EndOrDrain
<1>5. /\ viewer' \in [at : {"off", "poll", "check", "ended"}, run : {NoRun} \cup Runs,
                      got : Seq(Rows), drained : BOOLEAN]
      /\ viewer'.run = g /\ viewer'.got = viewer.got
  BY <1>1, <1>4 DEF ViewInv
<1>6. ~IsRunning => ~Busy(g)
  <2>1. Busy(g) => g = session.run
    BY <1>2, OneRun
  <2>2. ~Preparing(g)
    BY <1>2 DEF Core, Turns
  <2>3. Threaded(g) => session.thread
    BY <1>2 DEF Core, Turns
  <2> QED
    BY <1>2, <2>1, <2>2, <2>3 DEF Busy, IsRunning
<1>7. CASE IsRunning
  <2>1. viewer' = [viewer EXCEPT !.at = "poll"]
    BY <1>7 DEF Check
  <2>2. viewer'.at = "poll" /\ viewer'.drained = viewer.drained
    BY <2>1 DEF ViewInv
  <2> QED
    BY <1>2, <1>3, <1>5, <2>2 DEF ViewInv
<1>8. CASE ~IsRunning /\ viewer.drained
  <2>1. viewer' = [viewer EXCEPT !.at = "ended"]
    BY <1>8 DEF Check, EndOrDrain
  <2>2. viewer'.at = "ended" /\ viewer'.drained = viewer.drained
    BY <2>1 DEF ViewInv
  <2> QED
    BY <1>2, <1>3, <1>5, <1>8, <2>2 DEF ViewInv
<1>9. CASE ~IsRunning /\ ~viewer.drained
  <2>1. viewer' = [viewer EXCEPT !.at = "poll", !.drained = TRUE]
    BY <1>9 DEF Check, EndOrDrain
  <2>2. viewer'.at = "poll" /\ viewer'.drained = TRUE
    BY <2>1 DEF ViewInv
  <2> QED
    BY <1>2, <1>3, <1>5, <1>6, <1>9, <2>2 DEF ViewInv
<1> QED
  BY <1>7, <1>8, <1>9

\* No stream, nothing to keep.
LEMMA NobodyLooks ==
  ASSUME viewer' = NoViewer
  PROVE  ViewInv'
<1>1. <<>> \in Seq(Rows)
  OBVIOUS
<1> QED
  BY <1>1 DEF NoViewer, ViewInv

\* A stream is opened, or opened again.
LEMMA OpenView ==
  ASSUME Core, ViewInv, Connect \/ Reconnect
  PROVE  ViewInv'
<1>1. exists' = exists /\ log' = log /\ started' = started
  BY DEF Connect, Reconnect, chain, state, control
<1>2. CASE Connect
  <2>1. PICK g \in Runs : g = session.run
    BY <1>2 DEF Connect, Core, Shape
  <2>2. viewer' = [NoViewer EXCEPT !.at = "poll", !.run = g] /\ <<>> \in Seq(Rows)
    BY <1>2, <2>1 DEF Connect
  <2>3. /\ viewer' \in [at : {"off", "poll", "check", "ended"}, run : {NoRun} \cup Runs,
                        got : Seq(Rows), drained : BOOLEAN]
        /\ viewer'.at = "poll" /\ viewer'.run = g /\ viewer'.got = <<>> /\ ~viewer'.drained
    BY <2>2 DEF NoViewer
  <2>4. g # NoRun /\ g <= started
    BY <2>1, ConstantFacts DEF Core, Born
  <2>5. IsPrefix(<<>>, log[g])
    <3>1. PICK rows \in Seq(Rows) : rows = log[g]
      BY ConstantFacts DEF Core, ChainInv, TypeOK
    <3>2. PICK none \in Seq(Rows) : none = <<>>
      <4>1. <<>> \in Seq(Rows)
        OBVIOUS
      <4> QED
        BY <4>1
    <3>3. Len(none) <= Len(rows) /\ \A i \in 1..Len(none) : none[i] = rows[i]
      BY <3>2
    <3>4. IsPrefix(none, rows)
      BY <3>3, BeginningOf
    <3> QED
      BY <3>1, <3>2, <3>4
  <2> QED
    BY <1>1, <2>3, <2>4, <2>5 DEF ViewInv
<1>3. CASE Reconnect
  <2>1. viewer' = [viewer EXCEPT !.at = "poll", !.drained = FALSE] /\ viewer.at # "off"
    BY <1>3 DEF Reconnect
  <2>2. /\ viewer' \in [at : {"off", "poll", "check", "ended"}, run : {NoRun} \cup Runs,
                        got : Seq(Rows), drained : BOOLEAN]
        /\ viewer'.at = "poll" /\ viewer'.run = viewer.run /\ viewer'.got = viewer.got
        /\ ~viewer'.drained
    BY <2>1 DEF ViewInv
  <2> QED
    BY <1>1, <2>1, <2>2 DEF ViewInv
<1> QED
  BY <1>2, <1>3

\* A run that is being watched may grow, or be dropped; one that is over grows by
\* what the panel does only.
Grew(g) == \E row \in Rows : log'[g] = Append(log[g], row)
Revoked(g) == \E row \in Rows : row.id.type = "revoked" /\ log'[g] = Append(log[g], row)

\* What may happen to a run under the stream.
LEMMA ViewKept ==
  ASSUME Core, ViewInv, viewer' = viewer, started' \in Nat, started <= started',
         NEW g, g = viewer.run,
         g \in Runs /\ g <= started =>
           /\ g \in exists' => g \in exists /\ (log'[g] = log[g] \/ Grew(g))
           /\ ~Busy(g) => ~Busy(g)' /\ (log'[g] \in {log[g], <<>>} \/ Revoked(g))
  PROVE  ViewInv'
<1> SUFFICES ASSUME viewer.at # "off"
             PROVE  ViewInv'
  BY DEF ViewInv
<1>1. /\ g \in Runs /\ g # NoRun /\ g <= started /\ g <= started'
      /\ log[g] \in Seq(Rows) /\ viewer.got \in Seq(Rows)
  <2>1. g \in Runs /\ g # NoRun /\ g <= started /\ viewer.got \in Seq(Rows)
    BY DEF ViewInv
  <2>2. g \in Nat /\ started \in Nat /\ log[g] \in Seq(Rows)
    BY <2>1, ConstantFacts DEF Core, Shape, ChainInv, TypeOK
  <2> QED
    BY <2>1, <2>2
<1>2. /\ g \in exists' => g \in exists /\ (log'[g] = log[g] \/ Grew(g))
      /\ ~Busy(g) => ~Busy(g)' /\ (log'[g] \in {log[g], <<>>} \/ Revoked(g))
  BY <1>1
<1>3. ASSUME g \in exists' PROVE IsPrefix(viewer.got, log'[g])
  <2>1. IsPrefix(viewer.got, log[g])
    BY <1>2, <1>3 DEF ViewInv
  <2>2. CASE log'[g] = log[g]
    BY <2>1, <2>2
  <2>3. CASE Grew(g)
    <3>1. PICK row \in Rows : log'[g] = Append(log[g], row)
      BY <2>3 DEF Grew
    <3>2. /\ log'[g] \in Seq(Rows) /\ Len(log'[g]) = Len(log[g]) + 1
          /\ \A i \in 1..Len(log[g]) : log'[g][i] = log[g][i]
      BY <1>1, <3>1
    <3>3. /\ Len(viewer.got) <= Len(log[g]) /\ Len(viewer.got) \in Nat /\ Len(log[g]) \in Nat
          /\ \A i \in 1..Len(viewer.got) : viewer.got[i] = log[g][i]
      BY <1>1, <2>1, BeginningOf
    <3>4. /\ Len(viewer.got) <= Len(log'[g])
          /\ \A i \in 1..Len(viewer.got) : viewer.got[i] = log'[g][i]
      BY <3>2, <3>3
    <3> QED
      BY <1>1, <3>2, <3>4, BeginningOf
  <2> QED
    BY <1>2, <1>3, <2>2, <2>3
<1>4. ASSUME ~Busy(g), NotPanels(log[g], viewer.got) PROVE NotPanels(log'[g], viewer.got)
  <2>1. CASE log'[g] = log[g]
    BY <1>4, <2>1
  <2>2. CASE log'[g] = <<>>
    BY <2>2 DEF NotPanels
  <2>3. CASE Revoked(g)
    <3>1. PICK row \in Rows : row.id.type = "revoked" /\ log'[g] = Append(log[g], row)
      BY <2>3 DEF Revoked
    <3>2. \A i \in DOMAIN log'[g] :
            (i \in DOMAIN log[g] /\ log'[g][i] = log[g][i]) \/ log'[g][i] = row
      BY <1>1, <3>1
    <3> QED
      BY <1>4, <3>1, <3>2 DEF NotPanels
  <2> QED
    BY <1>2, <1>4, <2>1, <2>2, <2>3
<1>5. /\ viewer.drained \/ viewer.at = "ended" => ~Busy(g)
      /\ viewer.at = "ended" \/ (viewer.at = "check" /\ viewer.drained) =>
           NotPanels(log[g], viewer.got)
  BY DEF ViewInv
<1>6. /\ viewer.drained \/ viewer.at = "ended" => ~Busy(g)'
      /\ viewer.at = "ended" \/ (viewer.at = "check" /\ viewer.drained) =>
           NotPanels(log'[g], viewer.got)
  BY <1>2, <1>4, <1>5
<1>7. viewer \in [at : {"off", "poll", "check", "ended"}, run : {NoRun} \cup Runs,
                  got : Seq(Rows), drained : BOOLEAN]
  BY DEF ViewInv
<1>8. viewer'.run = g /\ viewer'.got = viewer.got /\ viewer'.at = viewer.at
      /\ viewer'.drained = viewer.drained
  OBVIOUS
<1>9. Busy(viewer.run)' <=> Busy(g)'
  BY <1>8 DEF Busy, Preparing, Threaded
<1> QED
  BY <1>1, <1>3, <1>6, <1>7, <1>8, <1>9 DEF ViewInv

\* The thread of a run: only one that is busy writes.
LEMMA ThreadView ==
  ASSUME Core, ViewInv, NEW h \in Runs, Thread(h)
  PROVE  ViewInv'
<1>1. PICK g : g = viewer.run
  OBVIOUS
<1>2. /\ h = session.run /\ viewer' = viewer /\ started' = started /\ started \in Nat
      /\ Others(h) /\ \A s \in Schemas \ {h} : log'[s] = log[s]
      /\ exists' \subseteq exists
  BY ThreadDoes DEF Core, Shape
<1>3. Busy(h)
  <2>1. tx[h].stage # "idle" => Busy(h)
    BY DEF Core, Appending, Doing
  <2>2. CASE StatementFails(h) \/ RecordEvent(h) \/ AppendRaises(h) \/ WriteGrant(h)
    BY <2>2 DEF StatementFails, RecordEvent, AppendRaises, WriteGrant, Doing
  <2>3. CASE Mediate(h) \/ NextWindow(h)
    BY <2>3 DEF Mediate, NextWindow, Doing, Busy, Threaded
  <2>4. CASE AppendStep(h)
    BY <2>1, <2>4, ContinueDoes, ConstantFacts DEF AppendStep, Core
  <2>5. CASE CommitDrop(h) \/ AppendFails(h)
    BY <2>1, <2>5 DEF CommitDrop, AppendFails
  <2> QED
    BY <2>2, <2>3, <2>4, <2>5 DEF Thread
<1>4. ASSUME h \in exists' PROVE log'[h] = log[h] \/ Grew(h)
  <2>1. log \in [Schemas -> Seq(Rows)] /\ tx \in [Appenders -> Appends] /\ h \in Schemas
        /\ h \in Appenders
    BY ConstantFacts DEF Core, ChainInv, TypeOK
  <2>2. CASE StatementFails(h) \/ RecordEvent(h) \/ AppendRaises(h) \/ WriteGrant(h)
             \/ Mediate(h) \/ NextWindow(h) \/ AppendFails(h)
    <3>1. log' = log
      BY <2>2 DEF StatementFails, RecordEvent, AppendRaises, WriteGrant, Mediate, NextWindow,
                  AppendFails, Open, Rollback, chain
    <3> QED
      BY <3>1
  <2>3. CASE AppendStep(h)
    <3>1. \/ log' = log
          \/ /\ tx[h].stage = "commit"
             /\ log' = [log EXCEPT ![tx[h].schema] = Append(@, tx[h].row)]
      BY <2>1, <2>3, ContinueDoes DEF AppendStep, Core
    <3>2. tx[h].stage = "commit" => tx[h].schema = h /\ tx[h].row \in Rows
      BY <2>1, InProgress DEF Core, Appending, Carries
    <3> QED
      BY <2>1, <3>1, <3>2 DEF Grew
  <2>4. CASE CommitDrop(h)
    BY <1>4, <2>4 DEF CommitDrop
  <2> QED
    BY <2>2, <2>3, <2>4 DEF Thread
<1>5. ASSUME g \in Runs, g # h
      PROVE  /\ log'[g] = log[g]
             /\ Busy(g)' <=> Busy(g)
  <2>1. runner'[g] = runner[g] /\ log'[g] = log[g]
    BY <1>2, <1>5, ConstantFacts DEF Others
  <2> QED
    BY <2>1 DEF Busy, Preparing, Threaded
<1>6. g \in Runs =>
        /\ g \in exists' => g \in exists /\ (log'[g] = log[g] \/ Grew(g))
        /\ ~Busy(g) => ~Busy(g)' /\ (log'[g] \in {log[g], <<>>} \/ Revoked(g))
  <2>1. CASE g = h
    BY <1>2, <1>3, <1>4, <2>1
  <2>2. CASE g # h
    BY <1>2, <1>5, <2>2
  <2> QED
    BY <2>1, <2>2
<1> QED
  BY <1>1, <1>2, <1>6, ViewKept

\* The calls of the API: a run that is watched is not started again.
LEMMA ApiView ==
  ASSUME Core, ViewInv, Api
  PROVE  ViewInv'
<1>1. PICK g : g = viewer.run
  OBVIOUS
<1>2. /\ started \in Nat /\ session.run \in {NoRun} \cup Runs /\ Runners
      /\ log \in [Schemas -> Seq(Rows)] /\ NoRun \notin Schemas /\ Runs \subseteq Schemas
      /\ Runs \subseteq Nat
  BY ConstantFacts DEF Core, Shape, ChainInv, TypeOK
<1>3. ASSUME viewer' = viewer, started' = started, exists' \subseteq exists,
             g \in Runs => log'[g] = log[g],
             g \in Runs => (Busy(g)' => Busy(g))
      PROVE  ViewInv'
  BY <1>1, <1>2, <1>3, ViewKept
<1>4. CASE BeginStart \/ BeginReset
  <2>1. g \in Runs => runner'[g].at = runner[g].at
    BY <1>2, <1>4, StopDoes DEF BeginStart, BeginReset
  <2>2. g \in Runs => (Busy(g)' => Busy(g))
    BY <2>1 DEF Busy, Preparing, Threaded
  <2>3. viewer' = viewer /\ log' = log /\ started' = started /\ exists' = exists
    BY <1>4 DEF BeginStart, BeginReset, chain, state
  <2> QED
    BY <1>3, <2>2, <2>3
<1>5. CASE Join
  BY <1>3, <1>5 DEF Join, chain, state, Busy, Preparing, Threaded
<1>6. CASE Drop
  <2>1. viewer' = viewer /\ started' = started /\ runner' = runner
    BY <1>6 DEF Drop
  <2>2. Busy(g)' <=> Busy(g)
    BY <2>1 DEF Busy, Preparing, Threaded
  <2>3. CASE exists' = exists
    <3>1. log' = log
      BY <1>6, <2>3 DEF Drop
    <3> QED
      BY <1>3, <2>1, <2>2, <2>3, <3>1
  <2>4. CASE exists' # exists
    <3>1. exists' = exists \ {session.run} /\ session.run \in Runs
          /\ log' = [log EXCEPT ![session.run] = <<>>]
      BY <1>2, <1>6, <2>4 DEF Drop, Emptied
    <3>2. PICK h \in Runs : h = session.run
      BY <3>1
    <3>3. /\ exists' = exists \ {h} /\ log'[h] = <<>>
          /\ \A s \in Schemas \ {h} : log'[s] = log[s]
      BY <1>2, <3>1, <3>2
    <3>4. g \in Runs =>
            /\ g \in exists' => g \in exists /\ (log'[g] = log[g] \/ Grew(g))
            /\ ~Busy(g) => ~Busy(g)' /\ (log'[g] \in {log[g], <<>>} \/ Revoked(g))
      <4>1. CASE g = h
        BY <2>2, <3>3, <4>1
      <4>2. CASE g # h
        BY <1>2, <2>2, <3>3, <4>2
      <4> QED
        BY <4>1, <4>2
    <3> QED
      BY <1>1, <1>2, <2>1, <3>4, ViewKept
  <2> QED
    BY <2>3, <2>4
<1>7. CASE Close
  <2>1. CASE viewer.at \in {"off", "ended"}
    BY <1>7, <2>1, NobodyLooks DEF Close
  <2>2. CASE viewer.at \notin {"off", "ended"}
    <3>1. viewer' = viewer /\ started' = started /\ exists' = exists /\ log' = log
      BY <1>7, <2>2 DEF Close
    <3>2. g \in Runs => ~Busy(g)'
      BY <1>7, CloseDoes DEF Busy, Preparing, Threaded, NoRunner
    <3> QED
      BY <1>3, <3>1, <3>2
  <2> QED
    BY <2>1, <2>2
<1>8. CASE Create
  <2>1. PICK h : h = started + 1
    OBVIOUS
  <2>2. /\ h \in Runs /\ Others(h) /\ viewer' = viewer /\ log' = log
        /\ started' = h /\ exists' = exists \cup {h}
    BY <1>8, <2>1, CreateDoes DEF Create, chain
  <2>3. started' \in Nat /\ started <= started'
    BY <1>2, <2>1, <2>2
  <2>4. g \in Runs /\ g <= started => g # h
    BY <1>2, <2>1
  <2>5. g \in Runs /\ g <= started => (Busy(g)' <=> Busy(g))
    BY <2>2, <2>4 DEF Others, Busy, Preparing, Threaded
  <2> QED
    BY <1>1, <2>2, <2>3, <2>4, <2>5, ViewKept
<1>9. CASE CreateFails
  <2>1. PICK h : h = started + 1
    OBVIOUS
  <2>2. /\ viewer' = viewer /\ log' = log /\ runner' = runner
        /\ started' = h /\ exists' \subseteq exists \cup {h}
    BY <1>9, <2>1 DEF CreateFails, chain
  <2>3. started' \in Nat /\ started <= started'
    BY <1>2, <2>1, <2>2
  <2>4. g \in Runs /\ g <= started => g # h
    BY <1>2, <2>1
  <2>5. Busy(g)' <=> Busy(g)
    BY <2>2 DEF Busy, Preparing, Threaded
  <2> QED
    BY <1>1, <2>2, <2>3, <2>4, <2>5, ViewKept
<1>10. CASE Launch
  <2>1. PICK h \in Runs : h = session.run
    BY <1>10, LaunchDoes
  <2>2. /\ Preparing(h) /\ Others(h) /\ viewer' = viewer /\ log' = log
        /\ started' = started /\ exists' = exists
    BY <1>10, <2>1, LaunchDoes DEF Launch, chain, state
  <2>3. g \in Runs => (Busy(g)' => Busy(g))
    <3>1. CASE g = h
      BY <2>2, <3>1 DEF Busy
    <3>2. CASE g # h
      BY <2>2, <3>2 DEF Others, Busy, Preparing, Threaded
    <3> QED
      BY <3>1, <3>2
  <2> QED
    BY <1>3, <2>2, <2>3
<1>11. CASE BeginRevoke
  <2>1. viewer' = viewer /\ started' = started /\ exists' = exists /\ log' = log
        /\ runner' = runner
    BY <1>11 DEF BeginRevoke, Open
  <2> QED
    BY <1>3, <2>1 DEF Busy, Preparing, Threaded
<1>12. CASE Revoke
  <2>1. /\ viewer' = viewer /\ started' = started /\ exists' = exists /\ runner' = runner
        /\ Continue(Panel) /\ Panel \in Appenders /\ ChainInv
        /\ tx \in [Appenders -> Appends]
    BY <1>12, ConstantFacts DEF Revoke, state, Core, ChainInv, TypeOK
  <2>2. PICK h \in Runs : h = session.run
    BY <1>2, <1>12 DEF Revoke, Core, Turns
  <2>3. /\ tx[Panel].stage # "idle"
        /\ \/ log' = log
           \/ /\ tx[Panel].stage = "commit"
              /\ log' = [log EXCEPT ![tx[Panel].schema] = Append(@, tx[Panel].row)]
    BY <2>1, ContinueDoes
  <2>4. tx[Panel].stage = "commit" =>
          /\ tx[Panel].schema = h /\ tx[Panel].row \in Rows
          /\ tx[Panel].row.id = [type |-> "revoked", window |-> 0]
    BY <2>1, <2>2, InProgress DEF Core, Appending, Carries
  <2>5. g \in Runs => log'[g] = log[g] \/ (Grew(g) /\ Revoked(g))
    <3>1. CASE log' = log
      BY <3>1
    <3>2. CASE /\ tx[Panel].stage = "commit"
               /\ log' = [log EXCEPT ![tx[Panel].schema] = Append(@, tx[Panel].row)]
      <4>1. PICK row \in Rows : row = tx[Panel].row
        BY <2>4, <3>2
      <4>2. tx[Panel].schema = h /\ row.id = [type |-> "revoked", window |-> 0]
        BY <2>4, <3>2, <4>1
      <4>3. row.id.type = "revoked"
        BY <4>2
      <4>4. log' = [log EXCEPT ![h] = Append(@, row)]
        BY <3>2, <4>1, <4>2
      <4>5. log'[h] = Append(log[h], row) /\ \A s \in Schemas \ {h} : log'[s] = log[s]
        BY <1>2, <4>4
      <4> QED
        BY <1>2, <4>3, <4>5 DEF Grew, Revoked
    <3> QED
      BY <2>3, <3>1, <3>2
  <2>6. Busy(g)' <=> Busy(g)
    BY <2>1 DEF Busy, Preparing, Threaded
  <2> QED
    BY <1>1, <1>2, <2>1, <2>5, <2>6, ViewKept
<1>13. CASE KillModel
  <2>1. PICK h \in Runs : h = session.run
    BY <1>13, KillDoes
  <2>2. /\ Others(h) /\ runner'[h].at = runner[h].at /\ viewer' = viewer /\ log' = log
        /\ started' = started /\ exists' = exists
    BY <1>13, <2>1, KillDoes DEF KillModel, chain, state
  <2>3. g \in Runs => (Busy(g)' => Busy(g))
    BY <2>1, <2>2 DEF Others, Busy, Preparing, Threaded
  <2> QED
    BY <1>3, <2>2, <2>3
<1> QED
  BY <1>4, <1>5, <1>6, <1>7, <1>8, <1>9, <1>10, <1>11, <1>12, <1>13 DEF Api

\* Every step keeps it.
LEMMA ViewStep ==
  ASSUME Core, ViewInv, [Next]_vars
  PROVE  ViewInv'
<1>1. CASE Stream
  BY <1>1, PollView, CheckView, NobodyLooks DEF Stream, PollFails
<1>2. CASE Connect \/ Reconnect
  BY <1>2, OpenView
<1>3. CASE Disconnect
  BY <1>3, NobodyLooks DEF Disconnect
<1>4. ASSUME NEW oldest, Restart(oldest) PROVE ViewInv'
  BY <1>4, NobodyLooks DEF Restart
<1>5. CASE UNCHANGED vars
  <2>1. /\ viewer' = viewer /\ started' = started /\ exists' = exists /\ log' = log
        /\ runner' = runner
    BY <1>5 DEF vars, chain, state, control
  <2> QED
    BY <2>1 DEF ViewInv, Busy, Preparing, Threaded
<1> QED
  BY <1>1, <1>2, <1>3, <1>4, <1>5, ThreadView, ApiView DEF Next

\* It always holds.
LEMMA ViewHolds == Spec => []ViewInv
<1>1. Init => ViewInv
  <2>1. <<>> \in Seq(Rows)
    OBVIOUS
  <2> QED
    BY <2>1 DEF Init, NoViewer, ViewInv
<1> QED
  BY <1>1, CoreHolds, ViewStep, PTL DEF Spec

\* What was sent is a beginning of the chain.
LEMMA SentInOrder == ViewInv => StreamFaithful
BY DEF ViewInv, StreamFaithful

\* What an ended stream has sent.
LEMMA AllShown == ViewInv => EndIsComplete
BY DEF ViewInv, EndIsComplete, NotPanels, ToSet

-----------------------------------------------------------------------------
(* The results, for any number of runs and windows, whatever the number of     *)
(* rows in a batch, and whichever of the runs get into trouble.                *)

\* What is part of Core.
LEMMA CoreGives == Core => PublicUntouched /\ SchemasAccountedFor /\ ChainVerifies
BY InvGivesVerifies DEF Core, PublicUntouched

\* A reset that tears a schema down under a thread still writing never lets a row or
\* a grant of a run come into the protected schema (demo/isolation.py repoints the
\* search_path at nothing before the connection can be used again).
THEOREM PublicStaysEmpty == Spec => []PublicUntouched
<1> QED
  BY CoreHolds, CoreGives, PTL

\* Every schema there is belongs to the session, is the protected one, or was left
\* behind by a crash, by a DROP inside a transaction of a thread that did not stop in
\* time, or by a start that failed (ui/session.py).
THEOREM SchemasCounted == Spec => []SchemasAccountedFor
<1> QED
  BY CoreHolds, CoreGives, PTL

\* The chain of every schema verifies at every moment of a session: thread and panel
\* append to the same table while schemas are dropped and connections closed under
\* them (audit/chain.py).
THEOREM RunChainsVerify == Spec => []ChainVerifies
<1> QED
  BY CoreHolds, CoreGives, PTL

\* The exit criterion of audit/chain.py: a grant the log does not explain exists only
\* in the window that is open, or is one the killed model was cut off from.
THEOREM GrantsAreExplained == Spec => []GrantsExplained
<1> QED
  BY CoreHolds, ExplainedByLog, PTL

\* explain_request can be answered from the log alone for every request that is in
\* it, and what it says is true of the ledger.
THEOREM ExplanationsAreTrue == Spec => []ExplanationsHold
<1> QED
  BY CoreHolds, ToldTruly, PTL

\* What a page has been sent is a beginning of its run's chain, whatever is appended
\* between two polls and however often the page reconnects (ui/sse.py).
THEOREM StreamIsFaithful == Spec => []StreamFaithful
<1> QED
  BY ViewHolds, SentInOrder, PTL

\* A stream that said "run_complete" has shown all that the run itself recorded: the
\* poll after the first check that finds the run over is enough (ui/sse.py).
THEOREM EndShowsAll == Spec => []EndIsComplete
<1> QED
  BY ViewHolds, AllShown, PTL

=============================================================================
