----------------------------- MODULE AuditChain -----------------------------
(***************************************************************************)
(* The hash chain of sampark/audit/chain.py.  Several connections append   *)
(* to the audit_events tables of several schemas of one database; what     *)
(* makes a chain of a table is the order in which append takes its steps:  *)
(* an advisory lock, the probe for the event, the read of the head, the    *)
(* insert, and the commit that makes the row visible and frees the lock.   *)
(*                                                                         *)
(* A hash covers the whole row, its event_id included, so a row's hash is  *)
(* represented by its event_id.                                            *)
(***************************************************************************)
EXTENDS Integers, Sequences

CONSTANTS
  Schemas,    \* the schemas that may hold an audit_events table
  Appenders,  \* the connections that append
  Facts,      \* what can be recorded: one deterministic event_id for each
  Genesis,    \* GENESIS_HASH
  Nobody

ASSUME ChainAssumption == Genesis \notin Facts /\ Nobody \notin Appenders

VARIABLES
  log,   \* per schema: the committed rows of audit_events, in commit order
  seq,   \* per schema: the next value of the seq column's sequence
  lock,  \* who holds pg_advisory_xact_lock(CHAIN_ADVISORY_LOCK_KEY)
  tx     \* per connection: the append in progress

chain == <<log, seq, lock, tx>>

Rows == [id : Facts, prev : Facts \cup {Genesis}, seq : Nat \ {0}]

Idle == [stage |-> "idle"]
Appends ==
  {Idle}
  \cup [stage : {"lock", "read"}, schema : Schemas, fact : Facts]
  \cup [stage : {"insert"}, schema : Schemas, fact : Facts, prev : Facts \cup {Genesis}]
  \cup [stage : {"commit"}, schema : Schemas, row : Rows]
  \cup [stage : {"failed"}]

\* The row of the head, by seq; a row's hash is its id.
HeadHash(rows) == IF rows = <<>> THEN Genesis ELSE rows[Len(rows)].id

Present(fact, rows) == \E i \in DOMAIN rows : rows[i].id = fact
Claimed(prev, rows) == \E i \in DOMAIN rows : rows[i].prev = prev

-----------------------------------------------------------------------------
ChainInit ==
  /\ log = [s \in Schemas |-> <<>>]
  /\ seq = [s \in Schemas |-> 1]
  /\ lock = Nobody
  /\ tx = [a \in Appenders |-> Idle]

\* append(conn, event) opens its transaction.
Open(a, s, fact) ==
  /\ tx[a] = Idle
  /\ tx' = [tx EXCEPT ![a] = [stage |-> "lock", schema |-> s, fact |-> fact]]
  /\ UNCHANGED <<log, seq, lock>>

\* Mistake: the lock is asked for and not waited for.
LockNotAwaited == TRUE

\* The lock is one for the whole database, whatever the schema.
LockFree == lock = Nobody

TakeLock(a) ==
  /\ tx[a].stage = "lock"
  /\ LockFree
  /\ lock' = a
  /\ tx' = [tx EXCEPT ![a] = [stage |-> "read", schema |-> @.schema, fact |-> @.fact]]
  /\ UNCHANGED <<log, seq>>

\* The lock is scoped to the transaction: it goes when the transaction ends.
Release(a) == lock' = IF lock = a THEN Nobody ELSE lock

\* The probe finds the event: AlreadyAppended, and the transaction ends.
FindEvent(a) ==
  /\ tx[a].stage = "read"
  /\ Present(tx[a].fact, log[tx[a].schema])
  /\ tx' = [tx EXCEPT ![a] = Idle]
  /\ Release(a)
  /\ UNCHANGED <<log, seq>>

\* The event is new: the head is read, and prev_hash derived from it.
ReadHead(a) ==
  /\ tx[a].stage = "read"
  /\ ~Present(tx[a].fact, log[tx[a].schema])
  /\ tx' = [tx EXCEPT ![a] =
       [stage |-> "insert", schema |-> @.schema, fact |-> @.fact,
        prev |-> HeadHash(log[@.schema])]]
  /\ UNCHANGED <<log, seq, lock>>

\* The insert takes the next seq, which a rollback does not give back.
Insert(a) ==
  /\ tx[a].stage = "insert"
  /\ ~Claimed(tx[a].prev, log[tx[a].schema])
  /\ tx' = [tx EXCEPT ![a] =
       [stage |-> "commit", schema |-> @.schema,
        row |-> [id |-> @.fact, prev |-> @.prev, seq |-> seq[@.schema]]]]
  /\ seq' = [seq EXCEPT ![tx[a].schema] = @ + 1]
  /\ UNCHANGED <<log, lock>>

\* ChainForkError, or a violation of one of the two unique indexes: the
\* transaction rolls back and the caller gets the exception.
Refuse(a) ==
  /\ \/ /\ tx[a].stage = "insert"
        /\ Claimed(tx[a].prev, log[tx[a].schema])
     \/ /\ tx[a].stage = "commit"
        /\ LET rows == log[tx[a].schema]
           IN  Claimed(tx[a].row.prev, rows) \/ Present(tx[a].row.id, rows)
  /\ tx' = [tx EXCEPT ![a] = [stage |-> "failed"]]
  /\ Release(a)
  /\ UNCHANGED <<log, seq>>

Commit(a) ==
  /\ tx[a].stage = "commit"
  /\ LET s == tx[a].schema
         row == tx[a].row
     IN  /\ ~Claimed(row.prev, log[s]) /\ ~Present(row.id, log[s])
         /\ log' = [log EXCEPT ![s] = Append(@, row)]
  /\ tx' = [tx EXCEPT ![a] = Idle]
  /\ Release(a)
  /\ UNCHANGED seq

\* The transaction is rolled back because its connection is gone.
Rollback(a) ==
  /\ tx[a].stage \in {"lock", "read", "insert", "commit"}
  /\ tx' = [tx EXCEPT ![a] = [stage |-> "failed"]]
  /\ Release(a)
  /\ UNCHANGED <<log, seq>>

\* What append does next for the connection a.
Continue(a) ==
  TakeLock(a) \/ FindEvent(a) \/ ReadHead(a) \/ Insert(a) \/ Refuse(a) \/ Commit(a)

-----------------------------------------------------------------------------
(* The chain by itself: any connection, any fact, any schema. *)

\* The caller got its exception and goes on.
Forget(a) ==
  /\ tx[a].stage = "failed"
  /\ tx' = [tx EXCEPT ![a] = Idle]
  /\ UNCHANGED <<log, seq, lock>>

\* A schema is dropped with its table and its sequence, while nobody is
\* appending to it.
DropTable(s) ==
  /\ \A a \in Appenders : tx[a].stage \notin {"idle", "failed"} => tx[a].schema # s
  /\ log' = [log EXCEPT ![s] = <<>>]
  /\ seq' = [seq EXCEPT ![s] = 1]
  /\ UNCHANGED <<lock, tx>>

ChainNext ==
  \/ \E a \in Appenders :
       \/ \E s \in Schemas, fact \in Facts : Open(a, s, fact)
       \/ Continue(a) \/ Rollback(a) \/ Forget(a)
  \/ \E s \in Schemas : DropTable(s)

ChainSpec == ChainInit /\ [][ChainNext]_chain

-----------------------------------------------------------------------------
(* verify_chain, and what it should always find. *)

\* genesis_ok and linkage_ok of the report.
LinkageOK(rows) ==
  \A i \in DOMAIN rows :
    rows[i].prev = IF i = 1 THEN Genesis ELSE rows[i - 1].id

\* The order by seq, in which every reader takes the rows, is the order in which
\* they were committed.
InSeqOrder(rows) ==
  \A i, j \in DOMAIN rows : i < j => rows[i].seq < rows[j].seq

\* Every committed chain verifies at every moment, each event is in it once, a
\* reader that has read up to a seq will find nothing new below it, and the
\* unique indexes have never had to refuse an append: the steps of concurrent
\* appends, the retries of a recorded fact and the rollbacks notwithstanding.
ChainVerifies ==
  \A s \in Schemas :
    /\ LinkageOK(log[s]) /\ InSeqOrder(log[s])
    /\ \A i, j \in DOMAIN log[s] : log[s][i].id = log[s][j].id => i = j
    /\ \A a \in Appenders :
         /\ tx[a].stage = "insert" /\ tx[a].schema = s => ~Claimed(tx[a].prev, log[s])
         /\ tx[a].stage = "commit" /\ tx[a].schema = s =>
              ~Claimed(tx[a].row.prev, log[s]) /\ ~Present(tx[a].row.id, log[s])

=============================================================================
