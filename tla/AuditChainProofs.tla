------------------------- MODULE AuditChainProofs -------------------------
(***************************************************************************)
(* Any number of connections that append to any number of tables keep      *)
(* every table one chain: ChainSpec => []ChainVerifies.                    *)
(*                                                                         *)
(* ChainVerifies is not inductive: that the next row will fit the head     *)
(* rests on who holds the lock, and on what the holder has read still      *)
(* being so.  ChainInv adds both.                                          *)
(***************************************************************************)
EXTENDS AuditChain, TLAPS

TypeOK ==
  /\ log \in [Schemas -> Seq(Rows)]
  /\ seq \in [Schemas -> Nat \ {0}]
  /\ lock \in Appenders \cup {Nobody}
  /\ tx \in [Appenders -> Appends]

\* Whoever is past the lock has it.
Locked == \A a \in Appenders : tx[a].stage \in {"read", "insert", "commit"} => lock = a

\* One table: a chain from Genesis, in the order of seq, each event once, and the
\* sequence ahead of every row.
Chained(rows, next) ==
  /\ LinkageOK(rows) /\ InSeqOrder(rows)
  /\ \A i, j \in DOMAIN rows : rows[i].id = rows[j].id => i = j
  /\ \A i \in DOMAIN rows : rows[i].seq < next

\* What an appender has read is still so: the head, and that its event is new.
FitsHead(fact, prev, rows) == prev = HeadHash(rows) /\ ~Present(fact, rows)

StillFits(a) ==
  /\ tx[a].stage = "insert" => FitsHead(tx[a].fact, tx[a].prev, log[tx[a].schema])
  /\ tx[a].stage = "commit" =>
       /\ FitsHead(tx[a].row.id, tx[a].row.prev, log[tx[a].schema])
       /\ tx[a].row.seq < seq[tx[a].schema]
       /\ \A i \in DOMAIN log[tx[a].schema] : log[tx[a].schema][i].seq < tx[a].row.seq

ChainInv ==
  /\ TypeOK /\ Locked
  /\ \A s \in Schemas : Chained(log[s], seq[s])
  /\ \A a \in Appenders : StillFits(a)

-----------------------------------------------------------------------------
(* A chain of rows. *)

\* The hash of the head is in no row: the fork check never finds anything.
LEMMA HeadUnclaimed ==
  ASSUME NEW rows \in Seq(Rows), NEW next, Chained(rows, next)
  PROVE  ~Claimed(HeadHash(rows), rows)
<1> SUFFICES ASSUME NEW i \in DOMAIN rows, rows[i].prev = HeadHash(rows)
             PROVE  FALSE
  BY DEF Claimed
<1>1. /\ Len(rows) \in Nat /\ DOMAIN rows = 1..Len(rows) /\ rows # <<>>
      /\ i \in 1..Len(rows)
  OBVIOUS
<1>2. HeadHash(rows) = rows[Len(rows)].id
  BY <1>1 DEF HeadHash
<1>3. CASE i = 1
  <2>1. rows[i].prev = Genesis
    BY <1>3 DEF Chained, LinkageOK
  <2>2. rows[Len(rows)] \in Rows
    BY <1>1
  <2> QED
    BY <1>2, <2>1, <2>2, ChainAssumption DEF Rows
<1>4. CASE i # 1
  <2>1. rows[i].prev = rows[i - 1].id
    BY <1>4 DEF Chained, LinkageOK
  <2>2. i - 1 \in DOMAIN rows /\ Len(rows) \in DOMAIN rows
    BY <1>1, <1>4
  <2>3. i - 1 = Len(rows)
    BY <1>2, <2>1, <2>2 DEF Chained
  <2> QED
    BY <1>1, <2>3
<1> QED
  BY <1>3, <1>4

\* A row that fits the head makes a longer chain.
LEMMA AppendChained ==
  ASSUME NEW rows \in Seq(Rows), NEW next \in Nat, Chained(rows, next),
         NEW row \in Rows, FitsHead(row.id, row.prev, rows), row.seq < next,
         \A i \in DOMAIN rows : rows[i].seq < row.seq
  PROVE  Chained(Append(rows, row), next)
<1> DEFINE longer == Append(rows, row)
<1>1. /\ Len(rows) \in Nat /\ DOMAIN rows = 1..Len(rows)
      /\ DOMAIN longer = 1..(Len(rows) + 1)
      /\ \A i \in 1..Len(rows) : longer[i] = rows[i]
      /\ longer[Len(rows) + 1] = row
  OBVIOUS
<1> HIDE DEF longer
<1>2. LinkageOK(longer)
  <2> SUFFICES ASSUME NEW i \in DOMAIN longer
               PROVE  longer[i].prev = IF i = 1 THEN Genesis ELSE longer[i - 1].id
    BY DEF LinkageOK
  <2>1. CASE i \in 1..Len(rows)
    <3>1. i # 1 => i - 1 \in 1..Len(rows)
      BY <1>1, <2>1
    <3> QED
      BY <1>1, <2>1, <3>1 DEF Chained, LinkageOK
  <2>2. CASE i = Len(rows) + 1
    <3>1. longer[i].prev = HeadHash(rows)
      BY <1>1, <2>2 DEF FitsHead
    <3>2. CASE rows = <<>>
      BY <3>1, <3>2, <2>2 DEF HeadHash
    <3>3. CASE rows # <<>>
      <4>1. Len(rows) \in 1..Len(rows)
        BY <1>1, <3>3
      <4> QED
        BY <1>1, <2>2, <3>1, <3>3, <4>1 DEF HeadHash
    <3> QED
      BY <3>2, <3>3
  <2> QED
    BY <1>1, <2>1, <2>2
<1>3. InSeqOrder(longer)
  <2> SUFFICES ASSUME NEW i \in DOMAIN longer, NEW j \in DOMAIN longer, i < j
               PROVE  longer[i].seq < longer[j].seq
    BY DEF InSeqOrder
  <2>1. i \in 1..Len(rows)
    BY <1>1
  <2>2. CASE j \in 1..Len(rows)
    BY <1>1, <2>1, <2>2 DEF Chained, InSeqOrder
  <2>3. CASE j = Len(rows) + 1
    BY <1>1, <2>1, <2>3
  <2> QED
    BY <1>1, <2>2, <2>3
<1>4. \A i, j \in DOMAIN longer : longer[i].id = longer[j].id => i = j
  <2>1. \A i \in 1..Len(rows) : rows[i].id # row.id
    BY <1>1 DEF FitsHead, Present
  <2> QED
    BY <1>1, <2>1 DEF Chained
<1>5. \A i \in DOMAIN longer : longer[i].seq < next
  BY <1>1 DEF Chained
<1> QED
  BY <1>2, <1>3, <1>4, <1>5 DEF Chained, longer

-----------------------------------------------------------------------------
(* The invariant. *)

\* An empty table is a chain.
LEMMA EmptyChained == ASSUME NEW next PROVE Chained(<<>>, next)
<1>1. DOMAIN <<>> = {}
  OBVIOUS
<1> QED
  BY <1>1 DEF Chained, LinkageOK, InSeqOrder

LEMMA InitInv == ChainInit => ChainInv
<1> SUFFICES ASSUME ChainInit PROVE ChainInv
  OBVIOUS
<1>1. TypeOK
  <2>1. <<>> \in Seq(Rows) /\ Idle \in Appends
    BY DEF Appends
  <2> QED
    BY <2>1 DEF ChainInit, TypeOK
<1>2. \A s \in Schemas : Chained(log[s], seq[s])
  BY EmptyChained DEF ChainInit
<1>3. \A a \in Appenders : tx[a].stage = "idle"
  BY DEF ChainInit, Idle
<1> QED
  BY <1>1, <1>2, <1>3 DEF ChainInv, Locked, StillFits

\* What a transaction in progress carries.
LEMMA InProgress ==
  ASSUME NEW t \in Appends
  PROVE  /\ t.stage \in {"lock", "read"} =>
              t.schema \in Schemas /\ t.fact \in Facts
         /\ t.stage = "insert" =>
              /\ t.schema \in Schemas /\ t.fact \in Facts
              /\ t.prev \in Facts \cup {Genesis}
         /\ t.stage = "commit" => t.schema \in Schemas /\ t.row \in Rows
BY DEF Appends, Idle

\* A step of one appender that leaves the tables alone keeps what the others have
\* read, and leaves the lock to whoever is past it.
LEMMA TablesUntouched ==
  ASSUME ChainInv, NEW a \in Appenders, NEW t \in Appends,
         tx' = [tx EXCEPT ![a] = t], UNCHANGED <<log, seq>>,
         lock' \in Appenders \cup {Nobody}, Locked', StillFits(a)'
  PROVE  ChainInv'
<1>1. TypeOK'
  BY DEF ChainInv, TypeOK
<1>2. ASSUME NEW b \in Appenders, b # a PROVE StillFits(b)'
  <2>1. tx'[b] = tx[b]
    BY <1>2 DEF ChainInv, TypeOK
  <2> QED
    BY <1>2, <2>1 DEF ChainInv, StillFits
<1> QED
  BY <1>1, <1>2 DEF ChainInv

\* One step of the append of one connection.
LEMMA ContinueInv ==
  ASSUME ChainInv, NEW a \in Appenders, Continue(a)
  PROVE  ChainInv'
<1>1. /\ tx[a] \in Appends /\ tx \in [Appenders -> Appends]
      /\ lock \in Appenders \cup {Nobody} /\ Locked /\ StillFits(a)
  BY DEF ChainInv, TypeOK
<1> DEFINE s == tx[a].schema
<1>2. CASE TakeLock(a)
  <2> DEFINE t == [stage |-> "read", schema |-> tx[a].schema, fact |-> tx[a].fact]
  <2>1. t \in Appends
    BY <1>1, <1>2, InProgress DEF TakeLock, Appends
  <2>2. tx' = [tx EXCEPT ![a] = t] /\ lock' = a /\ lock = Nobody /\ UNCHANGED <<log, seq>>
    BY <1>2 DEF TakeLock, LockFree
  <2>3. Locked'
    BY <1>1, <2>2, ChainAssumption DEF Locked
  <2>4. StillFits(a)'
    BY <1>1, <2>2 DEF StillFits
  <2> QED
    BY <2>1, <2>2, <2>3, <2>4, TablesUntouched
<1>3. CASE FindEvent(a) \/ Refuse(a)
  <2>1. PICK t \in {Idle, [stage |-> "failed"]} : tx' = [tx EXCEPT ![a] = t]
    BY <1>3 DEF FindEvent, Refuse
  <2>2. t \in Appends /\ t.stage \in {"idle", "failed"}
    BY <2>1 DEF Appends, Idle
  <2>3. /\ lock' = IF lock = a THEN Nobody ELSE lock
        /\ UNCHANGED <<log, seq>>
    BY <1>3 DEF FindEvent, Refuse, Release
  <2>4. tx'[a] = t /\ \A b \in Appenders \ {a} : tx'[b] = tx[b]
    BY <1>1, <2>1
  <2>5. Locked'
    BY <1>1, <2>2, <2>3, <2>4 DEF Locked
  <2>6. StillFits(a)'
    BY <2>2, <2>4 DEF StillFits
  <2> QED
    BY <1>1, <2>1, <2>2, <2>3, <2>5, <2>6, TablesUntouched
<1>4. CASE ReadHead(a)
  <2> DEFINE t == [stage |-> "insert", schema |-> s, fact |-> tx[a].fact,
                   prev |-> HeadHash(log[s])]
  <2>1. s \in Schemas /\ tx[a].fact \in Facts /\ tx[a].stage = "read"
    BY <1>1, <1>4, InProgress DEF ReadHead
  <2>2. log[s] \in Seq(Rows)
    BY <2>1 DEF ChainInv, TypeOK
  <2>3. HeadHash(log[s]) \in Facts \cup {Genesis}
    <3>1. CASE log[s] = <<>>
      BY <3>1 DEF HeadHash
    <3>2. CASE log[s] # <<>>
      <4>1. log[s][Len(log[s])] \in Rows
        BY <2>2, <3>2
      <4> QED
        BY <3>2, <4>1 DEF HeadHash, Rows
    <3> QED
      BY <3>1, <3>2
  <2>4. t \in Appends
    BY <2>1, <2>3 DEF Appends
  <2>5. tx' = [tx EXCEPT ![a] = t] /\ lock = a /\ UNCHANGED <<log, seq, lock>>
    BY <1>1, <1>4, <2>1 DEF ReadHead, Locked
  <2>6. ~Present(tx[a].fact, log[s])
    BY <1>4 DEF ReadHead
  <2>7. Locked'
    BY <1>1, <2>5 DEF Locked
  <2>8. StillFits(a)'
    BY <1>1, <2>5, <2>6 DEF StillFits, FitsHead
  <2> QED
    BY <1>1, <2>4, <2>5, <2>7, <2>8, TablesUntouched
<1>5. CASE Insert(a)
  <2> DEFINE row == [id |-> tx[a].fact, prev |-> tx[a].prev, seq |-> seq[s]]
             t == [stage |-> "commit", schema |-> s, row |-> row]
  <2>1. /\ s \in Schemas /\ tx[a].fact \in Facts /\ tx[a].prev \in Facts \cup {Genesis}
        /\ tx[a].stage = "insert"
    BY <1>1, <1>5, InProgress DEF Insert
  <2>2. seq[s] \in Nat /\ seq \in [Schemas -> Nat \ {0}]
    BY <2>1 DEF ChainInv, TypeOK
  <2>3. row \in Rows /\ t \in Appends
    BY <2>1, <2>2 DEF Rows, Appends
  <2>4. /\ tx' = [tx EXCEPT ![a] = t] /\ seq' = [seq EXCEPT ![s] = @ + 1]
        /\ UNCHANGED <<log, lock>> /\ lock = a
    BY <1>1, <1>5, <2>1 DEF Insert, Locked
  <2>5. tx'[a] = t /\ \A b \in Appenders \ {a} : tx'[b] = tx[b]
    BY <1>1, <2>4
  <2>6. seq'[s] = seq[s] + 1 /\ \A u \in Schemas \ {s} : seq'[u] = seq[u]
    BY <2>1, <2>2, <2>4
  <2>7. TypeOK'
    <3>1. tx' \in [Appenders -> Appends]
      BY <1>1, <2>3, <2>4
    <3>2. seq' \in [Schemas -> Nat \ {0}]
      BY <2>1, <2>2, <2>4
    <3> QED
      BY <2>4, <3>1, <3>2 DEF ChainInv, TypeOK
  <2>8. Locked'
    BY <1>1, <2>4, <2>5 DEF Locked
  <2>9. ASSUME NEW u \in Schemas PROVE Chained(log'[u], seq'[u])
    <3>1. Chained(log[u], seq[u]) /\ log' = log /\ log[u] \in Seq(Rows) /\ seq[u] \in Nat
      BY <2>4 DEF ChainInv, TypeOK
    <3>2. CASE u = s
      <4>1. \A i \in DOMAIN log[u] : log[u][i] \in Rows
        BY <3>1
      <4>2. \A i \in DOMAIN log[u] : log[u][i].seq < seq[u] + 1
        BY <3>1, <4>1 DEF Chained, Rows
      <4> QED
        BY <2>6, <3>1, <3>2, <4>2 DEF Chained
    <3>3. CASE u # s
      BY <2>6, <3>1, <3>3
    <3> QED
      BY <3>2, <3>3
  <2>10. ASSUME NEW b \in Appenders PROVE StillFits(b)'
    <3>1. CASE b = a
      <4>1. FitsHead(row.id, row.prev, log[s])
        BY <1>1, <2>1 DEF StillFits
      <4>2. \A i \in DOMAIN log[s] : log[s][i].seq < seq[s]
        BY <2>1 DEF ChainInv, Chained
      <4> HIDE DEF s
      <4> QED
        BY <2>2, <2>4, <2>5, <2>6, <3>1, <4>1, <4>2 DEF StillFits
    <3>2. CASE b # a
      <4>1. tx'[b] = tx[b] /\ tx[b].stage \notin {"insert", "commit"}
        BY <1>1, <2>4, <2>5, <3>2 DEF Locked
      <4> QED
        BY <4>1 DEF StillFits
    <3> QED
      BY <3>1, <3>2
  <2> QED
    BY <2>7, <2>8, <2>9, <2>10 DEF ChainInv
<1>6. CASE Commit(a)
  <2> DEFINE row == tx[a].row
  <2>1. s \in Schemas /\ row \in Rows /\ tx[a].stage = "commit" /\ lock = a
    BY <1>1, <1>6, InProgress DEF Commit, Locked
  <2>2. log \in [Schemas -> Seq(Rows)] /\ seq \in [Schemas -> Nat \ {0}]
    BY DEF ChainInv, TypeOK
  <2>3. /\ tx' = [tx EXCEPT ![a] = Idle] /\ lock' = Nobody /\ seq' = seq
        /\ log' = [log EXCEPT ![s] = Append(@, row)]
    BY <1>6, <2>1 DEF Commit, Release
  <2>4. tx'[a] = Idle /\ \A b \in Appenders \ {a} : tx'[b] = tx[b]
    BY <1>1, <2>3
  <2>5. TypeOK'
    <3>1. Append(log[s], row) \in Seq(Rows) /\ Idle \in Appends
      BY <2>1, <2>2 DEF Appends
    <3> QED
      BY <1>1, <2>2, <2>3, <3>1 DEF TypeOK
  <2>6. \A b \in Appenders : tx'[b].stage \notin {"read", "insert", "commit"}
    BY <1>1, <2>1, <2>4 DEF Locked, Idle
  <2>7. Locked' /\ \A b \in Appenders : StillFits(b)'
    BY <2>6 DEF Locked, StillFits
  <2>8. ASSUME NEW u \in Schemas PROVE Chained(log'[u], seq'[u])
    <3>1. Chained(log[u], seq[u]) /\ log[u] \in Seq(Rows) /\ seq[u] \in Nat
      BY <2>2 DEF ChainInv
    <3>2. CASE u = s
      <4>1. /\ FitsHead(row.id, row.prev, log[s]) /\ row.seq < seq[s]
            /\ \A i \in DOMAIN log[s] : log[s][i].seq < row.seq
        BY <1>1, <2>1 DEF StillFits
      <4>2. Chained(Append(log[u], row), seq[u])
        BY <2>1, <3>1, <3>2, <4>1, AppendChained
      <4> QED
        BY <2>2, <2>3, <3>2, <4>2
    <3>3. CASE u # s
      BY <2>2, <2>3, <3>1, <3>3
    <3> QED
      BY <3>2, <3>3
  <2> QED
    BY <2>5, <2>7, <2>8 DEF ChainInv
<1> QED
  BY <1>2, <1>3, <1>4, <1>5, <1>6 DEF Continue

\* Every step.
LEMMA NextInv == ChainInv /\ [ChainNext]_chain => ChainInv'
<1> SUFFICES ASSUME ChainInv, [ChainNext]_chain PROVE ChainInv'
  OBVIOUS
<1>1. /\ TypeOK /\ Locked /\ tx \in [Appenders -> Appends]
      /\ lock \in Appenders \cup {Nobody}
  BY DEF ChainInv, TypeOK
<1>2. ASSUME NEW a \in Appenders, NEW s \in Schemas, NEW fact \in Facts, Open(a, s, fact)
      PROVE  ChainInv'
  <2> DEFINE t == [stage |-> "lock", schema |-> s, fact |-> fact]
  <2>1. t \in Appends
    BY DEF Appends
  <2>2. tx' = [tx EXCEPT ![a] = t] /\ UNCHANGED <<log, seq, lock>>
    BY <1>2 DEF Open
  <2>3. Locked' /\ StillFits(a)'
    BY <1>1, <2>2 DEF Locked, StillFits
  <2> QED
    BY <1>1, <2>1, <2>2, <2>3, TablesUntouched
<1>3. ASSUME NEW a \in Appenders, Rollback(a) \/ Forget(a)
      PROVE  ChainInv'
  <2>1. PICK t \in {Idle, [stage |-> "failed"]} : tx' = [tx EXCEPT ![a] = t]
    BY <1>3 DEF Rollback, Forget
  <2>2. t \in Appends /\ t.stage \in {"idle", "failed"}
    BY <2>1 DEF Appends, Idle
  <2>3. /\ lock' \in {lock, IF lock = a THEN Nobody ELSE lock}
        /\ UNCHANGED <<log, seq>>
    BY <1>3 DEF Rollback, Forget, Release
  <2>4. tx'[a] = t /\ \A b \in Appenders \ {a} : tx'[b] = tx[b]
    BY <1>1, <2>1
  <2>5. Locked' /\ StillFits(a)' /\ lock' \in Appenders \cup {Nobody}
    BY <1>1, <2>2, <2>3, <2>4 DEF Locked, StillFits
  <2> QED
    BY <2>1, <2>2, <2>3, <2>5, TablesUntouched
<1>4. ASSUME NEW s \in Schemas, DropTable(s) PROVE ChainInv'
  <2>1. log \in [Schemas -> Seq(Rows)] /\ seq \in [Schemas -> Nat \ {0}]
    BY <1>1 DEF TypeOK
  <2>2. /\ log' = [log EXCEPT ![s] = <<>>] /\ seq' = [seq EXCEPT ![s] = 1]
        /\ UNCHANGED <<lock, tx>>
    BY <1>4 DEF DropTable
  <2>3. TypeOK' /\ Locked'
    BY <1>1, <2>1, <2>2 DEF TypeOK, Locked
  <2>4. ASSUME NEW u \in Schemas PROVE Chained(log'[u], seq'[u])
    <3>1. CASE u = s
      BY <2>1, <2>2, <3>1, EmptyChained
    <3>2. CASE u # s
      BY <2>1, <2>2, <3>2 DEF ChainInv
    <3> QED
      BY <3>1, <3>2
  <2>5. ASSUME NEW a \in Appenders PROVE StillFits(a)'
    <3>1. StillFits(a) /\ tx[a] \in Appends /\ tx' = tx
      BY <1>1, <2>2 DEF ChainInv
    <3>2. tx[a].stage \in {"insert", "commit"} => tx[a].schema \in Schemas \ {s}
      BY <1>4, <3>1, InProgress DEF DropTable
    <3>3. tx[a].stage \in {"insert", "commit"} =>
            /\ log'[tx[a].schema] = log[tx[a].schema]
            /\ seq'[tx[a].schema] = seq[tx[a].schema]
      BY <2>1, <2>2, <3>2
    <3> QED
      BY <3>1, <3>3 DEF StillFits
  <2> QED
    BY <2>3, <2>4, <2>5 DEF ChainInv
<1>5. ASSUME UNCHANGED chain PROVE ChainInv'
  BY <1>5 DEF chain, ChainInv, TypeOK, Locked, StillFits
<1> QED
  BY <1>2, <1>3, <1>4, <1>5, ContinueInv DEF ChainNext

LEMMA InvHolds == ChainSpec => []ChainInv
<1> QED
  BY InitInv, NextInv, PTL DEF ChainSpec

\* What the invariant says of the chain, as ChainVerifies puts it.
LEMMA InvGivesVerifies == ChainInv => ChainVerifies
<1> SUFFICES ASSUME ChainInv, NEW s \in Schemas
             PROVE  /\ LinkageOK(log[s]) /\ InSeqOrder(log[s])
                    /\ \A i, j \in DOMAIN log[s] : log[s][i].id = log[s][j].id => i = j
                    /\ \A a \in Appenders :
                         /\ tx[a].stage = "insert" /\ tx[a].schema = s =>
                              ~Claimed(tx[a].prev, log[s])
                         /\ tx[a].stage = "commit" /\ tx[a].schema = s =>
                              ~Claimed(tx[a].row.prev, log[s]) /\ ~Present(tx[a].row.id, log[s])
  BY DEF ChainVerifies
<1>1. Chained(log[s], seq[s]) /\ log[s] \in Seq(Rows)
  BY DEF ChainInv, TypeOK
<1>2. ~Claimed(HeadHash(log[s]), log[s])
  BY <1>1, HeadUnclaimed
<1>3. \A a \in Appenders : StillFits(a)
  BY DEF ChainInv
<1> QED
  BY <1>1, <1>2, <1>3 DEF Chained, StillFits, FitsHead

-----------------------------------------------------------------------------
(* The results. *)

\* Every committed audit chain verifies at every moment, holds each event once and
\* is ordered by seq as it was committed, and no append that is past its probe can
\* meet a fork or a duplicate: for any number of connections, schemas and events,
\* with rollbacks and dropped schemas.
THEOREM ChainCorrect == ChainSpec => []ChainVerifies
<1> QED
  BY InvHolds, InvGivesVerifies, PTL

\* Past the lock there is one connection of the whole database: every step of
\* append from the probe to the commit is made by the holder of the advisory lock.
THEOREM OneAppender == ChainSpec => []Locked
<1>1. ChainInv => Locked
  BY DEF ChainInv
<1> QED
  BY <1>1, InvHolds, PTL

=============================================================================
