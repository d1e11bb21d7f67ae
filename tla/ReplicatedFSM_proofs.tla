------------------------ MODULE ReplicatedFSM_proofs ------------------------
(***************************************************************************)
(* Proofs about ReplicatedFSM for every cluster, log length and operation  *)
(* set: type correctness, the inductive invariant IInv and what follows    *)
(* from it, and that the tables of every replica stay well formed (the     *)
(* dependency graph has no cycle and no reference dangles).                *)
(***************************************************************************)
EXTENDS ReplicatedFSM, TLAPS

----------------------------------------------------------------------------
(* What the apply functions of Definitions leave *)

LEMMA EmptyTablesType == EmptyTables \in Tables /\ NoOps \in OpTable
  BY DEF EmptyTables, Tables, NoOps, OpTable

\* Each apply function leaves well-typed tables.
LEMMA EffectType ==
    ASSUME NEW d \in Tables, NEW g \in Nat, NEW op \in Operation,
           CanRealize(d, g, op)
    PROVE  Effect(d, op) \in Tables
<1>2. CASE op \in PostOp
  <2>1. op.obj \in Post /\ op.arg \in Body /\ op.rev \in Nat
        /\ op.kind \in {"post.create", "post.update"}
    BY <1>2 DEF PostOp
  <2>2. \A v \in Nat : [d EXCEPT !.posts[op.obj] =
                            [version |-> v, body |-> op.arg]] \in Tables
    BY <2>1 DEF Tables, PostRow
  <2>3. Effect(d, op) = applyPostCreate(d, op)
        \/ Effect(d, op) = applyPostUpdate(d, op)
    BY <2>1 DEF Effect
  <2> QED
    BY <2>1, <2>2, <2>3 DEF applyPostCreate, applyPostUpdate
<1>3. CASE op \in DeleteOp
  <2>1. op.obj \in Post /\ op.kind = "post.delete"
    BY <1>3 DEF DeleteOp
  <2>2. Effect(d, op) = applyPostDelete(d, op)
    BY <2>1 DEF Effect
  <2> DEFINE E == {e \in d.deps : e[1] # op.obj /\ e[2] # op.obj}
             U == [u \in Rule |-> IF /\ d.rules[u] # NoRow
                                     /\ d.rules[u].post = op.obj
                                  THEN NoRow ELSE d.rules[u]]
  <2>3. E \in SUBSET (Post \X Post)
    BY DEF Tables
  <2>4. U \in [Rule -> RuleRow \cup {NoRow}]
    BY DEF Tables
  <2>5. [d.posts EXCEPT ![op.obj] = NoRow] \in [Post -> PostRow \cup {NoRow}]
    BY <2>1 DEF Tables
  <2>6. applyPostDelete(d, op) =
          [d EXCEPT !.posts = [d.posts EXCEPT ![op.obj] = NoRow],
                    !.deps = E, !.rules = U]
    BY DEF applyPostDelete, Tables
  <2> HIDE DEF E, U
  <2> QED
    BY <2>2, <2>3, <2>4, <2>5, <2>6 DEF Tables
<1>4. CASE op \in DepOp
  <2>1. op.obj \in Post /\ op.arg \in Post /\ op.kind = "post_dependency.add"
    BY <1>4 DEF DepOp
  <2>2. Effect(d, op) = applyDependencyAdd(d, op)
    BY <2>1 DEF Effect
  <2> QED
    BY <2>1, <2>2 DEF applyDependencyAdd, Tables
<1>5. CASE op \in RuleOp
  <2>1. op.obj \in Rule /\ op.arg.post \in Post /\ op.arg.enabled \in BOOLEAN
        /\ op.kind = "rule.create"
    BY <1>5 DEF RuleOp
  <2>2. Effect(d, op) = applyRuleCreate(d, op)
    BY <2>1 DEF Effect
  <2> QED
    BY <2>1, <2>2 DEF applyRuleCreate, Tables, RuleRow
<1>6. CASE op \in EnableOp
  <2>1. op.obj \in Rule /\ op.arg \in BOOLEAN /\ op.rev \in Nat
        /\ op.kind = "rule.set_enabled"
    BY <1>6 DEF EnableOp
  <2>2. Effect(d, op) = applyRuleSetEnabled(d, op)
    BY <2>1 DEF Effect
  <2>3. d.rules[op.obj] \in RuleRow
    BY <2>1 DEF CanRealize, CanRuleSetEnabled, Tables
  <2> QED
    BY <2>1, <2>2, <2>3 DEF applyRuleSetEnabled, Tables, RuleRow
<1> QED
  BY <1>2, <1>3, <1>4, <1>5, <1>6 DEF Operation

LEMMA RealizeType ==
    ASSUME NEW d \in Tables, NEW g \in Nat, NEW op \in Operation, NEW i \in Nat,
           CanRealize(d, g, op)
    PROVE  Realize(d, g, op, i) \in Tables
<1>1. Effect(d, op) \in Tables
  BY EffectType
<1>2. NewGraphRev(g, op) \in Nat
  BY DEF NewGraphRev
<1> QED
  BY <1>1, <1>2 DEF Realize, Tables

LEMMA RealizeFields ==
    ASSUME NEW d \in Tables, NEW g \in Nat, NEW op \in Operation, NEW i \in Nat,
           CanRealize(d, g, op)
    PROVE  /\ Realize(d, g, op, i).index = i
           /\ Realize(d, g, op, i).graph = NewGraphRev(g, op)
<1>1. Effect(d, op) \in Tables
  BY EffectType
<1> QED
  BY <1>1 DEF Realize, Tables

LEMMA OpIdType == ASSUME NEW op \in Operation PROVE op.id \in OpId
  BY DEF Operation, PostOp, DeleteOp, DepOp, RuleOp, EnableOp

----------------------------------------------------------------------------
(* Types *)

LEMMA ExtendType ==
    ASSUME NEW c \in Meaning, NEW op \in Ops, NEW i \in Nat
    PROVE  Extend(c, op, i) \in Meaning
<1>1. c.db \in Tables /\ c.ops \in OpTable /\ c.db.graph \in Nat
  BY DEF Meaning, Tables
<1>2. [c.ops EXCEPT ![op.id] = op] \in OpTable
  BY <1>1, OpIdType, OpsAssumption DEF OpTable
<1>3. CanRealize(c.db, c.db.graph, op)
        => Realize(c.db, c.db.graph, op, i) \in Tables
  BY <1>1, RealizeType, OpsAssumption
<1> QED
  BY <1>1, <1>2, <1>3 DEF Extend, Meaning

\* An operation entered into a table of known operations.
LEMMA RecordOpType ==
    ASSUME NEW t \in OpTable, NEW op \in Ops
    PROVE  [t EXCEPT ![op.id] = op] \in OpTable
  BY OpIdType, OpsAssumption DEF OpTable

LEMMA MergedOpsType ==
    ASSUME NEW o \in OpTable, NEW s \in Snapshot
    PROVE  MergedOps(o, s) \in OpTable
  BY DEF MergedOps, OpTable, Snapshot

LEMMA DeliverType ==
    ASSUME TypeOK, NEW r \in Replica, Deliver(r)
    PROVE  /\ raftPos' \in [Replica -> Nat]
           /\ NextIndex(r) \in Nat /\ NextIndex(r) \in 1..Len(log)
           /\ NextOp(r) \in Ops /\ NextOp(r).id \in OpId
           /\ log' = log /\ history' = history /\ snap' = snap
           /\ sound' = sound
<1>1. NextIndex(r) \in Nat /\ NextIndex(r) \in 1..Len(log)
  BY DEF TypeOK, Deliver, NextIndex
<1>2. NextOp(r) \in Ops
  BY <1>1 DEF TypeOK, NextOp
<1> QED
  BY <1>1, <1>2, OpIdType, OpsAssumption DEF TypeOK, Deliver

LEMMA TypeInit == Init => TypeOK
<1> SUFFICES ASSUME Init PROVE TypeOK
  OBVIOUS
<1>1. [db |-> EmptyTables, ops |-> NoOps, failed |-> FALSE] \in Meaning
  BY EmptyTablesType DEF Meaning
<1>2. NoSnapshot \in Snapshot
  BY EmptyTablesType DEF NoSnapshot, Snapshot
<1>3. history \in Seq(Meaning) /\ log \in Seq(Ops)
  BY <1>1 DEF Init
<1> QED
  BY <1>2, <1>3, EmptyTablesType DEF Init, TypeOK

LEMMA TypeNext == TypeOK /\ [Next]_vars => TypeOK'
<1> SUFFICES ASSUME TypeOK, [Next]_vars PROVE TypeOK'
  OBVIOUS
<1>1. CASE UNCHANGED vars
  BY <1>1 DEF TypeOK, vars, fsmVars
<1>2. ASSUME NEW op \in Ops, Commit(op)
      PROVE TypeOK'
  <2>1. Extend(history[Len(history)], op, Len(log) + 1) \in Meaning
    <3>1. history[Len(history)] \in Meaning
      BY DEF TypeOK
    <3>2. Len(log) + 1 \in Nat
      BY DEF TypeOK
    <3> QED
      BY <3>1, <3>2, ExtendType
  <2>2. /\ log' \in Seq(Ops) /\ history' \in Seq(Meaning)
        /\ Len(history') = Len(log') + 1
    BY <1>2, <2>1 DEF TypeOK, Commit
  <2> QED
    BY <1>2, <2>2 DEF TypeOK, Commit, fsmVars
<1>3. ASSUME NEW r \in Replica, ReplicaStep(r) PROVE TypeOK'
  <2>1. CASE ApplyFenced(r) \/ ApplyDuplicate(r)
    BY <2>1, DeliverType
       DEF TypeOK, ApplyFenced, ApplyDuplicate, fsmVars
  <2>2. CASE ApplyReplayed(r)
    <3>1. applied' \in [Replica -> OpTable]
      <4>1. applied[r] \in OpTable /\ NextOp(r) \in Ops
        BY <2>2, DeliverType DEF TypeOK, ApplyReplayed
      <4>2. [applied[r] EXCEPT ![NextOp(r).id] = NextOp(r)] \in OpTable
        BY <4>1, RecordOpType
      <4> QED
        BY <2>2, <4>2 DEF TypeOK, ApplyReplayed
    <3> QED
      BY <2>2, <3>1, DeliverType DEF TypeOK, ApplyReplayed
  <2>3. CASE ApplyRealized(r)
    <3>1. applied' \in [Replica -> OpTable]
      <4>1. applied[r] \in OpTable /\ NextOp(r) \in Ops
        BY <2>3, DeliverType DEF TypeOK, ApplyRealized
      <4>2. [applied[r] EXCEPT ![NextOp(r).id] = NextOp(r)] \in OpTable
        BY <4>1, RecordOpType
      <4> QED
        BY <2>3, <4>2 DEF TypeOK, ApplyRealized
    <3>2. db' \in [Replica -> Tables]
      <4>1. /\ db[r] \in Tables /\ graphRev[r] \in Nat
            /\ NextOp(r) \in Ops /\ NextIndex(r) \in Nat
            /\ CanRealize(db[r], graphRev[r], NextOp(r))
        BY <2>3, DeliverType DEF TypeOK, ApplyRealized
      <4>2. Realize(db[r], graphRev[r], NextOp(r), NextIndex(r)) \in Tables
        BY <4>1, RealizeType, OpsAssumption
      <4> QED
        BY <2>3, <4>2 DEF TypeOK, ApplyRealized
    <3>3. graphRev' \in [Replica -> Nat]
      BY <2>3 DEF TypeOK, ApplyRealized, NewGraphRev
    <3>4. local' \in [Replica -> SUBSET Post]
      BY <2>3 DEF TypeOK, ApplyRealized, cleanupNodeLocal
    <3>5. appliedIndex' \in [Replica -> Nat]
      BY <2>3, DeliverType DEF TypeOK, ApplyRealized
    <3> QED
      BY <2>3, <3>1, <3>2, <3>3, <3>4, <3>5, DeliverType
         DEF TypeOK, ApplyRealized
  <2>4. CASE ApplyInvariantError(r)
    BY <2>4, DeliverType DEF TypeOK, ApplyInvariantError
  <2>5. CASE ApplyLocalFailure(r)
    BY <2>5, DeliverType DEF TypeOK, ApplyLocalFailure
  <2>6. CASE TakeSnapshot(r)
    <3>1. [db[r] EXCEPT !.index = appliedIndex[r], !.graph = graphRev[r]]
            \in Tables
      <4>1. /\ db[r] \in Tables
            /\ appliedIndex[r] \in Nat /\ graphRev[r] \in Nat
        BY DEF TypeOK
      <4> QED
        BY <4>1 DEF Tables
    <3>2. snap' \in [Replica -> Snapshot]
      BY <2>6, <3>1 DEF TypeOK, TakeSnapshot, Snapshot
    <3> QED
      BY <2>6, <3>2 DEF TypeOK, TakeSnapshot, fsmVars
  <2>7. ASSUME NEW q \in Replica, ReceiveSnapshot(r, q) PROVE TypeOK'
    BY <2>7 DEF TypeOK, ReceiveSnapshot, fsmVars
  <2>8. CASE RestoreSnapshot(r)
    <3>1. /\ snap[r] \in Snapshot /\ applied[r] \in OpTable
          /\ snap[r].db \in Tables /\ snap[r].ops \in OpTable
          /\ snap[r].label \in Nat
          /\ snap[r].db.index \in Nat /\ snap[r].db.graph \in Nat
      BY DEF TypeOK, Snapshot, Tables
    <3>2. MergedOps(applied[r], snap[r]) \in OpTable
      BY <3>1, MergedOpsType
    <3>3. sound' \in [Replica -> BOOLEAN]
      BY <2>8, <3>1 DEF TypeOK, RestoreSnapshot, Snapshot
    <3>4. /\ UNCHANGED <<log, history, snap, failed, fault>>
          /\ raftPos' \in [Replica -> Nat]
      BY <2>8, <3>1 DEF TypeOK, RestoreSnapshot
    <3>5. CASE Behind(snap[r], persisted[r])
      BY <2>8, <3>2, <3>3, <3>4, <3>5 DEF TypeOK, RestoreSnapshot, RestoreSeed
    <3>6. CASE ~Behind(snap[r], persisted[r])
      <4>1. RestoreReplace(r, snap[r])
        BY <2>8, <3>6 DEF RestoreSnapshot
      <4> QED
        BY <3>1, <3>3, <3>4, <4>1 DEF TypeOK, RestoreReplace
    <3> QED
      BY <3>5, <3>6
  <2>9. CASE Restart(r)
    <3>1. /\ snap[r] \in Snapshot
          /\ snap[r].db \in Tables /\ snap[r].ops \in OpTable
          /\ snap[r].label \in Nat
          /\ snap[r].db.index \in Nat /\ snap[r].db.graph \in Nat
          /\ db[r].index \in Nat /\ db[r].graph \in Nat
      BY DEF TypeOK, Snapshot, Tables
    <3>2. MergedOps(NoOps, snap[r]) \in OpTable
      BY <3>1, MergedOpsType, EmptyTablesType
    <3>3. sound' \in [Replica -> BOOLEAN]
      BY <2>9, <3>1 DEF TypeOK, Restart, Snapshot
    <3>4. /\ UNCHANGED <<log, history, snap>>
          /\ failed' \in [Replica -> BOOLEAN] /\ fault' \in [Replica -> BOOLEAN]
          /\ raftPos' \in [Replica -> Nat]
      BY <2>9, <3>1 DEF TypeOK, Restart
    <3>5. CASE Behind(snap[r], db[r].index)
      <4>1. NewFSM(r) /\ RestoreSeed(r, snap[r], NoOps)
        BY <2>9, <3>5 DEF Restart
      <4> QED
        BY <3>1, <3>2, <3>3, <3>4, <4>1 DEF TypeOK, NewFSM, RestoreSeed
    <3>6. CASE ~Behind(snap[r], db[r].index)
      <4>1. RestoreReplace(r, snap[r])
        BY <2>9, <3>6 DEF Restart
      <4> QED
        BY <3>1, <3>3, <3>4, <4>1 DEF TypeOK, RestoreReplace
    <3> QED
      BY <3>5, <3>6
  <2>10. ASSUME NEW p \in Evidence, RecordEvidence(r, p) PROVE TypeOK'
    BY <2>10, EvidenceAssumption DEF TypeOK, RecordEvidence, fsmVars
  <2> QED
    BY <1>3, <2>1, <2>2, <2>3, <2>4, <2>5, <2>6, <2>7, <2>8, <2>9, <2>10
       DEF ReplicaStep, Apply
<1> QED
  BY <1>1, <1>2, <1>3 DEF Next

\* Every reachable state of every cluster is well typed.
THEOREM TypeCorrect == Spec => []TypeOK
  BY TypeInit, TypeNext, PTL DEF Spec

----------------------------------------------------------------------------
(* The meanings of the prefixes of the log *)

\* One more entry never unsays an earlier one.
LEMMA ExtendGrows ==
    ASSUME NEW c \in Meaning, NEW op \in Ops, NEW i \in Nat,
           NEW e, e = Extend(c, op, i)
    PROVE  /\ e.db = c.db \/ (e.db.index = i /\ ~e.failed)
           /\ c.failed => e.failed
           /\ e.failed => e.db = c.db
           /\ \A o \in OpId : c.ops[o] # NoOp => e.ops[o] = c.ops[o]
<1>1. CASE c.failed \/ c.ops[op.id] # NoOp
  <2>1. e = c
    BY <1>1 DEF Extend
  <2> QED
    BY <2>1
<1>2. CASE ~c.failed /\ c.ops[op.id] = NoOp
  <2>1. c.ops \in OpTable /\ op.id \in OpId
    BY OpIdType, OpsAssumption DEF Meaning
  <2>2. CASE CanRealize(c.db, c.db.graph, op)
    <3>1. /\ e.db.index = i /\ ~e.failed
          /\ e.ops = [c.ops EXCEPT ![op.id] = op]
      <4>1. c.db \in Tables /\ c.db.graph \in Nat
        BY DEF Meaning, Tables
      <4>2. Realize(c.db, c.db.graph, op, i).index = i
        BY <2>2, <4>1, RealizeFields, OpsAssumption
      <4> QED
        BY <1>2, <2>2, <4>2 DEF Extend
    <3> QED
      BY <1>2, <2>1, <3>1 DEF OpTable
  <2>3. CASE ~CanRealize(c.db, c.db.graph, op)
    <3>1. e.db = c.db /\ e.ops = c.ops /\ e.failed
      BY <1>2, <2>3 DEF Extend, Meaning
    <3> QED
      BY <1>2, <3>1
  <2> QED
    BY <2>2, <2>3
<1> QED
  BY <1>1, <1>2

LEMMA IndexType == ASSUME NEW c \in Meaning PROVE c.db.index \in Nat
  BY DEF Meaning, Tables

LEMMA HistoryStep ==
    ASSUME TypeOK, HistoryInv, NEW op \in Ops, Commit(op)
    PROVE  /\ HistoryInv'
           /\ \A n \in 0..Len(log) : MeaningAt(n)' = MeaningAt(n)
<1> DEFINE L == Len(log)
           c == history[L + 1]
           e == Extend(c, op, L + 1)
<1>1. /\ L \in Nat /\ L + 1 \in Nat /\ Len(history) = L + 1
      /\ c \in Meaning /\ c.db.index \in Nat
      /\ \A n \in 1..L + 1 : history[n].db.index \in Nat
  <2>1. L \in Nat /\ L + 1 \in Nat /\ Len(history) = L + 1
    BY DEF TypeOK
  <2>2. \A n \in 1..L + 1 : history[n] \in Meaning
    BY <2>1 DEF TypeOK
  <2>3. \A n \in 1..L + 1 : history[n].db.index \in Nat
    BY <2>2, IndexType
  <2>4. L + 1 \in 1..L + 1
    BY <2>1
  <2> QED
    BY <2>1, <2>2, <2>3, <2>4
<1>2. /\ log' = Append(log, op) /\ history' = Append(history, e)
  BY <1>1 DEF Commit
<1>3. e \in Meaning /\ e.db.index \in Nat
  <2>1. e \in Meaning
    BY <1>1, ExtendType
  <2> QED
    BY <2>1, IndexType
<1>4. /\ e.db = c.db \/ (e.db.index = L + 1 /\ ~e.failed)
      /\ c.failed => e.failed
      /\ e.failed => e.db = c.db
      /\ \A o \in OpId : c.ops[o] # NoOp => e.ops[o] = c.ops[o]
  BY <1>1, ExtendGrows
<1> HIDE DEF e
<1>5. /\ Len(log') = L + 1 /\ Len(history') = L + 2
      /\ \A n \in 1..L : log'[n] = log[n]
      /\ log'[L + 1] = op
      /\ \A n \in 1..L + 1 : history'[n] = history[n]
      /\ history'[L + 2] = e
  BY <1>1, <1>2, <1>3 DEF TypeOK
<1>6. \A n \in 0..L : MeaningAt(n)' = MeaningAt(n)
  BY <1>1, <1>5 DEF MeaningAt
<1>7. \A n \in 1..Len(log') :
          history'[n + 1] = Extend(history'[n], log'[n], n)
  <2> SUFFICES ASSUME NEW n \in 1..L + 1
               PROVE  history'[n + 1] = Extend(history'[n], log'[n], n)
    BY <1>5
  <2>1. CASE n \in 1..L
    <3>1. history[n + 1] = Extend(history[n], log[n], n)
      BY <1>1, <2>1 DEF HistoryInv
    <3>2. n \in 1..L + 1 /\ n + 1 \in 1..L + 1
      BY <1>1, <2>1
    <3>3. /\ history'[n + 1] = history[n + 1] /\ history'[n] = history[n]
          /\ log'[n] = log[n]
      BY <1>5, <2>1, <3>2
    <3> QED
      BY <3>1, <3>3
  <2>2. CASE n = L + 1
    BY <1>1, <1>5, <2>2 DEF e
  <2> QED
    BY <1>1, <2>1, <2>2
<1>8. \A n \in 1..Len(history') :
          /\ history'[n].db.index < n
          /\ history'[history'[n].db.index + 1].db = history'[n].db
          /\ history'[n].failed => history'[n].db.index + 1 < n
  <2> SUFFICES ASSUME NEW n \in 1..L + 2
               PROVE  /\ history'[n].db.index < n
                      /\ history'[history'[n].db.index + 1].db = history'[n].db
                      /\ history'[n].failed => history'[n].db.index + 1 < n
    BY <1>5
  <2>1. CASE n \in 1..L + 1
    <3>1. /\ history[n].db.index < n /\ history[n].db.index \in Nat
          /\ history[history[n].db.index + 1].db = history[n].db
          /\ history[n].failed => history[n].db.index + 1 < n
      BY <1>1, <2>1 DEF HistoryInv
    <3>2. history[n].db.index + 1 \in 1..L + 1
      BY <1>1, <2>1, <3>1
    <3> QED
      BY <1>5, <2>1, <3>1, <3>2
  <2>2. CASE n = L + 2
    <3>1. /\ c.db.index < L + 1
          /\ history[c.db.index + 1].db = c.db
      BY <1>1 DEF HistoryInv
    <3>2. c.db.index + 1 \in 1..L + 1
      BY <1>1, <3>1
    <3>3. CASE e.db = c.db
      BY <1>1, <1>5, <2>2, <3>1, <3>2, <3>3
    <3>4. CASE e.db.index = L + 1 /\ ~e.failed
      BY <1>1, <1>5, <2>2, <3>4
    <3> QED
      BY <1>4, <3>3, <3>4
  <2> QED
    BY <1>1, <2>1, <2>2
<1>9. \A m, n \in 1..Len(history') : m <= n =>
          /\ history'[m].db.index <= history'[n].db.index
          /\ history'[m].failed => history'[n].failed
          /\ \A o \in OpId : history'[m].ops[o] # NoOp
                               => history'[n].ops[o] = history'[m].ops[o]
  <2> SUFFICES ASSUME NEW m \in 1..L + 2, NEW n \in 1..L + 2, m <= n
               PROVE  /\ history'[m].db.index <= history'[n].db.index
                      /\ history'[m].failed => history'[n].failed
                      /\ \A o \in OpId : history'[m].ops[o] # NoOp
                               => history'[n].ops[o] = history'[m].ops[o]
    BY <1>5
  <2>1. CASE n \in 1..L + 1
    <3>1. m \in 1..L + 1
      BY <1>1, <2>1
    <3>2. history'[m] = history[m] /\ history'[n] = history[n]
      BY <1>5, <2>1, <3>1
    <3>3. /\ history[m].db.index <= history[n].db.index
          /\ history[m].failed => history[n].failed
          /\ \A o \in OpId : history[m].ops[o] # NoOp
                               => history[n].ops[o] = history[m].ops[o]
      BY <1>1, <2>1, <3>1 DEF HistoryInv
    <3> QED
      BY <3>2, <3>3
  <2>2. CASE n = L + 2 /\ m = n
    BY <1>3, <1>5, <2>2
  <2>3. CASE n = L + 2 /\ m \in 1..L + 1
    <3>1. /\ history[m].db.index <= c.db.index
          /\ history[m].failed => c.failed
          /\ \A o \in OpId : history[m].ops[o] # NoOp
                               => c.ops[o] = history[m].ops[o]
      BY <1>1, <2>3 DEF HistoryInv
    <3>2. c.db.index <= e.db.index
      <4>1. c.db.index < L + 1
        BY <1>1 DEF HistoryInv
      <4> QED
        BY <1>1, <1>3, <1>4, <4>1
    <3>3. history'[m] = history[m] /\ history'[n] = e
      BY <1>5, <2>3
    <3>4. history[m].db.index \in Nat
      BY <1>1, <2>3
    <3> QED
      BY <1>1, <1>3, <1>4, <3>1, <3>2, <3>3, <3>4
  <2> QED
    BY <1>1, <2>1, <2>2, <2>3
<1> QED
  BY <1>6, <1>7, <1>8, <1>9 DEF HistoryInv
----------------------------------------------------------------------------
(* IInv is inductive *)

\* What the meaning of one prefix of the log looks like.
LEMMA MeaningFacts ==
    ASSUME TypeOK, HistoryInv, NEW n \in 0..Len(log)
    PROVE  /\ MeaningAt(n) \in Meaning
           /\ MeaningAt(n).db \in Tables
           /\ MeaningAt(n).ops \in OpTable
           /\ MeaningAt(n).db.index \in Nat
           /\ MeaningAt(n).db.index <= n
           /\ MeaningAt(MeaningAt(n).db.index).db = MeaningAt(n).db
           /\ MeaningAt(n).failed => MeaningAt(n).db.index < n
<1>1. n + 1 \in 1..Len(history) /\ n \in Nat
  BY DEF TypeOK
<1>2. MeaningAt(n) \in Meaning
  BY <1>1 DEF TypeOK, MeaningAt
<1>3. /\ MeaningAt(n).db \in Tables /\ MeaningAt(n).ops \in OpTable
      /\ MeaningAt(n).db.index \in Nat
  BY <1>2, IndexType DEF Meaning
<1>4. /\ history[n + 1].db.index < n + 1
      /\ history[history[n + 1].db.index + 1].db = history[n + 1].db
      /\ history[n + 1].failed => history[n + 1].db.index + 1 < n + 1
  BY <1>1 DEF HistoryInv
<1> QED
  BY <1>1, <1>2, <1>3, <1>4 DEF MeaningAt

\* A longer prefix is at a later position, is failed if the shorter one is,
\* and knows the operations the shorter one knows.
LEMMA MeaningGrows ==
    ASSUME TypeOK, HistoryInv,
           NEW m \in 0..Len(log), NEW n \in 0..Len(log), m <= n
    PROVE  /\ MeaningAt(m).db.index <= MeaningAt(n).db.index
           /\ MeaningAt(m).failed => MeaningAt(n).failed
           /\ \A o \in OpId : MeaningAt(m).ops[o] # NoOp
                                => MeaningAt(n).ops[o] = MeaningAt(m).ops[o]
<1>1. /\ m + 1 \in 1..Len(history) /\ n + 1 \in 1..Len(history)
      /\ m + 1 <= n + 1
  BY DEF TypeOK
<1> QED
  BY <1>1 DEF HistoryInv, MeaningAt

\* The meaning after the next entry, from the meaning before it.
LEMMA MeaningStep ==
    ASSUME TypeOK, HistoryInv, NEW n \in Nat, n < Len(log)
    PROVE  /\ log[n + 1] \in Ops
           /\ MeaningAt(n + 1) = Extend(MeaningAt(n), log[n + 1], n + 1)
<1>1. n + 1 \in 1..Len(log)
  BY DEF TypeOK
<1> QED
  BY <1>1 DEF TypeOK, HistoryInv, MeaningAt

\* A position that is the position of its own meaning is not failed, and
\* neither is any earlier one.
LEMMA ReachedNotFailed ==
    ASSUME TypeOK, HistoryInv, NEW n \in 0..Len(log),
           MeaningAt(n).db.index = n, NEW m \in 0..n
    PROVE  ~MeaningAt(m).failed
<1>1. ~MeaningAt(n).failed
  BY MeaningFacts
<1>2. m \in 0..Len(log) /\ m <= n
  BY DEF TypeOK
<1> QED
  BY <1>1, <1>2, MeaningGrows

\* Two positions whose meanings are at the same log index hold the same
\* tables.
LEMMA SameIndexSameTables ==
    ASSUME TypeOK, HistoryInv, NEW m \in 0..Len(log), NEW n \in 0..Len(log),
           MeaningAt(m).db.index = MeaningAt(n).db.index
    PROVE  MeaningAt(m).db = MeaningAt(n).db
  BY MeaningFacts

ReplicaInv(r) ==
    /\ RaftInv(r)
    /\ sound[r] => DatabaseInv(r) /\ MemoryInv(r)
    /\ snap[r].sound => SnapshotInv(r)

LEMMA IInvInit == Init => IInv
<1> SUFFICES ASSUME Init PROVE IInv
  OBVIOUS
<1>1. TypeOK
  BY TypeInit
<1>2. /\ Len(log) = 0 /\ Len(history) = 1
      /\ history[1] = [db |-> EmptyTables, ops |-> NoOps, failed |-> FALSE]
      /\ EmptyTables.index = 0 /\ EmptyTables.graph = 0
  BY DEF Init, EmptyTables
<1>3. HistoryInv
  BY <1>2 DEF HistoryInv
<1>4. ASSUME NEW r \in Replica PROVE ReplicaInv(r)
  <2>1. /\ raftPos[r] = 0 /\ db[r] = EmptyTables /\ graphRev[r] = 0
        /\ applied[r] = NoOps /\ persisted[r] = 0 /\ ~failed[r]
        /\ snap[r] = NoSnapshot
    BY DEF Init
  <2>2. snap[r].label = 0 /\ snap[r].db = EmptyTables /\ snap[r].ops = NoOps
    BY <2>1 DEF NoSnapshot
  <2> QED
    BY <1>2, <2>1, <2>2
       DEF ReplicaInv, DatabaseInv, MemoryInv, SnapshotInv, RaftInv,
           MeaningAt, RestorePending
<1> QED
  BY <1>3, <1>4 DEF IInv, ReplicaInv

LEMMA IInvCommit ==
    ASSUME TypeOK, IInv, NEW op \in Ops, Commit(op)
    PROVE  IInv'
<1>1. /\ HistoryInv'
      /\ \A n \in 0..Len(log) : MeaningAt(n)' = MeaningAt(n)
  BY HistoryStep DEF IInv
<1>2. Len(log') = Len(log) + 1 /\ Len(log) \in Nat
  BY DEF TypeOK, Commit
<1>3. ASSUME NEW r \in Replica PROVE ReplicaInv(r)'
  <2>1. /\ raftPos'[r] = raftPos[r] /\ snap'[r] = snap[r]
        /\ db'[r] = db[r] /\ graphRev'[r] = graphRev[r]
        /\ applied'[r] = applied[r] /\ persisted'[r] = persisted[r]
        /\ failed'[r] = failed[r] /\ fault'[r] = fault[r]
        /\ sound'[r] = sound[r]
    BY DEF Commit, fsmVars
  <2>2. /\ raftPos[r] \in 0..Len(log) /\ snap[r].label \in 0..Len(log)
        /\ sound[r] => db[r].index \in 0..Len(log)
    BY <1>2 DEF IInv, DatabaseInv, RaftInv, TypeOK, Tables, Snapshot
  <2>3. /\ history'[raftPos[r] + 1] = history[raftPos[r] + 1]
        /\ history'[snap[r].label + 1] = history[snap[r].label + 1]
        /\ sound[r] => history'[db[r].index + 1] = history[db[r].index + 1]
    BY <1>1, <2>2 DEF MeaningAt
  <2>4. /\ RaftInv(r)
        /\ sound[r] => DatabaseInv(r) /\ MemoryInv(r)
        /\ snap[r].sound => SnapshotInv(r)
    BY DEF IInv
  <2>5. sound[r] => DatabaseInv(r)'
    BY <1>2, <2>1, <2>2, <2>3, <2>4 DEF DatabaseInv, MeaningAt
  <2>6. sound[r] => MemoryInv(r)'
    BY <1>2, <2>1, <2>2, <2>3, <2>4 DEF MemoryInv, MeaningAt
  <2>7. snap[r].sound => SnapshotInv(r)'
    BY <1>2, <2>1, <2>2, <2>3, <2>4 DEF SnapshotInv, MeaningAt
  <2>8. RaftInv(r)'
    BY <1>2, <2>1, <2>2, <2>4 DEF RaftInv, RestorePending
  <2> QED
    BY <2>1, <2>5, <2>6, <2>7, <2>8 DEF ReplicaInv
<1> QED
  BY <1>1, <1>3 DEF IInv, ReplicaInv

\* What is known of every replica, and of a sound one.
LEMMA RaftFacts ==
    ASSUME TypeOK, IInv, NEW r \in Replica
    PROVE  /\ HistoryInv /\ Len(log) \in Nat
           /\ raftPos[r] \in 0..Len(log) /\ raftPos[r] \in Nat
           /\ snap[r].label \in 0..Len(log) /\ snap[r].label \in Nat
           /\ db[r] \in Tables /\ db[r].index \in Nat /\ db[r].graph \in Nat
           /\ persisted[r] \in Nat /\ snap[r] \in Snapshot
           /\ snap[r].db.index \in Nat /\ applied[r] \in OpTable
           /\ failed[r] \in BOOLEAN /\ sound[r] \in BOOLEAN
           /\ snap[r].sound \in BOOLEAN
           /\ RestorePending(r) => snap[r].label > db[r].index
<1>1. /\ db[r] \in Tables /\ snap[r] \in Snapshot /\ applied[r] \in OpTable
      /\ raftPos[r] \in Nat /\ persisted[r] \in Nat /\ Len(log) \in Nat
      /\ failed[r] \in BOOLEAN /\ sound[r] \in BOOLEAN
  BY DEF TypeOK
<1>2. /\ db[r].index \in Nat /\ db[r].graph \in Nat /\ snap[r].label \in Nat
      /\ snap[r].db.index \in Nat /\ snap[r].sound \in BOOLEAN
  BY <1>1 DEF Tables, Snapshot
<1> QED
  BY <1>1, <1>2 DEF IInv, RaftInv

LEMMA ReplicaFacts ==
    ASSUME TypeOK, IInv, NEW r \in Replica, sound[r]
    PROVE  /\ db[r].index \in 0..Len(log)
           /\ persisted[r] <= db[r].index /\ graphRev[r] = db[r].graph
           /\ MeaningAt(db[r].index).db = db[r]
           /\ DatabaseInv(r) /\ MemoryInv(r)
<1>1. db[r].index \in Nat /\ Len(log) \in Nat
  BY RaftFacts
<1>2. DatabaseInv(r) /\ MemoryInv(r)
  BY DEF IInv
<1> QED
  BY <1>1, <1>2 DEF DatabaseInv

\* A replica that a step leaves alone keeps its invariant.
LEMMA Bystander ==
    ASSUME IInv, NEW r \in Replica, log' = log, history' = history,
           raftPos'[r] = raftPos[r], snap'[r] = snap[r], db'[r] = db[r],
           graphRev'[r] = graphRev[r], applied'[r] = applied[r],
           persisted'[r] = persisted[r], failed'[r] = failed[r],
           fault'[r] = fault[r], sound'[r] = sound[r]
    PROVE  ReplicaInv(r)'
<1>1. /\ RaftInv(r)
      /\ sound[r] => DatabaseInv(r) /\ MemoryInv(r)
      /\ snap[r].sound => SnapshotInv(r)
  BY DEF IInv
<1> QED
  BY <1>1 DEF ReplicaInv, DatabaseInv, MemoryInv, SnapshotInv, RaftInv,
              MeaningAt, RestorePending

\* A step that is not told of a snapshot keeps what is known of it.
LEMMA SnapshotKept ==
    ASSUME IInv, NEW r \in Replica, history' = history, snap'[r] = snap[r]
    PROVE  (snap[r].sound => SnapshotInv(r))'
<1>1. snap[r].sound => SnapshotInv(r)
  BY DEF IInv
<1> QED
  BY <1>1 DEF SnapshotInv, MeaningAt

\* The history does not change in a step of a replica.
LEMMA HistoryKept ==
    ASSUME HistoryInv, log' = log, history' = history
    PROVE  HistoryInv' /\ \A n : MeaningAt(n)' = MeaningAt(n)
  BY DEF HistoryInv, MeaningAt
\* FSM.Apply of one entry: duplicates, replays, realised entries, refused
\* entries, local failures and entries behind the fence.
LEMMA SoundApply ==
    ASSUME TypeOK, IInv, NEW r \in Replica, sound[r],
           Apply(r) \/ ApplyLocalFailure(r)
    PROVE  DatabaseInv(r)' /\ MemoryInv(r)'
<1> DEFINE P == raftPos[r]
           op == NextOp(r)
           c == MeaningAt(P)
           n == MeaningAt(P + 1)
<1>1. Deliver(r)
  BY DEF Apply, ApplyFenced, ApplyDuplicate, ApplyReplayed, ApplyRealized,
         ApplyInvariantError, ApplyLocalFailure
<1>2. /\ log' = log /\ history' = history /\ snap'[r] = snap[r]
      /\ P < Len(log) /\ snap[r].label <= P /\ raftPos'[r] = P + 1
  BY <1>1, RaftFacts DEF Deliver, RestorePending, NextIndex, TypeOK
<1>3. /\ HistoryInv /\ Len(log) \in Nat /\ P \in Nat
      /\ P \in 0..Len(log) /\ P + 1 \in 0..Len(log) /\ P <= P + 1
      /\ NextIndex(r) = P + 1 /\ P + 1 \in Nat
  BY <1>2, RaftFacts DEF NextIndex
<1>4. n = Extend(c, op, P + 1) /\ op \in Ops /\ op.id \in OpId
  BY <1>2, <1>3, MeaningStep, OpIdType, OpsAssumption DEF NextOp, NextIndex
<1>5. /\ c.failed => n.failed
      /\ c \in Meaning /\ n \in Meaning /\ c.db \in Tables
  BY <1>3, MeaningFacts, MeaningGrows
<1>6. DatabaseInv(r) /\ MemoryInv(r)
  BY DEF IInv
<1>7. /\ db[r].index \in Nat /\ db[r].index \in 0..Len(log)
      /\ persisted[r] \in Nat /\ persisted[r] <= db[r].index
      /\ graphRev[r] = db[r].graph /\ db[r].graph \in Nat
      /\ MeaningAt(db[r].index).db = db[r] /\ db[r] \in Tables
      /\ applied[r] \in OpTable /\ snap[r].label \in Nat
  BY RaftFacts, ReplicaFacts
<1>10. c = history[P + 1] /\ n = history[P + 1 + 1]
  BY DEF MeaningAt
<1> HIDE DEF c, n, op
<1>11. CASE ApplyFenced(r)
  <2>1. /\ db'[r] = db[r] /\ graphRev'[r] = graphRev[r]
        /\ persisted'[r] = persisted[r] /\ failed'[r] = failed[r]
        /\ fault'[r] = fault[r] /\ failed[r]
    BY <1>11 DEF ApplyFenced, fsmVars
  <2>2. DatabaseInv(r)'
    BY <1>2, <1>6, <2>1 DEF DatabaseInv, MeaningAt
  <2>3. MemoryInv(r)'
    BY <1>2, <1>3, <1>5, <1>6, <1>10, <2>1 DEF MemoryInv, MeaningAt
  <2> QED
    BY <2>2, <2>3
<1>12. CASE ApplyDuplicate(r)
  <2>1. /\ db'[r] = db[r] /\ graphRev'[r] = graphRev[r]
        /\ persisted'[r] = persisted[r] /\ failed'[r] = failed[r]
        /\ fault'[r] = fault[r] /\ applied'[r] = applied[r]
        /\ ~failed[r] /\ applied[r][op.id] # NoOp
    BY <1>12 DEF ApplyDuplicate, fsmVars, Known, op
  <2>2. ~c.failed /\ applied[r] = c.ops
    BY <1>6, <2>1 DEF MemoryInv, c
  <2>3. n = c
    BY <1>4, <2>1, <2>2 DEF Extend
  <2>4. P + 1 >= persisted[r] => db[r] = n.db
    <3>1. CASE P >= persisted[r]
      BY <1>6, <2>1, <2>3, <3>1 DEF MemoryInv, c
    <3>2. CASE P < persisted[r]
      <4>1. db[r].index = persisted[r]
        BY <1>6, <2>1, <3>2 DEF MemoryInv
      <4>2. P + 1 >= persisted[r] => db[r].index = P + 1
        BY <1>3, <1>7, <3>2, <4>1
      <4> QED
        BY <1>7, <4>2 DEF n
    <3> QED
      BY <1>3, <1>7, <3>1, <3>2
  <2>5. P + 1 < persisted[r] => db[r].index = persisted[r]
    BY <1>3, <1>6, <1>7, <2>1 DEF MemoryInv
  <2>6. DatabaseInv(r)'
    BY <1>2, <1>6, <2>1 DEF DatabaseInv, MeaningAt
  <2>7. MemoryInv(r)'
    BY <1>2, <1>3, <1>10, <2>1, <2>2, <2>3, <2>4, <2>5
       DEF MemoryInv, MeaningAt
  <2> QED
    BY <2>6, <2>7
<1>13. CASE ApplyReplayed(r)
  <2>1. /\ db'[r] = db[r] /\ graphRev'[r] = graphRev[r]
        /\ persisted'[r] = persisted[r] /\ failed'[r] = failed[r]
        /\ fault'[r] = fault[r] /\ ~failed[r]
        /\ applied[r][op.id] = NoOp /\ P + 1 <= persisted[r]
        /\ applied'[r] = [applied[r] EXCEPT ![op.id] = op]
    BY <1>3, <1>13 DEF ApplyReplayed, Known, op, TypeOK
  <2>2. ~c.failed /\ applied[r] = c.ops
    BY <1>6, <2>1 DEF MemoryInv, c
  <2>3. db[r].index = persisted[r]
    BY <1>3, <1>6, <1>7, <2>1 DEF MemoryInv
  <2>4. ~n.failed
    <3>1. MeaningAt(db[r].index).db.index = db[r].index
      BY <1>7
    <3>2. P + 1 \in 0..db[r].index
      BY <1>3, <1>7, <2>1, <2>3
    <3> QED
      BY <1>3, <1>7, <3>1, <3>2, ReachedNotFailed DEF n
  <2>5. n.ops = [c.ops EXCEPT ![op.id] = op]
    <3>1. CanRealize(c.db, c.db.graph, op)
      BY <1>4, <1>5, <2>1, <2>2, <2>4 DEF Extend, Meaning
    <3> QED
      BY <1>4, <2>1, <2>2, <3>1 DEF Extend
  <2>6. P + 1 >= persisted[r] => db[r] = n.db
    <3>1. P + 1 >= persisted[r] => db[r].index = P + 1
      BY <1>3, <1>7, <2>1, <2>3
    <3> QED
      BY <1>7, <3>1 DEF n
  <2>7. DatabaseInv(r)'
    BY <1>2, <1>6, <2>1 DEF DatabaseInv, MeaningAt
  <2>8. MemoryInv(r)'
    BY <1>2, <1>3, <1>10, <2>1, <2>2, <2>3, <2>4, <2>5, <2>6
       DEF MemoryInv, MeaningAt
  <2> QED
    BY <2>7, <2>8
<1>14. CASE ApplyRealized(r)
  <2> DEFINE d == Realize(db[r], graphRev[r], op, P + 1)
  <2>1. /\ db'[r] = d /\ graphRev'[r] = NewGraphRev(graphRev[r], op)
        /\ persisted'[r] = persisted[r] /\ failed'[r] = failed[r]
        /\ fault'[r] = fault[r] /\ ~failed[r]
        /\ applied[r][op.id] = NoOp /\ P + 1 > persisted[r]
        /\ applied'[r] = [applied[r] EXCEPT ![op.id] = op]
        /\ CanRealize(db[r], graphRev[r], op)
    BY <1>3, <1>14 DEF ApplyRealized, Known, op, TypeOK
  <2>2. ~c.failed /\ applied[r] = c.ops /\ db[r] = c.db
    BY <1>3, <1>6, <1>7, <2>1 DEF MemoryInv, c
  <2>3. n.db = d /\ n.ops = [c.ops EXCEPT ![op.id] = op] /\ ~n.failed
    BY <1>4, <1>7, <2>1, <2>2 DEF Extend
  <2>4. d.index = P + 1 /\ d.graph = NewGraphRev(graphRev[r], op)
    BY <1>3, <1>4, <1>7, <2>1, RealizeFields, OpsAssumption
  <2> HIDE DEF d
  <2>5. DatabaseInv(r)'
    BY <1>2, <1>3, <1>7, <1>10, <2>1, <2>3, <2>4
       DEF DatabaseInv, MeaningAt
  <2>6. MemoryInv(r)'
    BY <1>2, <1>3, <1>7, <1>10, <2>1, <2>2, <2>3 DEF MemoryInv, MeaningAt
  <2> QED
    BY <2>5, <2>6
<1>15. CASE ApplyInvariantError(r)
  <2>1. /\ db'[r] = db[r] /\ graphRev'[r] = graphRev[r]
        /\ persisted'[r] = persisted[r] /\ failed'[r]
        /\ ~failed[r] /\ applied[r][op.id] = NoOp /\ P + 1 > persisted[r]
        /\ ~CanRealize(db[r], graphRev[r], op)
    BY <1>3, <1>15 DEF ApplyInvariantError, Known, op, TypeOK
  <2>2. ~c.failed /\ applied[r] = c.ops /\ db[r] = c.db
    BY <1>3, <1>6, <1>7, <2>1 DEF MemoryInv, c
  <2>3. n.failed
    BY <1>4, <1>5, <1>7, <2>1, <2>2 DEF Extend, Meaning
  <2>4. DatabaseInv(r)'
    BY <1>2, <1>6, <2>1 DEF DatabaseInv, MeaningAt
  <2>5. MemoryInv(r)'
    BY <1>2, <1>3, <1>10, <2>1, <2>3 DEF MemoryInv, MeaningAt
  <2> QED
    BY <2>4, <2>5
<1>16. CASE ApplyLocalFailure(r)
  <2>1. /\ db'[r] = db[r] /\ graphRev'[r] = graphRev[r]
        /\ persisted'[r] = persisted[r] /\ failed'[r] /\ fault'[r]
    BY <1>16 DEF ApplyLocalFailure, TypeOK
  <2>2. DatabaseInv(r)'
    BY <1>2, <1>6, <2>1 DEF DatabaseInv, MeaningAt
  <2>3. MemoryInv(r)'
    BY <1>2, <1>3, <2>1 DEF MemoryInv, MeaningAt
  <2> QED
    BY <2>2, <2>3
<1> QED
  BY <1>11, <1>12, <1>13, <1>14, <1>15, <1>16 DEF Apply

LEMMA ReplicaApply ==
    ASSUME TypeOK, IInv, NEW r \in Replica,
           Apply(r) \/ ApplyLocalFailure(r)
    PROVE  ReplicaInv(r)'
<1>1. Deliver(r)
  BY DEF Apply, ApplyFenced, ApplyDuplicate, ApplyReplayed, ApplyRealized,
         ApplyInvariantError, ApplyLocalFailure
<1>2. /\ log' = log /\ history' = history /\ snap' = snap /\ sound' = sound
      /\ raftPos[r] < Len(log) /\ snap[r].label <= raftPos[r]
      /\ raftPos'[r] = raftPos[r] + 1
  BY <1>1, RaftFacts DEF Deliver, RestorePending, NextIndex, TypeOK
<1>3. RaftInv(r)'
  BY <1>2, RaftFacts DEF RaftInv, RestorePending
<1>4. (snap[r].sound => SnapshotInv(r))'
  BY <1>2, SnapshotKept
<1> QED
  BY <1>2, <1>3, <1>4, SoundApply DEF ReplicaInv

\* Merging a snapshot's operations into those of a shorter prefix gives the
\* snapshot's.
LEMMA MergeGrows ==
    ASSUME NEW o \in OpTable, NEW s \in Snapshot,
           \A i \in OpId : o[i] # NoOp => s.ops[i] = o[i]
    PROVE  MergedOps(o, s) = s.ops
<1>1. s.ops \in [OpId -> Ops \cup {NoOp}]
  BY DEF Snapshot, OpTable
<1>2. \A i \in OpId : MergedOps(o, s)[i] = s.ops[i]
  BY DEF MergedOps
<1>3. MergedOps(o, s) = [i \in OpId |-> MergedOps(o, s)[i]]
  BY DEF MergedOps
<1>4. s.ops = [i \in OpId |-> s.ops[i]]
  BY <1>1
<1> QED
  BY <1>2, <1>3, <1>4

\* FSM.Snapshot, of whatever FSM: it is sound if the FSM is sound and settled.
LEMMA ReplicaTakeSnapshot ==
    ASSUME TypeOK, IInv, NEW r \in Replica, TakeSnapshot(r)
    PROVE  ReplicaInv(r)'
<1>1. /\ log' = log /\ history' = history /\ raftPos'[r] = raftPos[r]
      /\ db'[r] = db[r] /\ graphRev'[r] = graphRev[r]
      /\ applied'[r] = applied[r] /\ persisted'[r] = persisted[r]
      /\ failed'[r] = failed[r] /\ fault'[r] = fault[r]
      /\ sound'[r] = sound[r]
      /\ snap'[r].label = raftPos[r] /\ snap'[r].ops = applied[r]
      /\ snap'[r].db = [db[r] EXCEPT !.index = appliedIndex[r],
                                     !.graph = graphRev[r]]
      /\ snap'[r].sound <=> sound[r] /\ Settled(r)
  BY DEF TakeSnapshot, TypeOK, fsmVars
<1>2. /\ raftPos[r] \in Nat /\ db[r].index \in Nat /\ persisted[r] \in Nat
      /\ db[r] \in Tables
  BY RaftFacts
<1>3. RaftInv(r)'
  BY <1>1, <1>2, RaftFacts DEF RaftInv, RestorePending
<1>4. sound[r] => DatabaseInv(r)' /\ MemoryInv(r)'
  BY <1>1, ReplicaFacts DEF DatabaseInv, MemoryInv, MeaningAt
<1>5. ASSUME sound[r], Settled(r) PROVE SnapshotInv(r)'
  <2>1. /\ ~failed[r] /\ raftPos[r] >= db[r].index
        /\ appliedIndex[r] = db[r].index
    BY <1>5 DEF Settled
  <2>2. /\ DatabaseInv(r) /\ MemoryInv(r)
        /\ persisted[r] <= db[r].index /\ graphRev[r] = db[r].graph
    BY <1>5, ReplicaFacts
  <2>3. snap'[r].db = db[r]
    BY <1>1, <1>2, <2>1, <2>2 DEF Tables
  <2> QED
    BY <1>1, <1>2, <2>1, <2>2, <2>3 DEF SnapshotInv, MemoryInv, MeaningAt
<1> QED
  BY <1>1, <1>3, <1>4, <1>5 DEF ReplicaInv

\* A snapshot arrives from another replica.
LEMMA ReplicaReceiveSnapshot ==
    ASSUME TypeOK, IInv, NEW r \in Replica, NEW q \in Replica,
           ReceiveSnapshot(r, q)
    PROVE  ReplicaInv(r)'
<1>1. snap[q].sound => SnapshotInv(q)
  BY DEF IInv
<1>2. /\ log' = log /\ history' = history /\ raftPos'[r] = raftPos[r]
      /\ db'[r] = db[r] /\ graphRev'[r] = graphRev[r]
      /\ applied'[r] = applied[r] /\ persisted'[r] = persisted[r]
      /\ failed'[r] = failed[r] /\ fault'[r] = fault[r]
      /\ sound'[r] = sound[r]
      /\ snap'[r] = snap[q] /\ snap[q].label > db[r].index
  BY DEF ReceiveSnapshot, TypeOK, fsmVars
<1>3. RaftInv(r)'
  BY <1>2, RaftFacts DEF RaftInv, RestorePending
<1>4. sound[r] => DatabaseInv(r)' /\ MemoryInv(r)'
  BY <1>2, ReplicaFacts DEF DatabaseInv, MemoryInv, MeaningAt
<1>5. (snap[r].sound => SnapshotInv(r))'
  BY <1>1, <1>2 DEF SnapshotInv, MeaningAt
<1> QED
  BY <1>2, <1>3, <1>4, <1>5 DEF ReplicaInv

\* What FSM.Restore relies on: a sound snapshot is what its label's prefix
\* means.
LEMMA SnapshotFacts ==
    ASSUME TypeOK, IInv, NEW r \in Replica, snap[r].sound
    PROVE  /\ snap[r].db = MeaningAt(snap[r].label).db
           /\ snap[r].ops = MeaningAt(snap[r].label).ops
           /\ ~MeaningAt(snap[r].label).failed
           /\ snap[r].db.index <= snap[r].label
           /\ MeaningAt(snap[r].db.index).db = snap[r].db
<1> DEFINE S == snap[r].label
<1>1. SnapshotInv(r)
  BY DEF IInv
<1>2. HistoryInv /\ S \in 0..Len(log)
  BY RaftFacts
<1>3. /\ snap[r].db = MeaningAt(S).db /\ snap[r].ops = MeaningAt(S).ops
      /\ ~MeaningAt(S).failed
  BY <1>1 DEF SnapshotInv
<1>4. /\ MeaningAt(S).db.index \in Nat /\ MeaningAt(S).db.index <= S
      /\ MeaningAt(MeaningAt(S).db.index).db = MeaningAt(S).db
  BY <1>2, MeaningFacts
<1> QED
  BY <1>3, <1>4

\* A snapshot that is not ahead of a database it covers is equal to it.
LEMMA CoveringSnapshot ==
    ASSUME TypeOK, IInv, NEW r \in Replica, snap[r].sound, sound[r],
           snap[r].label >= db[r].index, snap[r].db.index <= db[r].index
    PROVE  db[r] = snap[r].db
<1> DEFINE S == snap[r].label
<1>1. /\ HistoryInv /\ S \in 0..Len(log) /\ S \in Nat
      /\ db[r].index \in 0..Len(log) /\ db[r].index \in Nat
      /\ MeaningAt(db[r].index).db = db[r]
      /\ snap[r].db = MeaningAt(S).db /\ snap[r].db.index \in Nat
  BY RaftFacts, ReplicaFacts, SnapshotFacts
<1>2. MeaningAt(db[r].index).db.index <= MeaningAt(S).db.index
  BY <1>1, MeaningGrows
<1>3. MeaningAt(db[r].index).db.index = MeaningAt(S).db.index
  BY <1>1, <1>2
<1> QED
  BY <1>1, <1>3, SameIndexSameTables

\* The snapshot replaces the tables, in a running FSM or at start.
LEMMA ReplicaReplace ==
    ASSUME TypeOK, IInv, NEW r \in Replica, snap[r].sound,
           RestoreReplace(r, snap[r]),
           raftPos' = [raftPos EXCEPT ![r] = snap[r].label],
           log' = log, history' = history, snap' = snap,
           failed'[r] => /\ failed[r] /\ fault'[r] = fault[r] /\ sound[r]
                         /\ raftPos[r] <= snap[r].label
    PROVE  DatabaseInv(r)' /\ MemoryInv(r)'
<1> DEFINE S == snap[r].label
<1>1. /\ db'[r] = snap[r].db /\ graphRev'[r] = snap[r].db.graph
      /\ persisted'[r] = snap[r].db.index /\ applied'[r] = snap[r].ops
      /\ raftPos'[r] = S
  BY DEF RestoreReplace, TypeOK
<1>2. /\ S \in 0..Len(log) /\ S \in Nat /\ Len(log) \in Nat
      /\ snap[r].db = MeaningAt(S).db /\ snap[r].ops = MeaningAt(S).ops
      /\ ~MeaningAt(S).failed
      /\ snap[r].db.index \in Nat /\ snap[r].db.index <= S
      /\ MeaningAt(snap[r].db.index).db = snap[r].db
  BY SnapshotFacts, RaftFacts
<1>3. failed'[r] => fault'[r]
  <2> SUFFICES ASSUME failed'[r] PROVE fault'[r]
    OBVIOUS
  <2>1. fault[r] \/ MeaningAt(raftPos[r]).failed
    BY ReplicaFacts DEF MemoryInv
  <2>2. raftPos[r] \in 0..Len(log) /\ HistoryInv
    BY RaftFacts
  <2>3. MeaningAt(raftPos[r]).failed => MeaningAt(S).failed
    BY <1>2, <2>2, MeaningGrows
  <2> QED
    BY <1>2, <2>1, <2>3
<1>4. DatabaseInv(r)'
  BY <1>1, <1>2 DEF DatabaseInv, MeaningAt
<1>5. MemoryInv(r)'
  BY <1>1, <1>2, <1>3 DEF MemoryInv, MeaningAt
<1> QED
  BY <1>4, <1>5

\* A running FSM restores a snapshot it received.
LEMMA ReplicaRestoreSnapshot ==
    ASSUME TypeOK, IInv, NEW r \in Replica, RestoreSnapshot(r)
    PROVE  ReplicaInv(r)'
<1> DEFINE S == snap[r].label
<1>1. /\ log' = log /\ history' = history /\ snap' = snap
      /\ raftPos' = [raftPos EXCEPT ![r] = S]
      /\ failed' = failed /\ fault' = fault /\ S > raftPos[r]
      /\ S > db[r].index
      /\ sound'[r] <=> sound[r] /\ snap[r].sound
  BY RaftFacts DEF RestoreSnapshot, RestorePending, TypeOK
<1>2. /\ raftPos[r] \in Nat /\ S \in Nat /\ raftPos[r] \in 0..Len(log)
      /\ S \in 0..Len(log) /\ raftPos'[r] = S /\ raftPos[r] <= S
      /\ db[r].index \in Nat /\ persisted[r] \in Nat
      /\ applied[r] \in OpTable /\ snap[r] \in Snapshot /\ Len(log) \in Nat
      /\ HistoryInv
  BY <1>1, RaftFacts DEF TypeOK
<1>3. RaftInv(r)'
  BY <1>1, <1>2 DEF RaftInv, RestorePending
<1>4. (snap[r].sound => SnapshotInv(r))'
  BY <1>1, SnapshotKept
<1>5. ASSUME sound[r], snap[r].sound PROVE DatabaseInv(r)' /\ MemoryInv(r)'
  <2>1. /\ DatabaseInv(r) /\ MemoryInv(r) /\ persisted[r] <= db[r].index
    BY <1>5, ReplicaFacts
  <2>2. CASE ~Behind(snap[r], persisted[r])
    <3>1. RestoreReplace(r, snap[r])
      BY <2>2 DEF RestoreSnapshot
    <3> QED
      BY <1>1, <1>2, <1>5, <3>1, ReplicaReplace
  <2>3. CASE Behind(snap[r], persisted[r])
    <3>1. /\ db'[r] = db[r] /\ graphRev'[r] = graphRev[r]
          /\ persisted'[r] = persisted[r]
          /\ applied'[r] = MergedOps(applied[r], snap[r])
      BY <2>3 DEF RestoreSnapshot, RestoreSeed, TypeOK
    <3>2. /\ snap[r].db = MeaningAt(S).db /\ snap[r].ops = MeaningAt(S).ops
          /\ ~MeaningAt(S).failed /\ snap[r].db.index \in Nat
      BY <1>5, SnapshotFacts, RaftFacts
    <3>3. db[r] = snap[r].db
      <4>1. snap[r].db.index <= db[r].index
        BY <1>2, <2>1, <2>3, <3>2 DEF Behind
      <4> QED
        BY <1>1, <1>2, <1>5, <4>1, CoveringSnapshot
    <3>4. ~failed[r] => applied'[r] = snap[r].ops
      <4> SUFFICES ASSUME ~failed[r] PROVE applied'[r] = snap[r].ops
        OBVIOUS
      <4>1. applied[r] = MeaningAt(raftPos[r]).ops
        BY <2>1 DEF MemoryInv
      <4>2. \A i \in OpId : applied[r][i] # NoOp
                              => snap[r].ops[i] = applied[r][i]
        BY <1>2, <3>2, <4>1, MeaningGrows
      <4> QED
        BY <1>2, <3>1, <4>2, MergeGrows
    <3>5. failed[r] => fault[r]
      BY <1>2, <2>1, <3>2, MeaningGrows DEF MemoryInv
    <3>6. DatabaseInv(r)'
      BY <1>1, <2>1, <3>1 DEF DatabaseInv, MeaningAt
    <3>7. MemoryInv(r)'
      BY <1>1, <1>2, <2>1, <3>1, <3>2, <3>3, <3>4, <3>5
         DEF MemoryInv, MeaningAt
    <3> QED
      BY <3>6, <3>7
  <2> QED
    BY <2>2, <2>3
<1> QED
  BY <1>1, <1>3, <1>4, <1>5 DEF ReplicaInv

\* Crash, NewFSM over the database, and the restore of raft's snapshot.
LEMMA ReplicaRestart ==
    ASSUME TypeOK, IInv, NEW r \in Replica, Restart(r)
    PROVE  ReplicaInv(r)'
<1> DEFINE S == snap[r].label
<1>1. /\ log' = log /\ history' = history /\ snap' = snap
      /\ raftPos' = [raftPos EXCEPT ![r] = S] /\ ~failed'[r]
      /\ sound'[r] => snap[r].sound
      /\ Behind(snap[r], db[r].index) /\ sound'[r] => sound[r]
  BY DEF Restart, TypeOK
<1>2. /\ S \in Nat /\ S \in 0..Len(log) /\ raftPos'[r] = S
      /\ db[r].index \in Nat /\ Len(log) \in Nat
      /\ snap[r] \in Snapshot /\ snap[r].ops \in OpTable
  BY <1>1, RaftFacts DEF TypeOK, Snapshot
<1>3. RaftInv(r)'
  BY <1>1, <1>2 DEF RaftInv, RestorePending
<1>4. (snap[r].sound => SnapshotInv(r))'
  BY <1>1, SnapshotKept
<1>5. ASSUME sound'[r] PROVE DatabaseInv(r)' /\ MemoryInv(r)'
  <2>1. CASE ~Behind(snap[r], db[r].index)
    <3>1. RestoreReplace(r, snap[r])
      BY <2>1 DEF Restart
    <3> QED
      BY <1>1, <1>5, <3>1, ReplicaReplace
  <2>2. CASE Behind(snap[r], db[r].index)
    <3>1. /\ db'[r] = db[r] /\ graphRev'[r] = db[r].graph
          /\ persisted'[r] = db[r].index
          /\ applied'[r] = MergedOps(NoOps, snap[r])
      BY <2>2 DEF Restart, RestoreSeed, NewFSM, TypeOK
    <3>2. /\ snap[r].db = MeaningAt(S).db /\ snap[r].ops = MeaningAt(S).ops
          /\ ~MeaningAt(S).failed
      BY <1>1, <1>5, SnapshotFacts
    <3>3. S >= db[r].index => db[r] = snap[r].db
      BY <1>1, <1>5, <2>2, CoveringSnapshot DEF Behind
    <3>4. applied'[r] = snap[r].ops
      <4>1. NoOps \in OpTable /\ \A i \in OpId : NoOps[i] = NoOp
        BY EmptyTablesType DEF NoOps
      <4> QED
        BY <1>2, <3>1, <4>1, MergeGrows
    <3>5. DatabaseInv(r)
      BY <1>1, <1>5, <2>2, ReplicaFacts
    <3>6. DatabaseInv(r)'
      BY <1>1, <1>2, <3>1, <3>5 DEF DatabaseInv, MeaningAt
    <3>7. MemoryInv(r)'
      BY <1>1, <1>2, <3>1, <3>2, <3>3, <3>4 DEF MemoryInv, MeaningAt
    <3> QED
      BY <3>6, <3>7
  <2> QED
    BY <2>1, <2>2
<1> QED
  BY <1>3, <1>4, <1>5 DEF ReplicaInv

\* A step of replica r leaves the log and every other replica alone.
LEMMA OthersKept ==
    ASSUME TypeOK, NEW r \in Replica, ReplicaStep(r),
           NEW q \in Replica, q # r
    PROVE  /\ log' = log /\ history' = history
           /\ raftPos'[q] = raftPos[q] /\ snap'[q] = snap[q]
           /\ db'[q] = db[q] /\ graphRev'[q] = graphRev[q]
           /\ applied'[q] = applied[q] /\ persisted'[q] = persisted[q]
           /\ appliedIndex'[q] = appliedIndex[q]
           /\ failed'[q] = failed[q] /\ fault'[q] = fault[q]
           /\ sound'[q] = sound[q]
<1>1. CASE ApplyFenced(r) \/ ApplyDuplicate(r)
  BY <1>1 DEF ApplyFenced, ApplyDuplicate, Deliver, TypeOK, fsmVars
<1>2. CASE ApplyReplayed(r)
  BY <1>2 DEF ApplyReplayed, Deliver, TypeOK
<1>3. CASE ApplyRealized(r)
  BY <1>3 DEF ApplyRealized, Deliver, TypeOK
<1>4. CASE ApplyInvariantError(r)
  BY <1>4 DEF ApplyInvariantError, Deliver, TypeOK
<1>5. CASE ApplyLocalFailure(r)
  BY <1>5 DEF ApplyLocalFailure, Deliver, TypeOK
<1>6. CASE TakeSnapshot(r)
  BY <1>6 DEF TakeSnapshot, TypeOK, fsmVars
<1>7. CASE \E s \in Replica : ReceiveSnapshot(r, s)
  BY <1>7 DEF ReceiveSnapshot, TypeOK, fsmVars
<1>8. CASE RestoreSnapshot(r)
  BY <1>8 DEF RestoreSnapshot, RestoreSeed, RestoreReplace, TypeOK
<1>9. CASE Restart(r)
  BY <1>9 DEF Restart, NewFSM, RestoreSeed, RestoreReplace, TypeOK
<1>10. CASE \E p \in Evidence : RecordEvidence(r, p)
  BY <1>10 DEF RecordEvidence, fsmVars
<1> QED
  BY <1>1, <1>2, <1>3, <1>4, <1>5, <1>6, <1>7, <1>8, <1>9, <1>10
     DEF ReplicaStep, Apply

LEMMA LogKept ==
    ASSUME NEW r \in Replica, ReplicaStep(r)
    PROVE  log' = log /\ history' = history
  BY DEF ReplicaStep, Apply, ApplyFenced, ApplyDuplicate, ApplyReplayed,
         ApplyRealized, ApplyInvariantError, ApplyLocalFailure, Deliver,
         TakeSnapshot, ReceiveSnapshot, RestoreSnapshot, Restart,
         RecordEvidence

LEMMA IInvNext ==
    ASSUME TypeOK, IInv, [Next]_vars
    PROVE  IInv'
<1>1. CASE UNCHANGED vars
  <2>1. /\ log' = log /\ history' = history /\ raftPos' = raftPos
        /\ snap' = snap /\ db' = db /\ graphRev' = graphRev
        /\ applied' = applied /\ persisted' = persisted
        /\ failed' = failed /\ fault' = fault /\ sound' = sound
    BY <1>1 DEF vars, fsmVars
  <2>2. HistoryInv'
    BY <2>1, HistoryKept DEF IInv
  <2>3. \A r \in Replica : ReplicaInv(r)'
    BY <2>1, Bystander
  <2> QED
    BY <2>2, <2>3 DEF IInv, ReplicaInv
<1>2. ASSUME NEW op \in Ops, Commit(op) PROVE IInv'
  BY <1>2, IInvCommit
<1>3. ASSUME NEW r \in Replica, ReplicaStep(r) PROVE IInv'
  <2>1. HistoryInv'
    BY <1>3, LogKept, HistoryKept DEF IInv
  <2>2. ASSUME NEW q \in Replica, q # r PROVE ReplicaInv(q)'
    BY <1>3, <2>2, OthersKept, Bystander
  <2>3. ReplicaInv(r)'
    <3>1. CASE Apply(r) \/ ApplyLocalFailure(r)
      BY <3>1, ReplicaApply
    <3>2. CASE TakeSnapshot(r)
      BY <3>2, ReplicaTakeSnapshot
    <3>3. CASE \E q \in Replica : ReceiveSnapshot(r, q)
      BY <3>3, ReplicaReceiveSnapshot
    <3>4. CASE RestoreSnapshot(r)
      BY <3>4, ReplicaRestoreSnapshot
    <3>5. CASE Restart(r)
      BY <3>5, ReplicaRestart
    <3>6. CASE \E p \in Evidence : RecordEvidence(r, p)
      BY <3>6, Bystander DEF RecordEvidence, fsmVars
    <3> QED
      BY <1>3, <3>1, <3>2, <3>3, <3>4, <3>5, <3>6 DEF ReplicaStep
  <2> QED
    BY <2>1, <2>2, <2>3 DEF IInv, ReplicaInv
<1> QED
  BY <1>1, <1>2, <1>3 DEF Next

\* Through every interleaving of commits, deliveries, crashes, replays,
\* snapshots and restores, each replica stays aligned with the log unless it
\* restores a snapshot that was taken of a fenced or replaying FSM, and each
\* snapshot of a settled FSM is what its label means (applyLocked, Snapshot,
\* Restore). No assumption is made on when snapshots are taken.
THEOREM Alignment == Spec => []IInv
<1>1. Init => IInv
  BY IInvInit
<1>2. TypeOK /\ IInv /\ [Next]_vars => IInv'
  BY IInvNext
<1> QED
  BY <1>1, <1>2, TypeCorrect, PTL DEF Spec

\* The tables of every replica are what the log prefix at the position in
\* their own metadata means, unless they descend from a snapshot of an
\* unsettled FSM (applyLocked, Restore, NewFSM).
THEOREM PrefixTheorem == Spec => []MaterializationIsPrefix
<1>1. IInv => MaterializationIsPrefix
  BY DEF IInv, DatabaseInv, MaterializationIsPrefix
<1> QED
  BY <1>1, Alignment, PTL

\* A replica without local faults never rejects a committed operation that
\* the log's meaning accepts, except after a snapshot of an unsettled FSM
\* (applyLocked).
THEOREM FailureTheorem == Spec => []NoSpuriousFailure
<1>1. IInv => NoSpuriousFailure
  BY DEF IInv, MemoryInv, NoSpuriousFailure
<1> QED
  BY <1>1, Alignment, PTL

\* The op-ID table of a healthy replica is complete for what it was given,
\* except after a snapshot of an unsettled FSM (applyLocked, Restore).
THEOREM IdempotencyTheorem == Spec => []IdempotencyComplete
<1>1. IInv => IdempotencyComplete
  BY DEF IInv, MemoryInv, IdempotencyComplete
<1> QED
  BY <1>1, Alignment, PTL
----------------------------------------------------------------------------
(* The replicas implement DefinitionsLog *)

\* A step that keeps a replica sound leaves its tables alone or takes them to
\* a strictly later position of the log.
LEMMA DatabaseStep ==
    ASSUME TypeOK, IInv, NEW r \in Replica, ReplicaStep(r),
           sound[r], sound'[r]
    PROVE  \/ db' = db
           \/ /\ db' = [db EXCEPT ![r] = db'[r]]
              /\ db'[r].index > db[r].index
<1>1. CASE ApplyRealized(r)
  <2>1. /\ db' = [db EXCEPT ![r] =
                    Realize(db[r], graphRev[r], NextOp(r), NextIndex(r))]
        /\ CanRealize(db[r], graphRev[r], NextOp(r)) /\ ~failed[r]
        /\ NextIndex(r) > persisted[r] /\ Deliver(r)
    BY <1>1 DEF ApplyRealized
  <2>2. /\ db[r] \in Tables /\ graphRev[r] \in Nat
        /\ NextOp(r) \in Ops /\ NextIndex(r) \in Nat
    BY <2>1, DeliverType DEF TypeOK
  <2>3. db'[r].index = NextIndex(r)
    BY <2>1, <2>2, RealizeFields, OpsAssumption DEF TypeOK
  <2>4. /\ HistoryInv /\ raftPos[r] \in 0..Len(log) /\ raftPos[r] \in Nat
        /\ persisted[r] \in Nat /\ db[r].index \in Nat
    BY RaftFacts
  <2>5. db[r] = MeaningAt(raftPos[r]).db
    BY <2>1, <2>4, ReplicaFacts DEF MemoryInv, NextIndex
  <2>6. db[r].index <= raftPos[r]
    BY <2>4, <2>5, MeaningFacts
  <2>7. db' = [db EXCEPT ![r] = db'[r]]
    BY <2>1 DEF TypeOK
  <2> QED
    BY <2>3, <2>4, <2>6, <2>7 DEF NextIndex
<1>2. ASSUME RestoreReplace(r, snap[r]), snap[r].label > db[r].index,
             snap[r].sound
      PROVE  \/ db' = db
             \/ /\ db' = [db EXCEPT ![r] = db'[r]]
                /\ db'[r].index > db[r].index
  <2>1. db' = [db EXCEPT ![r] = snap[r].db] /\ db'[r] = snap[r].db
    BY <1>2 DEF RestoreReplace, TypeOK
  <2>2. /\ db[r].index \in Nat /\ snap[r].db.index \in Nat
        /\ snap[r].label \in Nat
    BY RaftFacts
  <2>3. CASE snap[r].db.index > db[r].index
    BY <2>1, <2>3
  <2>4. CASE snap[r].db.index <= db[r].index
    <3>1. db[r] = snap[r].db
      BY <1>2, <2>2, <2>4, CoveringSnapshot
    <3> QED
      BY <2>1, <3>1 DEF TypeOK
  <2> QED
    BY <2>2, <2>3, <2>4
<1>3. CASE RestoreSnapshot(r)
  <2>1. snap[r].label > db[r].index /\ snap[r].sound
    BY <1>3, RaftFacts DEF RestoreSnapshot, TypeOK
  <2> QED
    BY <1>2, <1>3, <2>1 DEF RestoreSnapshot, RestoreSeed
<1>4. CASE Restart(r)
  <2>1. CASE Behind(snap[r], db[r].index)
    BY <1>4, <2>1 DEF Restart, RestoreSeed
  <2>2. CASE ~Behind(snap[r], db[r].index)
    <3>1. RestoreReplace(r, snap[r])
      BY <1>4, <2>2 DEF Restart
    <3>2. /\ db[r].index \in Nat /\ snap[r].db.index \in Nat
          /\ snap[r].label \in Nat /\ snap[r].db.index <= snap[r].label
          /\ snap[r].sound
      <4>1. snap[r].sound
        BY <1>4 DEF Restart, TypeOK
      <4> QED
        BY <4>1, RaftFacts, SnapshotFacts
    <3>3. snap[r].label > db[r].index
      BY <2>2, <3>2 DEF Behind
    <3> QED
      BY <1>2, <3>1, <3>2, <3>3
  <2> QED
    BY <2>1, <2>2
<1>5. CASE ~(ApplyRealized(r) \/ RestoreSnapshot(r) \/ Restart(r))
  BY <1>5 DEF ReplicaStep, Apply, ApplyFenced, ApplyDuplicate,
              ApplyReplayed, ApplyInvariantError, ApplyLocalFailure,
              TakeSnapshot, ReceiveSnapshot, RecordEvidence
<1> QED
  BY <1>1, <1>3, <1>4, <1>5

LEMMA NoRegressStep ==
    ASSUME TypeOK, IInv, TypeOK', [Next]_vars
    PROVE  \A r \in Replica : sound[r] /\ sound'[r]
              => db'[r].index >= db[r].index
<1> SUFFICES ASSUME NEW r \in Replica, sound[r], sound'[r]
             PROVE  db'[r].index >= db[r].index
  OBVIOUS
<1>1. db[r].index \in Nat /\ db'[r].index \in Nat
  <2>1. db[r] \in Tables /\ db'[r] \in Tables
    BY DEF TypeOK
  <2> QED
    BY <2>1 DEF Tables
<1>2. CASE UNCHANGED vars \/ \E op \in Ops : Commit(op)
  BY <1>1, <1>2 DEF vars, Commit
<1>3. ASSUME NEW q \in Replica, ReplicaStep(q)
      PROVE  db'[r].index >= db[r].index
  <2>1. CASE q = r
    BY <1>1, <1>3, <2>1, DatabaseStep
  <2>2. CASE q # r
    BY <1>1, <1>3, <2>2, OthersKept
  <2> QED
    BY <2>1, <2>2
<1> QED
  BY <1>2, <1>3 DEF Next

\* No step takes a database back to an earlier log position, except one that
\* restores a snapshot of an unsettled FSM (Restore, NewFSM).
THEOREM ForwardTheorem == Spec => PositionNeverRegresses
<1>1. TypeOK /\ IInv /\ TypeOK' /\ [Next]_vars
        => [\A r \in Replica : sound[r] /\ sound'[r]
              => db'[r].index >= db[r].index]_vars
  BY NoRegressStep
<1> QED
  BY <1>1, TypeCorrect, Alignment, PTL DEF Spec, PositionNeverRegresses

----------------------------------------------------------------------------
(* Node-local rows *)

RestoredReplica(r) ==
    /\ persisted[r] <= db[r].index /\ appliedIndex[r] <= db[r].index
    /\ db[r].index > persisted[r] => db[r].index <= raftPos[r]
    /\ ~RestorePending(r) => snap[r].db.index <= db[r].index

\* The positions of one replica are numbers, now and after a step.
LEMMA PositionTypes ==
    ASSUME TypeOK, NEW r \in Replica
    PROVE  /\ db[r].index \in Nat /\ snap[r].db.index \in Nat
           /\ snap[r].label \in Nat /\ raftPos[r] \in Nat
           /\ persisted[r] \in Nat /\ appliedIndex[r] \in Nat
<1>1. /\ db[r] \in Tables /\ snap[r] \in Snapshot
      /\ raftPos[r] \in Nat /\ persisted[r] \in Nat /\ appliedIndex[r] \in Nat
  BY DEF TypeOK
<1>2. snap[r].db \in Tables /\ snap[r].label \in Nat
  BY <1>1 DEF Snapshot
<1> QED
  BY <1>1, <1>2 DEF Tables

LEMMA RestoredStep ==
    ASSUME TypeOK, IInv, RestoredInv, [Next]_vars
    PROVE  RestoredInv'
<1> SUFFICES ASSUME NEW r \in Replica PROVE RestoredReplica(r)'
  BY DEF RestoredInv, RestoredReplica
<1>1. /\ db[r].index \in Nat /\ snap[r].db.index \in Nat
      /\ snap[r].label \in Nat /\ raftPos[r] \in Nat
      /\ persisted[r] \in Nat /\ appliedIndex[r] \in Nat
  BY PositionTypes
<1>2. RestoredReplica(r)
  BY DEF RestoredInv, RestoredReplica
<1>3. ASSUME snap'[r] = snap[r], raftPos'[r] = raftPos[r], db'[r] = db[r],
             persisted'[r] = persisted[r], appliedIndex'[r] = appliedIndex[r]
      PROVE  RestoredReplica(r)'
  BY <1>2, <1>3 DEF RestoredReplica, RestorePending
<1>4. CASE UNCHANGED vars \/ \E op \in Ops : Commit(op)
  BY <1>3, <1>4 DEF vars, Commit, fsmVars
<1>5. ASSUME NEW q \in Replica, ReplicaStep(q), q # r
      PROVE  RestoredReplica(r)'
  BY <1>3, <1>5, OthersKept
<1>6. CASE Apply(r) \/ ApplyLocalFailure(r)
  <2>1. /\ Deliver(r) /\ ~RestorePending(r) /\ snap'[r] = snap[r]
        /\ raftPos'[r] = raftPos[r] + 1 /\ NextIndex(r) = raftPos[r] + 1
    BY <1>6 DEF Apply, ApplyFenced, ApplyDuplicate, ApplyReplayed,
                ApplyRealized, ApplyInvariantError, ApplyLocalFailure,
                Deliver, NextIndex, TypeOK
  <2>2. CASE ApplyRealized(r)
    <3>1. /\ db'[r] = Realize(db[r], graphRev[r], NextOp(r), NextIndex(r))
          /\ CanRealize(db[r], graphRev[r], NextOp(r))
          /\ raftPos[r] + 1 > persisted[r] /\ persisted'[r] = persisted[r]
          /\ appliedIndex'[r] = raftPos[r] + 1
      BY <2>1, <2>2 DEF ApplyRealized, TypeOK
    <3>2. /\ db[r] \in Tables /\ graphRev[r] \in Nat
          /\ NextOp(r) \in Ops /\ NextIndex(r) \in Nat
      BY <2>1, DeliverType DEF TypeOK
    <3>3. db'[r].index = raftPos[r] + 1
      BY <2>1, <3>1, <3>2, RealizeFields, OpsAssumption
    <3>4. db[r].index <= raftPos[r]
      BY <1>1, <1>2, <3>1 DEF RestoredReplica
    <3> QED
      BY <1>1, <1>2, <2>1, <3>1, <3>3, <3>4
         DEF RestoredReplica, RestorePending
  <2>3. CASE ApplyReplayed(r)
    <3>1. /\ db'[r] = db[r] /\ persisted'[r] = persisted[r]
          /\ raftPos[r] + 1 <= persisted[r]
          /\ appliedIndex'[r] = raftPos[r] + 1
      BY <2>1, <2>3 DEF ApplyReplayed, TypeOK
    <3> QED
      BY <1>1, <1>2, <2>1, <3>1 DEF RestoredReplica, RestorePending
  <2>4. CASE ~ApplyRealized(r) /\ ~ApplyReplayed(r)
    <3>1. /\ db'[r] = db[r] /\ persisted'[r] = persisted[r]
          /\ appliedIndex'[r] = appliedIndex[r]
      BY <1>6, <2>4 DEF Apply, ApplyFenced, ApplyDuplicate,
                        ApplyInvariantError, ApplyLocalFailure, fsmVars
    <3> QED
      BY <1>1, <1>2, <2>1, <3>1 DEF RestoredReplica, RestorePending
  <2> QED
    BY <2>2, <2>3, <2>4
<1>7. CASE TakeSnapshot(r)
  <2>1. /\ raftPos'[r] = raftPos[r] /\ db'[r] = db[r]
        /\ persisted'[r] = persisted[r] /\ appliedIndex'[r] = appliedIndex[r]
        /\ snap'[r].db = [db[r] EXCEPT !.index = appliedIndex[r],
                                       !.graph = graphRev[r]]
    BY <1>7 DEF TakeSnapshot, TypeOK, fsmVars
  <2>2. snap'[r].db.index = appliedIndex[r]
    <3>1. db[r] \in Tables
      BY DEF TypeOK
    <3> QED
      BY <2>1, <3>1 DEF Tables
  <2> QED
    BY <1>1, <1>2, <2>1, <2>2 DEF RestoredReplica
<1>8. CASE \E q \in Replica : ReceiveSnapshot(r, q)
  <2>1. PICK q \in Replica : ReceiveSnapshot(r, q)
    BY <1>8
  <2>2. /\ snap'[r] = snap[q] /\ snap[q].label > raftPos[r]
        /\ raftPos'[r] = raftPos[r] /\ db'[r] = db[r]
        /\ persisted'[r] = persisted[r] /\ appliedIndex'[r] = appliedIndex[r]
    BY <2>1 DEF ReceiveSnapshot, TypeOK, fsmVars
  <2> QED
    BY <1>2, <2>2 DEF RestoredReplica, RestorePending
<1>9. ASSUME RestoreReplace(r, snap[r]), snap' = snap
      PROVE  RestoredReplica(r)'
  <2>1. /\ db'[r] = snap[r].db /\ persisted'[r] = snap[r].db.index
        /\ appliedIndex'[r] = snap[r].db.index /\ snap'[r] = snap[r]
    BY <1>9 DEF RestoreReplace, TypeOK
  <2> QED
    BY <1>1, <2>1 DEF RestoredReplica
<1>10. CASE RestoreSnapshot(r)
  <2>1. CASE Behind(snap[r], persisted[r])
    <3>1. /\ db'[r] = db[r] /\ persisted'[r] = persisted[r]
          /\ appliedIndex'[r] = appliedIndex[r] /\ snap'[r] = snap[r]
          /\ raftPos'[r] = snap[r].label /\ snap[r].db.index <= persisted[r]
      BY <1>10, <2>1 DEF RestoreSnapshot, RestoreSeed, Behind, TypeOK
    <3>2. snap[r].label > db[r].index
      BY <1>10, RaftFacts DEF RestoreSnapshot
    <3> QED
      BY <1>1, <1>2, <3>1, <3>2 DEF RestoredReplica
  <2> QED
    BY <1>9, <1>10, <2>1 DEF RestoreSnapshot
<1>11. CASE Restart(r)
  <2>1. CASE Behind(snap[r], db[r].index)
    <3>1. /\ db'[r] = db[r] /\ persisted'[r] = db[r].index
          /\ appliedIndex'[r] = db[r].index /\ snap'[r] = snap[r]
          /\ snap[r].db.index <= db[r].index
      BY <1>11, <2>1 DEF Restart, RestoreSeed, NewFSM, Behind, TypeOK
    <3> QED
      BY <1>1, <3>1 DEF RestoredReplica
  <2> QED
    BY <1>9, <1>11, <2>1 DEF Restart
<1>12. CASE \E p \in Evidence : RecordEvidence(r, p)
  BY <1>3, <1>12 DEF RecordEvidence, fsmVars
<1>13. CASE ReplicaStep(r)
  BY <1>6, <1>7, <1>8, <1>10, <1>11, <1>12, <1>13 DEF ReplicaStep
<1> QED
  BY <1>4, <1>5, <1>13 DEF Next

LEMMA EvidenceStep ==
    ASSUME TypeOK, RestoredInv, [Next]_vars, NEW r \in Replica,
           ~(local[r] \subseteq local'[r])
    PROVE  raftPos'[r] > raftPos[r]
<1>1. /\ db[r].index \in Nat /\ snap[r].db.index \in Nat
      /\ snap[r].label \in Nat /\ raftPos[r] \in Nat
  BY PositionTypes
<1>2. ~(UNCHANGED local)
  OBVIOUS
<1>3. PICK q \in Replica : ReplicaStep(q)
  BY <1>2 DEF Next, Commit, vars
<1>4. \/ ApplyRealized(q)
      \/ RestoreSnapshot(q) /\ RestoreReplace(q, snap[q])
      \/ Restart(q) /\ ~Behind(snap[q], db[q].index) /\ RestoreReplace(q, snap[q])
      \/ \E p \in Evidence : RecordEvidence(q, p)
  <2>1. CASE Apply(q) \/ ApplyLocalFailure(q)
    BY <1>2, <2>1 DEF Apply, ApplyFenced, ApplyDuplicate, ApplyReplayed,
                      ApplyInvariantError, ApplyLocalFailure
  <2>2. CASE TakeSnapshot(q) \/ \E p \in Replica : ReceiveSnapshot(q, p)
    BY <1>2, <2>2 DEF TakeSnapshot, ReceiveSnapshot
  <2>3. CASE RestoreSnapshot(q)
    BY <1>2, <2>3 DEF RestoreSnapshot, RestoreSeed
  <2>4. CASE Restart(q)
    BY <1>2, <2>4 DEF Restart, RestoreSeed
  <2> QED
    BY <1>3, <2>1, <2>2, <2>3, <2>4 DEF ReplicaStep
<1>5. q = r
  BY <1>4 DEF ApplyRealized, RestoreReplace, RecordEvidence, TypeOK
<1>6. CASE ApplyRealized(q)
  BY <1>1, <1>5, <1>6 DEF ApplyRealized, Deliver, NextIndex, TypeOK
<1>7. CASE RestoreSnapshot(q) \/ (Restart(q) /\ ~Behind(snap[q], db[q].index))
  <2>1. RestorePending(r)
    BY <1>1, <1>5, <1>7 DEF RestoreSnapshot, RestoredInv, Behind
  <2>2. raftPos' = [raftPos EXCEPT ![r] = snap[r].label]
    BY <1>5, <1>7 DEF RestoreSnapshot, Restart
  <2> QED
    BY <2>1, <2>2 DEF RestorePending, TypeOK
<1>8. CASE \E p \in Evidence : RecordEvidence(q, p)
  BY <1>5, <1>8 DEF RecordEvidence, TypeOK
<1> QED
  BY <1>4, <1>6, <1>7, <1>8

\* A restart erases no node-local row: whenever a row goes, raft has moved the
\* replica forward, over a delete or to a newer snapshot (NewFSM, Restore).
THEOREM EvidenceTheorem == Spec => RestartKeepsEvidence
<1>1. Init => RestoredInv
  <2>1. EmptyTables.index = 0
    BY DEF EmptyTables
  <2> QED
    BY <2>1 DEF Init, RestoredInv, NoSnapshot
<1>2. TypeOK /\ RestoredInv /\ [Next]_vars
        => [\A r \in Replica :
              ~(local[r] \subseteq local'[r]) => raftPos'[r] > raftPos[r]]_vars
  BY EvidenceStep
<1>3. TypeOK /\ IInv /\ RestoredInv /\ [Next]_vars
        => RestoredInv'
  BY RestoredStep
<1> QED
  BY <1>1, <1>2, <1>3, TypeCorrect, Alignment, PTL
     DEF Spec, RestartKeepsEvidence

\* The sequence of published states that the refinement maps the log to.
LEMMA PublishedFacts ==
    ASSUME TypeOK, NEW s, s = [n \in 1..Len(history) |-> history[n].db]
    PROVE  Len(s) = Len(log) + 1 /\ s \in Seq(Tables)
<1>1. Len(history) \in Nat /\ Len(history) = Len(log) + 1
  BY DEF TypeOK
<1>2. \A n \in 1..Len(history) : history[n].db \in Tables
  <2>1. \A n \in 1..Len(history) : history[n] \in Meaning
    BY DEF TypeOK
  <2> QED
    BY <2>1 DEF Meaning
<1> QED
  BY <1>1, <1>2

LEMMA PromiseInit == Init => Promise!Init
<1> SUFFICES ASSUME Init PROVE Promise!Init
  OBVIOUS
<1>1. /\ Len(history) = 1 /\ history[1].db = EmptyTables
      /\ EmptyTables.index = 0
  BY DEF Init, EmptyTables
<1>2. [n \in 1..Len(history) |-> history[n].db] = <<EmptyTables>>
  BY <1>1
<1>3. /\ [r \in Replica |-> IF sound[r] THEN db[r].index + 1 ELSE 0]
            = [r \in Replica |-> 1]
      /\ [r \in Replica |-> IF sound[r] THEN db[r] ELSE NoRow]
            = [r \in Replica |-> EmptyTables]
  BY <1>1 DEF Init
<1> QED
  BY <1>2, <1>3 DEF Promise!Init

LEMMA PromiseStep ==
    ASSUME TypeOK, IInv, TypeOK', IInv', [Next]_vars
    PROVE  [Promise!Next]_(Promise!vars)
<1> DEFINE pub == [n \in 1..Len(history) |-> history[n].db]
           at  == [r \in Replica |-> IF sound[r] THEN db[r].index + 1 ELSE 0]
           vw  == [r \in Replica |-> IF sound[r] THEN db[r] ELSE NoRow]
<1>1. CASE UNCHANGED vars
  BY <1>1 DEF vars, Promise!vars
<1>2. ASSUME NEW op \in Ops, Commit(op) PROVE Promise!Next
  <2>1. Len(pub) = Len(log) + 1 /\ Len(log) \in Nat
    BY PublishedFacts DEF TypeOK
  <2>2. Len(pub') = Len(log') + 1 /\ Len(log') = Len(log) + 1
    BY <1>2, PublishedFacts DEF TypeOK, Commit
  <2>3. \A n \in 1..Len(pub) : pub'[n] = pub[n]
    <3>1. /\ Len(history) = Len(log) + 1 /\ Len(history') = Len(log) + 2
          /\ \A n \in 1..Len(history) : history'[n] = history[n]
      BY <1>2 DEF TypeOK, Commit
    <3> QED
      BY <2>1, <3>1
  <2>4. at' = at /\ vw' = vw
    BY <1>2 DEF Commit
  <2> QED
    BY <2>1, <2>2, <2>3, <2>4 DEF Promise!Next, Promise!Publish
<1>3. ASSUME NEW r \in Replica, ReplicaStep(r)
      PROVE  [Promise!Next]_(Promise!vars)
  <2>1. history' = history /\ log' = log
    BY <1>3, LogKept
  <2>2. pub' = pub
    BY <2>1
  <2>3. \A q \in Replica : q # r => db'[q] = db[q] /\ sound'[q] = sound[q]
    BY <1>3, OthersKept
  <2>4. /\ at' = [at EXCEPT ![r] = IF sound'[r] THEN db'[r].index + 1 ELSE 0]
        /\ vw' = [vw EXCEPT ![r] = IF sound'[r] THEN db'[r] ELSE NoRow]
    BY <2>3
  <2>5. /\ at[r] = IF sound[r] THEN db[r].index + 1 ELSE 0
        /\ vw[r] = IF sound[r] THEN db[r] ELSE NoRow
    OBVIOUS
  <2>6. CASE ~sound'[r]
    <3>1. at' = [at EXCEPT ![r] = 0] /\ vw' = [vw EXCEPT ![r] = NoRow]
      BY <2>4, <2>6
    <3>2. Promise!Lose(r)
      BY <2>2, <3>1 DEF Promise!Lose
    <3> QED
      BY <3>2 DEF Promise!Next
  <2>7. CASE sound'[r] /\ sound[r] /\ db' = db
    <3>1. at' = at /\ vw' = vw
      BY <2>4, <2>5, <2>7
    <3> QED
      BY <2>2, <3>1 DEF Promise!vars
  <2>8. CASE sound'[r] /\ (sound[r] => db'[r].index > db[r].index)
    <3> DEFINE n == db'[r].index + 1
    <3>1. /\ db[r].index \in Nat /\ db'[r].index \in Nat
          /\ db'[r].index <= Len(log) /\ Len(log) \in Nat
          /\ db'[r] = history[n].db
      <4>1. db[r] \in Tables /\ db'[r] \in Tables /\ Len(log) \in Nat
        BY DEF TypeOK
      <4>2. /\ db'[r].index <= Len(log') /\ db'[r] = history'[n].db
        BY <2>8 DEF IInv, DatabaseInv, MeaningAt
      <4> QED
        BY <2>1, <4>1, <4>2 DEF Tables
    <3>2. Len(pub) = Len(log) + 1 /\ Len(history) = Len(log) + 1
      BY PublishedFacts DEF TypeOK
    <3>3. n \in 1..Len(history) /\ n \in 1..Len(pub) /\ n > at[r]
          /\ at[r] \in Nat
      BY <2>5, <2>8, <3>1, <3>2
    <3>4. n \in at[r] + 1 .. Len(pub)
      BY <3>1, <3>2, <3>3
    <3>5. at' = [at EXCEPT ![r] = n]
      BY <2>4, <2>8
    <3>6. vw' = [vw EXCEPT ![r] = pub[n]]
      BY <2>4, <2>8, <3>1, <3>3
    <3> HIDE DEF n
    <3>7. Promise!Advance(r)
      BY <2>2, <3>4, <3>5, <3>6 DEF Promise!Advance
    <3> QED
      BY <3>7 DEF Promise!Next
  <2> QED
    BY <1>3, <2>6, <2>7, <2>8, DatabaseStep
<1> QED
  BY <1>1, <1>2, <1>3 DEF Next

\* What a node serves is a state the committed log went through, and never an
\* earlier one than before, until it restores a snapshot of an unsettled FSM:
\* the replicated FSM implements DefinitionsLog.
THEOREM RefinementTheorem == Spec => ImplementsPromise
<1>1. Init => Promise!Init
  BY PromiseInit
<1>2. TypeOK /\ IInv /\ TypeOK' /\ IInv' /\ [Next]_vars
        => [Promise!Next]_(Promise!vars)
  BY PromiseStep
<1> QED
  BY <1>1, <1>2, TypeCorrect, Alignment, PTL
     DEF Spec, ImplementsPromise, Promise!Spec

----------------------------------------------------------------------------
(* The reach query of applyDependencyAdd *)

\* S holds the successors of p and is closed under deps.
Closed(deps, p, S) ==
    /\ S \subseteq Post
    /\ \A s \in Post : <<p, s>> \in deps => s \in S
    /\ \A s \in S, t \in Post : <<s, t>> \in deps => t \in S

LEMMA ReachLeast ==
    ASSUME NEW deps, NEW p, NEW S, Closed(deps, p, S)
    PROVE  Reach(deps, p) \subseteq S
  BY DEF Reach, Closed

LEMMA ReachClosed ==
    ASSUME NEW deps, NEW p
    PROVE  Closed(deps, p, Reach(deps, p))
  BY DEF Reach, Closed

LEMMA ReachTransitive ==
    ASSUME NEW deps, NEW p, NEW q \in Reach(deps, p)
    PROVE  Reach(deps, q) \subseteq Reach(deps, p)
<1>1. Closed(deps, q, Reach(deps, p))
  BY ReachClosed DEF Closed
<1> QED
  BY <1>1, ReachLeast

\* Removing edges never makes a cycle.
LEMMA FewerEdges ==
    ASSUME NEW deps, NEW less, less \subseteq deps, Acyclic(deps)
    PROVE  Acyclic(less)
<1> SUFFICES ASSUME NEW p \in Post PROVE p \notin Reach(less, p)
  BY DEF Acyclic
<1>1. Closed(less, p, Reach(deps, p))
  BY ReachClosed DEF Closed
<1> QED
  BY <1>1, ReachLeast DEF Acyclic

\* An edge a -> b whose source is not reachable from its target closes no
\* cycle: the check in applyDependencyAdd is enough.
LEMMA NewEdge ==
    ASSUME NEW deps, NEW a \in Post, NEW b \in Post, a # b,
           a \notin Reach(deps, b), Acyclic(deps)
    PROVE  Acyclic(deps \cup {<<a, b>>})
<1> DEFINE new == deps \cup {<<a, b>>}
           R(x) == Reach(deps, x)
<1> SUFFICES ASSUME NEW p \in Post PROVE p \notin Reach(new, p)
  BY DEF Acyclic
<1>1. /\ Closed(deps, p, R(p)) /\ Closed(deps, b, R(b))
  BY ReachClosed
<1>2. p \notin R(p)
  BY DEF Acyclic
<1> HIDE DEF R
<1>3. CASE a = p \/ a \in R(p)
  <2> DEFINE S == R(p) \cup {b} \cup R(b)
  <2>1. S \subseteq Post
    BY <1>1 DEF Closed
  <2>2. \A t \in Post : <<p, t>> \in new => t \in S
    BY <1>1 DEF Closed
  <2>3. \A s \in S, t \in Post : <<s, t>> \in new => t \in S
    BY <1>1 DEF Closed
  <2>4. Reach(new, p) \subseteq S
    <3>1. Closed(new, p, S)
      BY <2>1, <2>2, <2>3 DEF Closed
    <3> HIDE DEF S, new
    <3> QED
      BY <3>1, ReachLeast
  <2>5. p \notin R(b)
    <3>1. CASE a = p
      BY <3>1 DEF R
    <3>2. CASE a \in R(p)
      BY <3>2, ReachTransitive DEF R
    <3> QED
      BY <1>3, <3>1, <3>2
  <2>6. p # b
    BY <1>3 DEF R
  <2> QED
    BY <1>2, <2>4, <2>5, <2>6
<1>4. CASE a # p /\ a \notin R(p)
  <2>1. Closed(new, p, R(p))
    BY <1>1, <1>4 DEF Closed
  <2> HIDE DEF new
  <2>2. Reach(new, p) \subseteq R(p)
    BY <2>1, ReachLeast
  <2> QED
    BY <1>2, <2>2
<1> QED
  BY <1>3, <1>4
----------------------------------------------------------------------------
(* Well-formed tables *)

Integral(d) ==
    /\ Acyclic(d.deps)
    /\ \A e \in d.deps : Present(d, e[1]) /\ Present(d, e[2])
    /\ \A u \in Rule : d.rules[u] # NoRow => Present(d, d.rules[u].post)

LEMMA EmptyIntegral == Integral(EmptyTables)
<1>1. Acyclic({})
  <2>1. \A p \in Post : Closed({}, p, {})
    BY DEF Closed
  <2> QED
    BY <2>1, ReachLeast DEF Acyclic
<1> QED
  BY <1>1 DEF Integral, EmptyTables

\* Each apply function keeps the tables well formed, and only post.delete
\* removes a post.
LEMMA EffectIntegral ==
    ASSUME NEW d \in Tables, Integral(d), NEW g \in Nat,
           NEW op \in Ops, CanRealize(d, g, op)
    PROVE  /\ Integral(Effect(d, op))
           /\ \A p \in Post : Present(d, p)
                  => \/ Present(Effect(d, op), p)
                     \/ op.kind = "post.delete" /\ p = op.obj
<1> DEFINE f == Effect(d, op)
<1>1. op \in Operation
  BY OpsAssumption
<1>3. CASE op \in PostOp
  <2>1. op.obj \in Post /\ op.arg \in Body /\ op.rev \in Nat
        /\ op.kind \in {"post.create", "post.update"}
    BY <1>3 DEF PostOp
  <2>2. PICK v \in Nat : f = [d EXCEPT !.posts[op.obj] =
                                 [version |-> v, body |-> op.arg]]
    <3>1. CASE op.kind = "post.create"
      BY <3>1 DEF Effect, applyPostCreate
    <3>2. CASE op.kind = "post.update"
      <4>1. f = applyPostUpdate(d, op) /\ op.rev + 1 \in Nat
        BY <2>1, <3>2 DEF Effect
      <4> QED
        BY <4>1 DEF applyPostUpdate
    <3> QED
      BY <2>1, <3>1, <3>2
  <2>3. [version |-> v, body |-> op.arg] # NoRow
    BY <2>1, NoRowAssumption DEF PostRow
  <2>4. f.deps = d.deps /\ f.rules = d.rules
    BY <2>2 DEF Tables
  <2>5. \A p \in Post : Present(d, p) => Present(f, p)
    BY <2>1, <2>2, <2>3 DEF Present, Tables
  <2>6. Integral(f)
    <3>1. \A e \in d.deps : e[1] \in Post /\ e[2] \in Post
      BY DEF Tables
    <3>2. \A u \in Rule : d.rules[u] # NoRow => d.rules[u].post \in Post
      BY DEF Tables, RuleRow
    <3> HIDE DEF f
    <3> QED
      BY <2>4, <2>5, <3>1, <3>2 DEF Integral
  <2> QED
    BY <2>5, <2>6
<1>4. CASE op \in DeleteOp
  <2>1. op.obj \in Post /\ op.kind = "post.delete"
    BY <1>4 DEF DeleteOp
  <2>2. f = applyPostDelete(d, op)
    BY <2>1 DEF Effect
  <2>3. /\ f.posts = [d.posts EXCEPT ![op.obj] = NoRow]
        /\ f.deps = {e \in d.deps : e[1] # op.obj /\ e[2] # op.obj}
        /\ f.rules = [u \in Rule |-> IF /\ d.rules[u] # NoRow
                                        /\ d.rules[u].post = op.obj
                                     THEN NoRow ELSE d.rules[u]]
    BY <2>2 DEF applyPostDelete, Tables
  <2> HIDE DEF f
  <2>4. \A p \in Post : Present(d, p) => Present(f, p) \/ p = op.obj
    BY <2>1, <2>3 DEF Present, Tables
  <2>5. Acyclic(f.deps)
    BY <2>3, FewerEdges DEF Integral
  <2>6. \A e \in f.deps : Present(f, e[1]) /\ Present(f, e[2])
    <3>1. \A e \in f.deps : /\ e \in d.deps /\ e[1] # op.obj /\ e[2] # op.obj
                            /\ e[1] \in Post /\ e[2] \in Post
      BY <2>3 DEF Tables
    <3> QED
      BY <2>4, <3>1 DEF Integral
  <2>7. \A u \in Rule : f.rules[u] # NoRow => Present(f, f.rules[u].post)
    <3>1. \A u \in Rule : f.rules[u] # NoRow =>
              /\ f.rules[u] = d.rules[u] /\ d.rules[u].post # op.obj
      BY <2>3
    <3>2. \A u \in Rule : d.rules[u] # NoRow => d.rules[u].post \in Post
      BY DEF Tables, RuleRow
    <3> QED
      BY <2>4, <3>1, <3>2 DEF Integral
  <2>8. Integral(f)
    BY <2>5, <2>6, <2>7 DEF Integral
  <2> QED
    BY <2>1, <2>4, <2>8 DEF f
<1>5. CASE op \in DepOp
  <2>1. op.obj \in Post /\ op.arg \in Post /\ op.kind = "post_dependency.add"
    BY <1>5 DEF DepOp
  <2>2. CanDependencyAdd(d, g, op)
    BY <2>1 DEF CanRealize
  <2>3. /\ f.deps = d.deps \cup {<<op.obj, op.arg>>}
        /\ f.posts = d.posts /\ f.rules = d.rules
    BY <2>1 DEF Effect, applyDependencyAdd, Tables
  <2> HIDE DEF f
  <2>4. Acyclic(f.deps)
    BY <2>1, <2>2, <2>3, NewEdge DEF CanDependencyAdd, Integral
  <2>5. \A e \in f.deps : Present(f, e[1]) /\ Present(f, e[2])
    BY <2>2, <2>3 DEF CanDependencyAdd, Integral, Present
  <2>6. Integral(f) /\ \A p \in Post : Present(d, p) => Present(f, p)
    BY <2>3, <2>4, <2>5 DEF Integral, Present
  <2> QED
    BY <2>6 DEF f
<1>6. CASE op \in RuleOp
  <2>1. op.obj \in Rule /\ op.arg.post \in Post /\ op.kind = "rule.create"
    BY <1>6 DEF RuleOp
  <2>2. Present(d, op.arg.post)
    BY <2>1 DEF CanRealize, CanRuleCreate
  <2>3. /\ f.deps = d.deps /\ f.posts = d.posts
        /\ f.rules[op.obj].post = op.arg.post
        /\ \A u \in Rule : u # op.obj => f.rules[u] = d.rules[u]
    BY <2>1 DEF Effect, applyRuleCreate, Tables
  <2> HIDE DEF f
  <2>4. Integral(f) /\ \A p \in Post : Present(d, p) => Present(f, p)
    BY <2>2, <2>3 DEF Integral, Present
  <2> QED
    BY <2>4 DEF f
<1>7. CASE op \in EnableOp
  <2>1. op.obj \in Rule /\ op.kind = "rule.set_enabled"
    BY <1>7 DEF EnableOp
  <2>2. d.rules[op.obj] # NoRow
    BY <2>1 DEF CanRealize, CanRuleSetEnabled
  <2>3. /\ f.deps = d.deps /\ f.posts = d.posts
        /\ f.rules[op.obj].post = d.rules[op.obj].post
        /\ \A u \in Rule : u # op.obj => f.rules[u] = d.rules[u]
    BY <2>1 DEF Effect, applyRuleSetEnabled, Tables
  <2> HIDE DEF f
  <2>4. Integral(f) /\ \A p \in Post : Present(d, p) => Present(f, p)
    BY <2>1, <2>2, <2>3 DEF Integral, Present
  <2> QED
    BY <2>4 DEF f
<1> QED
  BY <1>1, <1>3, <1>4, <1>5, <1>6, <1>7 DEF Operation

LEMMA RealizeIntegral ==
    ASSUME NEW d \in Tables, Integral(d), NEW g \in Nat,
           NEW op \in Ops, CanRealize(d, g, op), NEW i \in Nat
    PROVE  /\ Integral(Realize(d, g, op, i))
           /\ \A p \in Post : Present(d, p)
                  => \/ Present(Realize(d, g, op, i), p)
                     \/ op.kind = "post.delete" /\ p = op.obj
<1>1. Effect(d, op) \in Tables
  BY EffectType, OpsAssumption
<1>2. /\ Realize(d, g, op, i).posts = Effect(d, op).posts
      /\ Realize(d, g, op, i).deps  = Effect(d, op).deps
      /\ Realize(d, g, op, i).rules = Effect(d, op).rules
  BY <1>1 DEF Realize, Tables
<1> QED
  BY <1>2, EffectIntegral DEF Integral, Present
----------------------------------------------------------------------------
(* The invariant of the specification *)

\* Tables and stored snapshots are well formed, and node-local rows belong
\* to posts that exist.
IntegrityInv ==
    \A r \in Replica :
        /\ Integral(db[r]) /\ Integral(snap[r].db)
        /\ \A p \in local[r] : Present(db[r], p)

LEMMA IntegrityInit == Init => IntegrityInv
<1> SUFFICES ASSUME Init, NEW r \in Replica
             PROVE  /\ Integral(db[r]) /\ Integral(snap[r].db)
                    /\ \A p \in local[r] : Present(db[r], p)
  BY DEF IntegrityInv
<1>1. db[r] = EmptyTables /\ snap[r] = NoSnapshot /\ local[r] = {}
  BY DEF Init
<1>2. snap[r].db = EmptyTables
  BY <1>1 DEF NoSnapshot
<1> QED
  BY <1>1, <1>2, EmptyIntegral

LEMMA IntegrityNext == TypeOK /\ IntegrityInv /\ [Next]_vars => IntegrityInv'
<1> SUFFICES ASSUME TypeOK, IntegrityInv, [Next]_vars,
                    NEW q \in Replica
             PROVE  (/\ Integral(db[q]) /\ Integral(snap[q].db)
                     /\ \A p \in local[q] : Present(db[q], p))'
  BY DEF IntegrityInv
<1>0. /\ Integral(db[q]) /\ Integral(snap[q].db)
      /\ \A p \in local[q] : Present(db[q], p)
  BY DEF IntegrityInv
<1>1. ASSUME db'[q] = db[q], snap'[q] = snap[q], local'[q] = local[q]
      PROVE  (/\ Integral(db[q]) /\ Integral(snap[q].db)
              /\ \A p \in local[q] : Present(db[q], p))'
  BY <1>0, <1>1 DEF Integral, Present
<1>2. CASE UNCHANGED vars \/ \E op \in Ops : Commit(op)
  BY <1>1, <1>2 DEF vars, Commit
<1>3. ASSUME NEW r \in Replica, ReplicaStep(r)
      PROVE  (/\ Integral(db[q]) /\ Integral(snap[q].db)
              /\ \A p \in local[q] : Present(db[q], p))'
  <2>1. CASE ApplyFenced(r) \/ ApplyDuplicate(r) \/ ApplyReplayed(r)
             \/ ApplyInvariantError(r) \/ ApplyLocalFailure(r)
    BY <1>1, <2>1 DEF ApplyFenced, ApplyDuplicate, ApplyReplayed,
                      ApplyInvariantError, ApplyLocalFailure, Deliver
  <2>2. CASE ApplyRealized(r)
    <3> DEFINE d == Realize(db[r], graphRev[r], NextOp(r), NextIndex(r))
    <3>1. /\ db' = [db EXCEPT ![r] = d] /\ snap' = snap /\ Deliver(r)
          /\ local' = [local EXCEPT ![r] = cleanupNodeLocal(r)]
          /\ CanRealize(db[r], graphRev[r], NextOp(r))
      BY <2>2 DEF ApplyRealized, Deliver
    <3>2. /\ db[r] \in Tables /\ graphRev[r] \in Nat /\ Integral(db[r])
          /\ NextOp(r) \in Ops /\ NextIndex(r) \in Nat
      BY <3>1, DeliverType DEF TypeOK, IntegrityInv
    <3>3. /\ Integral(d)
          /\ \A p \in Post : Present(db[r], p)
                => \/ Present(d, p)
                   \/ NextOp(r).kind = "post.delete" /\ p = NextOp(r).obj
      BY <3>1, <3>2, RealizeIntegral
    <3> HIDE DEF d
    <3>4. CASE q # r
      BY <1>1, <3>1, <3>4 DEF TypeOK
    <3>5. CASE q = r
      <4>1. db'[q] = d /\ local'[q] = cleanupNodeLocal(r) /\ snap'[q] = snap[q]
        BY <3>1, <3>5 DEF TypeOK
      <4>2. \A p \in cleanupNodeLocal(r) :
               /\ p \in local[r] /\ p \in Post
               /\ NextOp(r).kind = "post.delete" => p # NextOp(r).obj
        BY DEF cleanupNodeLocal, TypeOK
      <4>3. \A p \in cleanupNodeLocal(r) : Present(d, p)
        BY <1>0, <3>3, <3>5, <4>2
      <4> QED
        BY <1>0, <3>3, <4>1, <4>3 DEF Integral, Present
    <3> QED
      BY <3>4, <3>5
  <2>3. CASE TakeSnapshot(r)
    <3>1. /\ db' = db /\ local' = local
          /\ q # r => snap'[q] = snap[q]
          /\ q = r => snap'[q].db = [db[q] EXCEPT !.index = appliedIndex[q],
                                                  !.graph = graphRev[q]]
      BY <2>3 DEF TakeSnapshot, TypeOK
    <3>2. db[q] \in Tables
      BY DEF TypeOK
    <3>3. q = r => /\ snap'[q].db.deps = db[q].deps
                   /\ snap'[q].db.rules = db[q].rules
                   /\ snap'[q].db.posts = db[q].posts
      BY <3>1, <3>2 DEF Tables
    <3>4. CASE q # r
      BY <1>1, <3>1, <3>4
    <3>5. CASE q = r
      BY <1>0, <3>1, <3>3, <3>5 DEF Integral, Present
    <3> QED
      BY <3>4, <3>5
  <2>4. ASSUME NEW s \in Replica, ReceiveSnapshot(r, s)
        PROVE  (/\ Integral(db[q]) /\ Integral(snap[q].db)
                /\ \A p \in local[q] : Present(db[q], p))'
    <3>1. /\ db' = db /\ local' = local
          /\ snap'[q] = snap[q] \/ snap'[q] = snap[s]
      BY <2>4 DEF ReceiveSnapshot, TypeOK
    <3>2. Integral(snap[s].db)
      BY DEF IntegrityInv
    <3> QED
      BY <1>0, <3>1, <3>2 DEF Integral, Present
  <2>5. CASE RestoreSnapshot(r) \/ Restart(r)
    <3>1. snap' = snap /\ (RestoreReplace(r, snap[r]) \/ UNCHANGED <<db, local>>)
      BY <2>5 DEF RestoreSnapshot, Restart, RestoreSeed
    <3>2. CASE UNCHANGED <<db, local>>
      BY <1>1, <3>1, <3>2
    <3>3. CASE RestoreReplace(r, snap[r])
      <4>1. \/ db'[q] = db[q] /\ local'[q] = local[q]
            \/ db'[q] = snap[q].db /\ local'[q] = {}
        BY <3>3 DEF RestoreReplace, TypeOK
      <4> QED
        BY <1>0, <3>1, <4>1 DEF Integral, Present
    <3> QED
      BY <3>1, <3>2, <3>3
  <2>6. ASSUME NEW p \in Evidence, RecordEvidence(r, p)
        PROVE  (/\ Integral(db[q]) /\ Integral(snap[q].db)
                /\ \A x \in local[q] : Present(db[q], x))'
    <3>1. /\ db' = db /\ snap' = snap /\ Present(db[r], p)
          /\ local'[q] = IF q = r THEN local[q] \cup {p} ELSE local[q]
      BY <2>6 DEF RecordEvidence, TypeOK
    <3> QED
      BY <1>0, <3>1 DEF Integral, Present
  <2> QED
    BY <1>3, <2>1, <2>2, <2>3, <2>4, <2>5, <2>6 DEF ReplicaStep, Apply
<1> QED
  BY <1>2, <1>3 DEF Next

\* In every replica, whenever snapshots are taken, the dependency graph is
\* acyclic and edges, rules and node-local rows refer to existing posts
\* (applyDependencyAdd, applyPostDelete, cleanupNodeLocal, clearReplicated).
THEOREM IntegrityTheorem == Spec => []DefinitionsIntegrity
<1>1. IntegrityInv => DefinitionsIntegrity
  BY DEF IntegrityInv, DefinitionsIntegrity, Integral
<1> QED
  BY <1>1, IntegrityInit, IntegrityNext, TypeCorrect, PTL DEF Spec

============================================================================
