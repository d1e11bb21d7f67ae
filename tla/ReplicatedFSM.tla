---------------------------- MODULE ReplicatedFSM ----------------------------
(***************************************************************************)
(* The replicated-definition state machine of internal/replicated/fsm.go:  *)
(* posts, dependency edges and rules, materialised by every replica into   *)
(* its own SQLite database from one committed raft log.                    *)
(*                                                                         *)
(* Raft is external: `log' is the committed log, raftPos[r] the last index *)
(* raft handed to the FSM of replica r, snap[r] the snapshot raft keeps on *)
(* r's disk.  db[r] and local[r] are r's database (they survive a crash);  *)
(* the other per-replica variables are fields of the in-memory FSM.        *)
(*                                                                         *)
(* `history' is a history variable: history[n+1] is what the first n log   *)
(* entries mean when they are realised in order on an empty database.  No  *)
(* action reads it; the properties compare the replicas with it.           *)
(***************************************************************************)
EXTENDS Definitions

CONSTANTS Replica,         \* the nodes of the cluster
          MaxLog,          \* bound: entries in the committed log
          Evidence,        \* the posts for which nodes record local evidence
          Faulty           \* the replicas whose storage or build may fail

ASSUME BoundAssumption == MaxLog \in Nat
ASSUME EvidenceAssumption == Evidence \subseteq Post

\* A snapshot, and for the properties whether it was taken of a settled FSM.
Snapshot == [label : Nat, db : Tables, ops : OpTable, sound : BOOLEAN]

NoSnapshot == [label |-> 0, db |-> EmptyTables, ops |-> NoOps, sound |-> TRUE]

----------------------------------------------------------------------------
VARIABLES log,           \* committed operations
          history,       \* history variable: the meaning of each log prefix
          raftPos,       \* raft: last index delivered to the FSM
          snap,          \* raft: latest snapshot on disk
          db,            \* SQLite: replicated tables and metadata
          local,         \* SQLite: posts that have node-local rows
          graphRev,      \* FSM.graphRev
          applied,       \* FSM.applied
          appliedIndex,  \* FSM.appliedIndex
          persisted,     \* FSM.persistedIndex
          failed,        \* FSM.applyFailure is set
          fault,         \* history variable: failed for a local reason
          sound          \* history variable: r owes nothing to a snapshot
                         \* that was taken of an unsettled FSM

fsmVars  == <<graphRev, applied, appliedIndex, persisted, failed, fault>>
vars == <<log, history, raftPos, snap, db, local, fsmVars, sound>>

TypeOK ==
    /\ log \in Seq(Ops)
    /\ history \in Seq(Meaning) /\ Len(history) = Len(log) + 1
    /\ raftPos \in [Replica -> Nat]
    /\ snap \in [Replica -> Snapshot]
    /\ db \in [Replica -> Tables]
    /\ local \in [Replica -> SUBSET Post]
    /\ graphRev \in [Replica -> Nat]
    /\ applied \in [Replica -> OpTable]
    /\ appliedIndex \in [Replica -> Nat]
    /\ persisted \in [Replica -> Nat]
    /\ failed \in [Replica -> BOOLEAN]
    /\ fault \in [Replica -> BOOLEAN]
    /\ sound \in [Replica -> BOOLEAN]

Init ==
    /\ log = <<>>
    /\ history = <<[db |-> EmptyTables, ops |-> NoOps, failed |-> FALSE]>>
    /\ raftPos = [r \in Replica |-> 0]
    /\ snap = [r \in Replica |-> NoSnapshot]
    /\ db = [r \in Replica |-> EmptyTables]
    /\ local = [r \in Replica |-> {}]
    /\ graphRev = [r \in Replica |-> 0]
    /\ applied = [r \in Replica |-> NoOps]
    /\ appliedIndex = [r \in Replica |-> 0]
    /\ persisted = [r \in Replica |-> 0]
    /\ failed = [r \in Replica |-> FALSE]
    /\ fault = [r \in Replica |-> FALSE]
    /\ sound = [r \in Replica |-> TRUE]

----------------------------------------------------------------------------
(* Raft commits an operation. The same operation ID may be committed more  *)
(* than once: a proposer that timed out proposes again.                    *)
Commit(op) ==
    /\ Len(log) < MaxLog
    /\ log' = Append(log, op)
    /\ history' = Append(history,
                         Extend(history[Len(history)], op, Len(log) + 1))
    /\ UNCHANGED <<raftPos, snap, db, local, fsmVars, sound>>

----------------------------------------------------------------------------
(* FSM.Apply of the next committed entry at replica r.                     *)

NextIndex(r) == raftPos[r] + 1
NextOp(r)    == log[NextIndex(r)]
Known(r)     == applied[r][NextOp(r).id] # NoOp

\* A snapshot that raft received but the FSM has not restored yet.
RestorePending(r) == snap[r].label > raftPos[r]

\* Raft hands over one entry: at the fence, and whatever the FSM answers.
Deliver(r) ==
    /\ raftPos[r] < Len(log)
    /\ ~RestorePending(r)
    /\ raftPos' = [raftPos EXCEPT ![r] = NextIndex(r)]
    /\ UNCHANGED <<log, history, snap, sound>>

\* An earlier entry failed: nothing is materialised on top of the gap.
ApplyFenced(r) ==
    /\ Deliver(r)
    /\ failed[r]
    /\ UNCHANGED <<db, local, fsmVars>>

\* The operation ID is known: its result is returned, or the entry is
\* refused because its digest differs. Neither moves the applied position.
ApplyDuplicate(r) ==
    /\ Deliver(r)
    /\ ~failed[r] /\ Known(r)
    /\ UNCHANGED <<db, local, fsmVars>>

\* Replay after a restart of an entry the database already contains.
ApplyReplayed(r) ==
    /\ Deliver(r)
    /\ ~failed[r] /\ ~Known(r)
    /\ NextIndex(r) <= persisted[r]
    /\ applied' = [applied EXCEPT ![r][NextOp(r).id] = NextOp(r)]
    /\ appliedIndex' = [appliedIndex EXCEPT ![r] = NextIndex(r)]
    /\ UNCHANGED <<db, local, graphRev, persisted, failed, fault>>

\* cleanupNodeLocal: deleting a post deletes its node-local rows.
cleanupNodeLocal(r) ==
    IF NextOp(r).kind = "post.delete" THEN local[r] \ {NextOp(r).obj}
                                      ELSE local[r]

ApplyRealized(r) ==
    /\ Deliver(r)
    /\ ~failed[r] /\ ~Known(r)
    /\ NextIndex(r) > persisted[r]
    /\ CanRealize(db[r], graphRev[r], NextOp(r))
    /\ db' = [db EXCEPT ![r] =
                 Realize(db[r], graphRev[r], NextOp(r), NextIndex(r))]
    /\ graphRev' = [graphRev EXCEPT ![r] = NewGraphRev(@, NextOp(r))]
    /\ local' = [local EXCEPT ![r] = cleanupNodeLocal(r)]
    /\ applied' = [applied EXCEPT ![r][NextOp(r).id] = NextOp(r)]
    /\ appliedIndex' = [appliedIndex EXCEPT ![r] = NextIndex(r)]
    /\ UNCHANGED <<persisted, failed, fault>>

\* An apply function refuses the operation: the transaction is rolled back
\* and the failure is sticky.
ApplyInvariantError(r) ==
    /\ Deliver(r)
    /\ ~failed[r] /\ ~Known(r)
    /\ NextIndex(r) > persisted[r]
    /\ ~CanRealize(db[r], graphRev[r], NextOp(r))
    /\ failed' = [failed EXCEPT ![r] = TRUE]
    /\ UNCHANGED <<db, local, graphRev, applied, appliedIndex, persisted,
                   fault>>

\* The entry cannot be decoded, its version or kind is not supported by this
\* build, or the storage transaction fails: also sticky.
ApplyLocalFailure(r) ==
    /\ r \in Faulty
    /\ Deliver(r)
    /\ ~failed[r]
    /\ failed' = [failed EXCEPT ![r] = TRUE]
    /\ fault' = [fault EXCEPT ![r] = TRUE]
    /\ UNCHANGED <<db, local, graphRev, applied, appliedIndex, persisted>>

----------------------------------------------------------------------------
(* Snapshots and restarts.                                                 *)

\* The FSM is healthy, has been given every entry its database contains, and
\* its applied position is the one the database is at.
Settled(r) ==
    /\ ~failed[r]
    /\ raftPos[r] >= db[r].index
    /\ appliedIndex[r] = db[r].index

\* FSM.Snapshot checks nothing: a fenced FSM, or one that is still replaying,
\* is captured like any other. Raft labels the snapshot with its own position,
\* whatever the FSM made of the entries up to there.
TakeSnapshot(r) ==
    /\ raftPos[r] > snap[r].label
    /\ snap' = [snap EXCEPT ![r] =
                  [label |-> raftPos[r],
                   db    |-> [db[r] EXCEPT !.index = appliedIndex[r],
                                           !.graph = graphRev[r]],
                   ops   |-> applied[r],
                   sound |-> sound[r] /\ Settled(r)]]
    /\ UNCHANGED <<log, history, raftPos, db, local, fsmVars, sound>>

\* Raft on r stores a snapshot sent by q. It is sent only when it goes
\* beyond everything on r's disk.
ReceiveSnapshot(r, q) ==
    /\ snap[q].label > raftPos[r]
    /\ snap[q].label > snap[r].label
    /\ snap[q].label > db[r].index
    /\ snap' = [snap EXCEPT ![r] = snap[q]]
    /\ UNCHANGED <<log, history, raftPos, db, local, fsmVars, sound>>

\* Defects: every snapshot replaces the tables; an equal one does.
NeverBehind(s, p) == FALSE
StrictlyBehind(s, p) == s.db.index < p

\* FSM.Restore of snapshot s by an FSM at persistedIndex p with op-ID table
\* o. At or behind p it only adds op IDs; ahead of p it replaces the tables
\* and clears the node-local rows (clearReplicated).
Behind(s, p) == s.db.index <= p
MergedOps(o, s) == [i \in OpId |-> IF o[i] # NoOp THEN o[i] ELSE s.ops[i]]

\* Defect: the operations in the snapshot are not added.
SeedNothing(r, s, o) ==
    /\ applied' = [applied EXCEPT ![r] = o]
    /\ UNCHANGED <<db, local>>

RestoreSeed(r, s, o) ==
    /\ applied' = [applied EXCEPT ![r] = MergedOps(o, s)]
    /\ UNCHANGED <<db, local>>

\* Defect: the stored position is not taken from the snapshot.
ReplaceKeepsMeta(r, s) ==
    /\ db' = [db EXCEPT ![r] = [s.db EXCEPT !.index = db[r].index]]
    /\ local' = [local EXCEPT ![r] = {}]
    /\ graphRev' = [graphRev EXCEPT ![r] = s.db.graph]
    /\ appliedIndex' = [appliedIndex EXCEPT ![r] = s.db.index]
    /\ persisted' = [persisted EXCEPT ![r] = s.db.index]
    /\ applied' = [applied EXCEPT ![r] = s.ops]

RestoreReplace(r, s) ==
    /\ db' = [db EXCEPT ![r] = s.db]
    /\ local' = [local EXCEPT ![r] = {}]
    /\ graphRev' = [graphRev EXCEPT ![r] = s.db.graph]
    /\ appliedIndex' = [appliedIndex EXCEPT ![r] = s.db.index]
    /\ persisted' = [persisted EXCEPT ![r] = s.db.index]
    /\ applied' = [applied EXCEPT ![r] = s.ops]

\* Raft has the running FSM restore a snapshot it received.
RestoreSnapshot(r) ==
    /\ RestorePending(r)
    /\ \/ /\ Behind(snap[r], persisted[r])
          /\ RestoreSeed(r, snap[r], applied[r])
          /\ UNCHANGED <<graphRev, appliedIndex, persisted>>
       \/ /\ ~Behind(snap[r], persisted[r])
          /\ RestoreReplace(r, snap[r])
    /\ raftPos' = [raftPos EXCEPT ![r] = snap[r].label]
    /\ sound' = [sound EXCEPT ![r] = @ /\ snap[r].sound]
    /\ UNCHANGED <<log, history, snap, failed, fault>>

\* Defects: the persisted position is not loaded, is one too low or one too
\* high.
NewFSMAt(r, i) ==
    /\ graphRev' = [graphRev EXCEPT ![r] = db[r].graph]
    /\ appliedIndex' = [appliedIndex EXCEPT ![r] = db[r].index]
    /\ persisted' = [persisted EXCEPT ![r] = i]
NewFSMForgetful(r) == NewFSMAt(r, 0)
NewFSMTooHigh(r)   == NewFSMAt(r, db[r].index + 1)

\* NewFSM: everything but the position and the graph revision starts empty.
NewFSM(r) ==
    /\ graphRev' = [graphRev EXCEPT ![r] = db[r].graph]
    /\ appliedIndex' = [appliedIndex EXCEPT ![r] = db[r].index]
    /\ persisted' = [persisted EXCEPT ![r] = db[r].index]

\* Crash or stop, then NewFSM over the database and raft's restore of its
\* snapshot; the log after the snapshot is delivered again entry by entry.
Restart(r) ==
    /\ \/ /\ Behind(snap[r], db[r].index)
          /\ NewFSM(r)
          /\ RestoreSeed(r, snap[r], NoOps)
          /\ sound' = [sound EXCEPT ![r] = @ /\ snap[r].sound]
       \/ /\ ~Behind(snap[r], db[r].index)
          /\ RestoreReplace(r, snap[r])
          /\ sound' = [sound EXCEPT ![r] = snap[r].sound]
    /\ failed' = [failed EXCEPT ![r] = FALSE]
    /\ fault' = [fault EXCEPT ![r] = FALSE]
    /\ raftPos' = [raftPos EXCEPT ![r] = snap[r].label]
    /\ UNCHANGED <<log, history, snap>>

\* The node writes rows of its own (observations, alerts, ...) for a post.
RecordEvidence(r, p) ==
    /\ Present(db[r], p)
    /\ local' = [local EXCEPT ![r] = @ \cup {p}]
    /\ UNCHANGED <<log, history, raftPos, snap, db, fsmVars, sound>>

----------------------------------------------------------------------------
Apply(r) ==
    \/ ApplyFenced(r)
    \/ ApplyDuplicate(r)
    \/ ApplyReplayed(r)
    \/ ApplyRealized(r)
    \/ ApplyInvariantError(r)

ReplicaStep(r) ==
    \/ Apply(r)
    \/ ApplyLocalFailure(r)
    \/ TakeSnapshot(r)
    \/ \E q \in Replica : ReceiveSnapshot(r, q)
    \/ RestoreSnapshot(r)
    \/ Restart(r)
    \/ \E p \in Evidence : RecordEvidence(r, p)

Next ==
    \/ \E op \in Ops : Commit(op)
    \/ \E r \in Replica : ReplicaStep(r)

Spec == Init /\ [][Next]_vars

\* Raft delivers what is committed as long as the process runs.
FairSpec ==
    /\ Spec
    /\ \A r \in Replica : WF_vars(Apply(r)) /\ WF_vars(RestoreSnapshot(r))

----------------------------------------------------------------------------
(* Properties *)

Acyclic(deps) == \A p \in Post : p \notin Reach(deps, p)

\* What the committed log says a replica at log position n should hold.
MeaningAt(n) == history[n + 1]

\* The inductive invariant: how the meanings of the log's prefixes are
\* related to each other ...
HistoryInv ==
    /\ \A n \in 1..Len(log) : history[n + 1] = Extend(history[n], log[n], n)
    /\ \A n \in 1..Len(history) :
          /\ history[n].db.index < n
          /\ history[history[n].db.index + 1].db = history[n].db
          /\ history[n].failed => history[n].db.index + 1 < n
    /\ \A m, n \in 1..Len(history) : m <= n =>
          /\ history[m].db.index <= history[n].db.index
          /\ history[m].failed => history[n].failed
          /\ \A o \in OpId : history[m].ops[o] # NoOp
                               => history[n].ops[o] = history[m].ops[o]

\* ... how a replica's database and memory relate to them, ...
DatabaseInv(r) ==
    /\ db[r].index <= Len(log)
    /\ db[r] = MeaningAt(db[r].index).db
    /\ graphRev[r] = db[r].graph
    /\ persisted[r] <= db[r].index

MemoryInv(r) ==
    /\ raftPos[r] <= Len(log)
    /\ failed[r] => fault[r] \/ MeaningAt(raftPos[r]).failed
    /\ ~failed[r] =>
          /\ ~MeaningAt(raftPos[r]).failed
          /\ applied[r] = MeaningAt(raftPos[r]).ops
          /\ raftPos[r] < persisted[r] => db[r].index = persisted[r]
          /\ raftPos[r] >= persisted[r] => db[r] = MeaningAt(raftPos[r]).db

\* ... what a snapshot contains ...
SnapshotInv(r) ==
    /\ snap[r].db = MeaningAt(snap[r].label).db
    /\ snap[r].ops = MeaningAt(snap[r].label).ops
    /\ ~MeaningAt(snap[r].label).failed

\* ... and what raft knows of the replica, sound or not.
RaftInv(r) ==
    /\ raftPos[r] <= Len(log) /\ snap[r].label <= Len(log)
    /\ RestorePending(r) => snap[r].label > db[r].index

\* Replaying, fencing and restoring keep the database and the memory of every
\* sound replica, and every sound snapshot, aligned with the log; and only a
\* snapshot makes a replica unsound (applyLocked, Restore).
IInv ==
    /\ HistoryInv
    /\ \A r \in Replica :
          /\ RaftInv(r)
          /\ sound[r] => DatabaseInv(r) /\ MemoryInv(r)
          /\ snap[r].sound => SnapshotInv(r)

\* What a restart has to know besides, of every replica, sound or not: the
\* positions in memory are not ahead of the database, the database is ahead of
\* persistedIndex only by entries of this run, and a snapshot that raft has had
\* restored is not ahead of the database.
RestoredInv ==
    \A r \in Replica :
        /\ persisted[r] <= db[r].index /\ appliedIndex[r] <= db[r].index
        /\ db[r].index > persisted[r] => db[r].index <= raftPos[r]
        /\ ~RestorePending(r) => snap[r].db.index <= db[r].index

\* A replica's tables are exactly what the log prefix up to the position
\* recorded in its own metadata means - through crashes, replays, duplicate
\* entries, apply failures, snapshot restores and learner installs - unless
\* they descend from a snapshot of a fenced or replaying FSM, which nothing
\* forbids (Snapshot). So two replicas at the same position agree, and no
\* other step makes them differ (applyLocked, Restore, NewFSM).
MaterializationIsPrefix ==
    \A r \in Replica : sound[r] =>
        /\ db[r].index <= Len(log)
        /\ db[r] = MeaningAt(db[r].index).db

\* A replica turns unhealthy only for a local reason, at an entry that no
\* replica can realise, or after a snapshot of an unsettled FSM: replays,
\* retries and restores of other snapshots never make it reject a committed
\* operation that the others accepted (applyLocked).
NoSpuriousFailure ==
    \A r \in Replica : sound[r] /\ failed[r]
        => fault[r] \/ MeaningAt(raftPos[r]).failed

\* The op-ID table of a healthy replica is complete for the entries it has
\* been given, however it was rebuilt (log replay, snapshot seed, snapshot
\* replacement), so a retried operation is recognised after any restart,
\* except from a snapshot of an unsettled FSM.
IdempotencyComplete ==
    \A r \in Replica : sound[r] /\ ~failed[r]
        => applied[r] = MeaningAt(raftPos[r]).ops

\* Every replica's dependency graph is acyclic, and edges, rules and
\* node-local rows refer to posts that exist (applyDependencyAdd,
\* applyPostDelete, cleanupNodeLocal, clearReplicated).
DefinitionsIntegrity ==
    \A r \in Replica :
        /\ Acyclic(db[r].deps)
        /\ \A e \in db[r].deps : Present(db[r], e[1]) /\ Present(db[r], e[2])
        /\ \A u \in Rule :
              db[r].rules[u] # NoRow => Present(db[r], db[r].rules[u].post)
        /\ \A p \in local[r] : Present(db[r], p)

\* No step moves a database back to an earlier log position, although the
\* position is compared with the persistedIndex of the last start (Restore);
\* only a snapshot of an unsettled FSM can, which has an older position than
\* the one raft gave it.
PositionNeverRegresses ==
    [][\A r \in Replica : sound[r] /\ sound'[r]
          => db'[r].index >= db[r].index]_vars

\* A restart never erases node-local rows: they go only when raft moves the
\* replica forward over a delete or a newer snapshot (NewFSM, Restore).
RestartKeepsEvidence ==
    [][\A r \in Replica :
          ~(local[r] \subseteq local'[r]) => raftPos'[r] > raftPos[r]]_vars

\* A replica that is eventually left alone (no more crashes, no more local
\* failures) ends unhealthy, unsound or with the meaning of the whole log.
Converges ==
    \A r \in Replica :
        <>[][~Restart(r) /\ ~ApplyLocalFailure(r)]_vars
            => <>[](failed[r] \/ ~sound[r] \/ db[r] = MeaningAt(Len(log)).db)

\* What a node serves is always a state that the committed log went through,
\* and never an earlier one than before, until it restores a snapshot of an
\* unsettled FSM: the FSM with its replays, fences and restores implements
\* DefinitionsLog.
Promise == INSTANCE DefinitionsLog WITH
              Start <- EmptyTables, Nothing <- NoRow,
              published <- [n \in 1..Len(history) |-> history[n].db],
              pos <- [r \in Replica |-> IF sound[r] THEN db[r].index + 1 ELSE 0],
              view <- [r \in Replica |-> IF sound[r] THEN db[r] ELSE NoRow]
ImplementsPromise == Promise!Spec
============================================================================
