------------------------------ MODULE Admission ------------------------------
(***************************************************************************)
(* How a client's mutation gets into the replicated log: the mutation      *)
(* router of internal/replicated/controller.go and the admission checks of *)
(* internal/replicated/adapter.go, on a cluster whose leader may change.   *)
(*                                                                         *)
(* A replica is what ReplicatedFSM shows it to be: its tables are the      *)
(* meaning of the log prefix it has applied, pos[n] entries long.  While   *)
(* busy[n], FSM.Apply holds the FSM's mutex: the transaction of the next   *)
(* entry has committed, but the in-memory graph revision and operation     *)
(* table are still those of the previous entry.                            *)
(***************************************************************************)
EXTENDS Definitions

CONSTANTS Node,      \* the nodes of the cluster
          Request,   \* the mutation requests, retries included
          Intents,   \* what a request may ask for (operations with dom = 0)
          Seed,      \* the tables when the requests start
          NoRequest  \* "the graph lock is free"

GraphKinds == {"post.delete", "post_dependency.add"}

\* Kinds whose payload carries a timestamp of the proposal.
StampedKinds == {"post.create", "post.update", "rule.create"}

ASSUME IntentsAssumption == Intents \subseteq {op \in Ops : op.dom = 0}
ASSUME SeedAssumption == Seed \in Tables
ASSUME RequestAssumption == NoRequest \notin Request

VARIABLES leader,   \* raft: the current leader
          queue,    \* raft: proposed entries that are not committed yet
          log,      \* raft: committed entries, [op, by]
          history,  \* the meaning of each prefix of the log, over Seed
          pos,      \* pos[n]: entries that node n has applied
          busy,     \* busy[n]: an apply at n has committed its transaction
          graphMu,  \* graphMu[n]: the request holding Adapter.graphMu at n
          req       \* req[t]: the progress of request t

vars == <<leader, queue, log, history, pos, busy, graphMu, req>>

Steps == {"idle", "check", "lock", "endpoints", "duplicate", "cycle",
          "recheck", "propose", "wait", "visible", "done"}

\* An intent, labelled with the graph revision it was validated against.
Labelled == {op \in Operation : [op EXCEPT !.dom = 0] \in Intents}

Entry == [op : Labelled, by : Request]

\* node: the node the client called; exec: the node whose adapter runs;
\* seen: the position the edge was validated at; index: the entry awaited.
Progress == [pc : Steps, node : Node, exec : Node, op : Labelled, seen : Nat,
             index : Nat, result : {"none", "ok", "error", "unknown"}]

\* The meaning of a prefix of the log.
Outcome == [db : Tables, ops : [OpId -> Labelled \cup {NoOp}], failed : BOOLEAN]

TypeOK ==
    /\ leader \in Node
    /\ queue \in Seq(Entry) /\ log \in Seq(Entry)
    /\ history \in Seq(Outcome) /\ Len(history) = Len(log) + 1
    /\ pos \in [Node -> 0..Len(log)]
    /\ busy \in [Node -> BOOLEAN]
    /\ graphMu \in [Node -> Request \cup {NoRequest}]
    /\ req \in [Request -> Progress]

Init ==
    /\ leader \in Node
    /\ queue = <<>> /\ log = <<>>
    /\ history = <<[db |-> Seed, ops |-> NoOps, failed |-> FALSE]>>
    /\ pos = [n \in Node |-> 0]
    /\ busy = [n \in Node |-> FALSE]
    /\ graphMu = [n \in Node |-> NoRequest]
    /\ req \in [Request -> {[pc |-> "idle", node |-> leader, exec |-> leader,
                             op |-> i, seen |-> 0, index |-> 0,
                             result |-> "none"] : i \in Intents}]

----------------------------------------------------------------------------
(* What the adapter reads.                                                 *)

MeaningAt(n) == history[n + 1]

\* The in-memory FSM of node n, readable when no apply holds its mutex.
Memory(n) == MeaningAt(pos[n])

\* The database of node n, readable at any time.
DbPos(n)    == IF busy[n] THEN pos[n] + 1 ELSE pos[n]
Database(n) == MeaningAt(DbPos(n)).db

\* The retried intent is compared with the payload recorded under its ID, as
\* far as that payload has the fields of the intent's kind.
RecordedEnabled(prior) ==
    IF prior.kind = "rule.create" THEN prior.arg.enabled ELSE prior.arg

semanticallyEquivalent(op, prior) ==
    /\ prior.obj = op.obj
    /\ prior.rev = op.rev
    /\ CASE op.kind \in {"post.create", "post.update"} ->
              /\ prior.kind \in {"post.create", "post.update"}
              /\ prior.arg = op.arg
         [] op.kind = "rule.set_enabled" -> RecordedEnabled(prior) = op.arg
         [] op.kind \in {"rule.create", "post_dependency.add"} ->
              prior.kind = op.kind /\ prior.arg = op.arg
         [] op.kind = "post.delete" -> TRUE

\* Entries of different requests have the same digest only if nothing in them
\* differs, timestamps included.
SameDigest(op, prior) == op = prior /\ op.kind \notin StampedKinds

\* The log index recorded in the result of the operation with this ID.
ResultIndex(id) ==
    CHOOSE i \in 1..Len(log) : /\ history[i].ops[id] = NoOp
                               /\ history[i + 1].ops[id] # NoOp

\* What FSM.Apply answers for entry i.
ApplySucceeds(i) ==
    LET before == history[i]
        op == log[i].op
    IN  /\ ~before.failed
        /\ IF before.ops[op.id] = NoOp THEN ~history[i + 1].failed
                                       ELSE SameDigest(op, before.ops[op.id])

----------------------------------------------------------------------------
(* Progress of request t.                                                  *)

At(t, step) == req[t].pc = step

Goto(t, step) == req' = [req EXCEPT ![t].pc = step]

\* Defect: the call returns without unlocking.
ReturnLocked(t, result) ==
    /\ req' = [req EXCEPT ![t].pc = "done", ![t].result = result]
    /\ UNCHANGED graphMu

\* The call returns to the client; the deferred unlock runs.
Return(t, result) ==
    /\ req' = [req EXCEPT ![t].pc = "done", ![t].result = result]
    /\ graphMu' = [n \in Node |-> IF graphMu[n] = t THEN NoRequest
                                                    ELSE graphMu[n]]

\* Defect: a follower answers as soon as the leader has.
AnswerAtOnce(t, i) == Return(t, "ok")

\* The adapter has a result for entry i. A forwarding follower waits until
\* it has applied that entry itself.
Answer(t, i) ==
    IF req[t].node = req[t].exec THEN Return(t, "ok")
    ELSE /\ req' = [req EXCEPT ![t].pc = "visible", ![t].index = i]
         /\ graphMu' = [n \in Node |-> IF graphMu[n] = t THEN NoRequest
                                                         ELSE graphMu[n]]

raftVars == <<leader, queue, log, history, pos, busy>>

\* Controller.route: at the ready leader or, forwarded, at a follower.
\* External: a node is ready once it has caught up with the log.
Route(t, m) ==
    /\ At(t, "idle")
    /\ pos[leader] = Len(log)
    /\ req' = [req EXCEPT ![t].pc = "check", ![t].node = m,
                          ![t].exec = leader]
    /\ UNCHANGED <<raftVars, graphMu>>

\* proposeOp and graphPropose begin with the health of the replica and the
\* operations it has already applied.
Prior(t) == Memory(req[t].exec).ops[req[t].op.id]

RejectUnhealthy(t) ==
    /\ At(t, "check") /\ ~busy[req[t].exec]
    /\ Memory(req[t].exec).failed
    /\ Return(t, "error")
    /\ UNCHANGED raftVars

AnswerPrior(t) ==
    /\ At(t, "check") /\ ~busy[req[t].exec]
    /\ ~Memory(req[t].exec).failed /\ Prior(t) # NoOp
    /\ semanticallyEquivalent(req[t].op, Prior(t))
    /\ Answer(t, ResultIndex(req[t].op.id))
    /\ UNCHANGED raftVars

RejectReusedId(t) ==
    /\ At(t, "check") /\ ~busy[req[t].exec]
    /\ ~Memory(req[t].exec).failed /\ Prior(t) # NoOp
    /\ ~semanticallyEquivalent(req[t].op, Prior(t))
    /\ Return(t, "error")
    /\ UNCHANGED raftVars

Admit(t) ==
    /\ At(t, "check") /\ ~busy[req[t].exec]
    /\ ~Memory(req[t].exec).failed /\ Prior(t) = NoOp
    /\ Goto(t, IF req[t].op.kind \in GraphKinds THEN "lock" ELSE "propose")
    /\ UNCHANGED <<raftVars, graphMu>>

\* graphPropose: lock, and capture the graph revision.
LockGraph(t) ==
    LET n == req[t].exec IN
    /\ At(t, "lock") /\ ~busy[n]
    /\ graphMu[n] = NoRequest
    /\ graphMu' = [graphMu EXCEPT ![n] = t]
    /\ req' = [req EXCEPT ![t].op.dom = Memory(n).db.graph,
                          ![t].pc = IF req[t].op.kind = "post_dependency.add"
                                    THEN "endpoints" ELSE "recheck"]
    /\ UNCHANGED raftVars

\* validateDependencyAdd, query by query: do the endpoints exist, ...
EndpointsExist(t) ==
    LET d == Database(req[t].exec) IN
    /\ req[t].op.obj # req[t].op.arg
    /\ Present(d, req[t].op.obj) /\ Present(d, req[t].op.arg)

ValidateEndpoints(t) ==
    /\ At(t, "endpoints")
    /\ \/ EndpointsExist(t) /\ Goto(t, "duplicate") /\ UNCHANGED graphMu
       \/ ~EndpointsExist(t) /\ Return(t, "error")
    /\ UNCHANGED raftVars

\* ... is the edge new, ...
EdgeIsNew(t) ==
    <<req[t].op.obj, req[t].op.arg>> \notin Database(req[t].exec).deps

ValidateDuplicate(t) ==
    /\ At(t, "duplicate")
    /\ \/ EdgeIsNew(t) /\ Goto(t, "cycle") /\ UNCHANGED graphMu
       \/ ~EdgeIsNew(t) /\ Return(t, "error")
    /\ UNCHANGED raftVars

\* Defect: an edge between existing posts is taken to close no cycle.
AssumeNoCycle(t) == TRUE

\* ... and does it close no cycle?
ClosesNoCycle(t) ==
    req[t].op.obj \notin Reach(Database(req[t].exec).deps, req[t].op.arg)

ValidateCycle(t) ==
    /\ At(t, "cycle")
    /\ \/ /\ ClosesNoCycle(t)
          /\ req' = [req EXCEPT ![t].pc = "recheck",
                                ![t].seen = DbPos(req[t].exec)]
          /\ UNCHANGED graphMu
       \/ ~ClosesNoCycle(t) /\ Return(t, "error")
    /\ UNCHANGED raftVars

\* Defect: the captured revision is not compared again.
AssumeUnchanged(t) == TRUE

\* The graph revision must still be the captured one.
GraphUnchanged(t) == Memory(req[t].exec).db.graph = req[t].op.dom

Recheck(t) ==
    /\ At(t, "recheck") /\ ~busy[req[t].exec]
    /\ \/ GraphUnchanged(t) /\ Goto(t, "propose") /\ UNCHANGED graphMu
       \/ ~GraphUnchanged(t) /\ Return(t, "error")
    /\ UNCHANGED raftVars

\* Node.Propose: only raft's leader takes the entry.
Propose(t) ==
    /\ At(t, "propose")
    /\ \/ /\ req[t].exec = leader
          /\ queue' = Append(queue, [op |-> req[t].op, by |-> t])
          /\ Goto(t, "wait")
          /\ UNCHANGED <<leader, log, history, pos, busy, graphMu>>
       \/ req[t].exec # leader /\ Return(t, "error") /\ UNCHANGED raftVars

\* The entry has been applied where it was proposed.
Applied(t) ==
    /\ At(t, "wait")
    /\ \E i \in 1..pos[req[t].exec] :
          /\ log[i].by = t
          /\ \/ ApplySucceeds(i) /\ Answer(t, i)
             \/ ~ApplySucceeds(i) /\ Return(t, "error")
    /\ UNCHANGED raftVars

\* Node.WaitApplied at the forwarding follower.
WaitApplied(t) ==
    /\ At(t, "visible")
    /\ pos[req[t].node] >= req[t].index
    /\ Return(t, "ok")
    /\ UNCHANGED raftVars

\* The proposal timeout passes, the client goes away or leadership is lost:
\* the call returns although its entry may still be committed.
GiveUp(t) ==
    /\ At(t, "wait") \/ At(t, "visible")
    /\ Return(t, "unknown")
    /\ UNCHANGED raftVars

----------------------------------------------------------------------------
(* Raft (external) and FSM.Apply.                                          *)

Commit ==
    /\ queue # <<>>
    /\ queue' = Tail(queue)
    /\ log' = Append(log, Head(queue))
    /\ history' = Append(history, Extend(history[Len(history)],
                                         Head(queue).op, Len(log) + 1))
    /\ UNCHANGED <<leader, pos, busy, graphMu, req>>

\* A new leader keeps some of the entries that are not committed.
LeaderChange(n) ==
    /\ n # leader
    /\ leader' = n
    /\ \E k \in 0..Len(queue) : queue' = SubSeq(queue, 1, k)
    /\ UNCHANGED <<log, history, pos, busy, graphMu, req>>

\* The transaction of the next entry commits ...
ApplyTx(n) ==
    /\ ~busy[n] /\ pos[n] < Len(log)
    /\ busy' = [busy EXCEPT ![n] = TRUE]
    /\ UNCHANGED <<leader, queue, log, history, pos, graphMu, req>>

\* ... then the in-memory state follows and the mutex is released.
ApplyDone(n) ==
    /\ busy[n]
    /\ busy' = [busy EXCEPT ![n] = FALSE]
    /\ pos' = [pos EXCEPT ![n] = @ + 1]
    /\ UNCHANGED <<leader, queue, log, history, graphMu, req>>

----------------------------------------------------------------------------
Serve(t) ==
    \/ RejectUnhealthy(t) \/ AnswerPrior(t) \/ RejectReusedId(t) \/ Admit(t)
    \/ LockGraph(t) \/ ValidateEndpoints(t) \/ ValidateDuplicate(t)
    \/ ValidateCycle(t) \/ Recheck(t) \/ Propose(t) \/ Applied(t)
    \/ WaitApplied(t) \/ GiveUp(t)

Next ==
    \/ \E t \in Request : Serve(t) \/ \E m \in Node : Route(t, m)
    \/ \E n \in Node : ApplyTx(n) \/ ApplyDone(n) \/ LeaderChange(n)
    \/ Commit

Spec == Init /\ [][Next]_vars

\* Handler goroutines and the FSM goroutine run; a proposal times out.
FairSpec ==
    /\ Spec
    /\ \A t \in Request : WF_vars(Serve(t))
    /\ \A n \in Node : WF_vars(ApplyTx(n) \/ ApplyDone(n))

----------------------------------------------------------------------------
(* Properties *)

\* What was validated is what the operation is labelled with: an edge that is
\* about to be proposed, or was, passed its checks on the graph of the
\* revision it carries, although the checks read a database that FSM.Apply
\* moves at the same time ("never validated against one graph revision and
\* labelled with another", Adapter.graphMu).
ValidatedAtLabel ==
    \A t \in Request :
        (/\ req[t].op.kind = "post_dependency.add"
         /\ \/ req[t].pc \in {"propose", "wait"}
            \/ \E i \in 1..Len(queue) : queue[i].by = t
            \/ \E i \in 1..Len(log) : log[i].by = t)
        => MeaningAt(req[t].seen).db.graph = req[t].op.dom

\* A committed graph operation that was validated is refused only when its
\* revision is stale: the revision stands for everything the validation
\* looked at (graphPropose, applyDependencyAdd).
RefusedOnlyWhenStale ==
    \A i \in 1..Len(log) :
        (/\ log[i].op.kind = "post_dependency.add"
         /\ history[i + 1].failed /\ ~history[i].failed)
        => log[i].op.dom # history[i].db.graph

SameIntent(op, prior) ==
    /\ op.kind = prior.kind /\ op.obj = prior.obj
    /\ op.arg = prior.arg /\ op.rev = prior.rev

\* A client that is told its mutation succeeded can rely on it: the log has
\* realised that very intent, and the node that answered serves it already,
\* through forwarding, retries, duplicates and leader changes (proposeOp,
\* graphPropose, Controller.route).
SuccessIsRealized ==
    \A t \in Request :
        req[t].result = "ok" =>
            LET known == Memory(req[t].node).ops[req[t].op.id] IN
            known # NoOp /\ SameIntent(req[t].op, known)

\* Every request is answered, whoever holds the graph lock (graphPropose).
EveryRequestReturns ==
    \A t \in Request : At(t, "check") ~> At(t, "done")

----------------------------------------------------------------------------
(* The invariants from which these follow for every instance.              *)

\* The meanings of the prefixes of the log: each follows from the one before;
\* known operations stay known, the graph revision only grows, and while it is
\* the same no edge comes or goes and no post is removed.
Later(c, d) ==
    /\ c.db.graph <= d.db.graph
    /\ c.db.graph = d.db.graph =>
          /\ d.db.deps = c.db.deps
          /\ \A p \in Post : Present(c.db, p) => Present(d.db, p)
    /\ \A o \in OpId : c.ops[o] # NoOp => d.ops[o] = c.ops[o]

HistoryInv ==
    /\ history[1].ops = NoOps
    /\ \A i \in 1..Len(log) : history[i + 1] = Extend(history[i], log[i].op, i)
    /\ \A i, j \in 1..Len(history) : i <= j => Later(history[i], history[j])
    /\ \A i \in 1..Len(history), o \in OpId :
          history[i].ops[o] # NoOp => history[i].ops[o].id = o

\* An apply that has begun has an entry to apply.
BusyInv == \A n \in Node : busy[n] => pos[n] < Len(log)

\* What an edge passed, it still passes wherever its revision is current.
PassesEndpoints(op, d) ==
    op.obj # op.arg /\ Present(d, op.obj) /\ Present(d, op.arg)
PassesDuplicate(op, d) == <<op.obj, op.arg>> \notin d.deps
PassesCycle(op, d) == op.obj \notin Reach(d.deps, op.arg)

\* Request t on its way through graphPropose, at the graph of position j.
CheckedAt(t, j) ==
    LET d == MeaningAt(j).db
        op == req[t].op
    IN  d.graph = op.dom =>
           /\ req[t].pc \in {"duplicate", "cycle", "recheck", "propose"} =>
                 PassesEndpoints(op, d)
           /\ req[t].pc \in {"cycle", "recheck", "propose"} => PassesDuplicate(op, d)
           /\ req[t].pc \in {"recheck", "propose"} => PassesCycle(op, d)

GraphOK(t) ==
    (/\ req[t].op.kind = "post_dependency.add"
     /\ req[t].pc \in {"endpoints", "duplicate", "cycle", "recheck", "propose"})
    => /\ req[t].op.dom <= MeaningAt(pos[req[t].exec]).db.graph
       /\ \A j \in DbPos(req[t].exec)..Len(log) : CheckedAt(t, j)
       /\ req[t].pc \in {"recheck", "propose"} =>
             /\ req[t].seen <= DbPos(req[t].exec)
             /\ req[t].op.dom <= MeaningAt(req[t].seen).db.graph
       /\ req[t].pc = "propose" => MeaningAt(req[t].seen).db.graph = req[t].op.dom

GraphInv == \A t \in Request : GraphOK(t)

\* The label of an edge that is proposed: the revision it was validated at.
LabelOK(t) ==
    req[t].op.kind = "post_dependency.add" =>
        /\ req[t].seen <= Len(log)
        /\ MeaningAt(req[t].seen).db.graph = req[t].op.dom

\* A proposed entry is the operation of its request, which is past proposing.
Faithful(e) ==
    /\ e.op = req[e.by].op /\ req[e.by].pc \in {"wait", "visible", "done"}
    /\ LabelOK(e.by)

\* An edge that awaits its commit will be realised if its revision is current.
Realizable(e) ==
    LET d == MeaningAt(Len(log)).db IN
    e.op.kind = "post_dependency.add" =>
        /\ e.op.dom <= d.graph
        /\ d.graph = e.op.dom => CanDependencyAdd(d, d.graph, e.op)

EntryInv ==
    /\ \A i \in 1..Len(queue) : Faithful(queue[i]) /\ Realizable(queue[i])
    /\ \A i \in 1..Len(log) : Faithful(log[i])
    /\ \A t \in Request : req[t].pc = "wait" => LabelOK(t)

\* The intent of request t is among the operations known at position j.
RealizedAt(t, j) ==
    LET known == MeaningAt(j).ops[req[t].op.id] IN
    known # NoOp /\ SameIntent(req[t].op, known)

\* A forwarding follower waits for an entry that realised the intent.
AnswerOK(t) ==
    /\ req[t].pc # "done" => req[t].result = "none"
    /\ req[t].pc = "visible" =>
          req[t].index <= Len(log) /\ RealizedAt(t, req[t].index)
    /\ req[t].result = "ok" => RealizedAt(t, pos[req[t].node])

AnswerInv == \A t \in Request : AnswerOK(t)

\* Clients do not use an ID for two intents of which the adapter takes one for
\* a retry of the other.
DistinctIntents ==
    \A i, j \in Intents :
        i.id = j.id /\ semanticallyEquivalent(i, j) => SameIntent(i, j)

==============================================================================
