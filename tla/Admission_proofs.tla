-------------------------- MODULE Admission_proofs --------------------------
(***************************************************************************)
(* Proofs about Admission for every cluster, every set of requests and of  *)
(* intents, and every log: what an edge is labelled with, when a committed *)
(* edge is refused, and what a client may rely on that was told success.   *)
(***************************************************************************)
EXTENDS Admission, WellFoundedInduction, TLAPS

----------------------------------------------------------------------------
(* What the apply functions of Definitions leave *)

\* Each apply function leaves well-typed tables.
LEMMA EffectType ==
    ASSUME NEW d \in Tables, NEW g \in Nat, NEW op \in Operation,
           CanRealize(d, g, op)
    PROVE  Effect(d, op) \in Tables
<1>2. CASE op \in PostOp
  <2>1. op.obj \in Post /\ op.arg \in Body /\ op.rev \in Nat
        /\ op.kind \in {"post.create", "post.update"}
    BY <1>2 DEF PostOp
  <2>2. \A v \in Nat : [d EXCEPT !.posts[op.obj] =
                            [version |-> v, body |-> op.arg]] \in Tables
    BY <2>1 DEF Tables, PostRow
  <2>3. Effect(d, op) = applyPostCreate(d, op)
        \/ Effect(d, op) = applyPostUpdate(d, op)
    BY <2>1 DEF Effect
  <2> QED
    BY <2>1, <2>2, <2>3 DEF applyPostCreate, applyPostUpdate
<1>3. CASE op \in DeleteOp
  <2>1. op.obj \in Post /\ op.kind = "post.delete"
    BY <1>3 DEF DeleteOp
  <2>2. Effect(d, op) = applyPostDelete(d, op)
    BY <2>1 DEF Effect
  <2> DEFINE E == {e \in d.deps : e[1] # op.obj /\ e[2] # op.obj}
             U == [u \in Rule |-> IF /\ d.rules[u] # NoRow
                                     /\ d.rules[u].post = op.obj
                                  THEN NoRow ELSE d.rules[u]]
  <2>3. E \in SUBSET (Post \X Post)
    BY DEF Tables
  <2>4. U \in [Rule -> RuleRow \cup {NoRow}]
    BY DEF Tables
  <2>5. [d.posts EXCEPT ![op.obj] = NoRow] \in [Post -> PostRow \cup {NoRow}]
    BY <2>1 DEF Tables
  <2>6. applyPostDelete(d, op) =
          [d EXCEPT !.posts = [d.posts EXCEPT ![op.obj] = NoRow],
                    !.deps = E, !.rules = U]
    BY DEF applyPostDelete, Tables
  <2> HIDE DEF E, U
  <2> QED
    BY <2>2, <2>3, <2>4, <2>5, <2>6 DEF Tables
<1>4. CASE op \in DepOp
  <2>1. op.obj \in Post /\ op.arg \in Post /\ op.kind = "post_dependency.add"
    BY <1>4 DEF DepOp
  <2>2. Effect(d, op) = applyDependencyAdd(d, op)
    BY <2>1 DEF Effect
  <2> QED
    BY <2>1, <2>2 DEF applyDependencyAdd, Tables
<1>5. CASE op \in RuleOp
  <2>1. op.obj \in Rule /\ op.arg.post \in Post /\ op.arg.enabled \in BOOLEAN
        /\ op.kind = "rule.create"
    BY <1>5 DEF RuleOp
  <2>2. Effect(d, op) = applyRuleCreate(d, op)
    BY <2>1 DEF Effect
  <2> QED
    BY <2>1, <2>2 DEF applyRuleCreate, Tables, RuleRow
<1>6. CASE op \in EnableOp
  <2>1. op.obj \in Rule /\ op.arg \in BOOLEAN /\ op.rev \in Nat
        /\ op.kind = "rule.set_enabled"
    BY <1>6 DEF EnableOp
  <2>2. Effect(d, op) = applyRuleSetEnabled(d, op)
    BY <2>1 DEF Effect
  <2>3. d.rules[op.obj] \in RuleRow
    BY <2>1 DEF CanRealize, CanRuleSetEnabled, Tables
  <2> QED
    BY <2>1, <2>2, <2>3 DEF applyRuleSetEnabled, Tables, RuleRow
<1> QED
  BY <1>2, <1>3, <1>4, <1>5, <1>6 DEF Operation

LEMMA RealizeType ==
    ASSUME NEW d \in Tables, NEW g \in Nat, NEW op \in Operation, NEW i \in Nat,
           CanRealize(d, g, op)
    PROVE  Realize(d, g, op, i) \in Tables
<1>1. Effect(d, op) \in Tables
  BY EffectType
<1>2. NewGraphRev(g, op) \in Nat
  BY DEF NewGraphRev
<1> QED
  BY <1>1, <1>2 DEF Realize, Tables

LEMMA RealizeFields ==
    ASSUME NEW d \in Tables, NEW g \in Nat, NEW op \in Operation, NEW i \in Nat,
           CanRealize(d, g, op)
    PROVE  /\ Realize(d, g, op, i).index = i
           /\ Realize(d, g, op, i).graph = NewGraphRev(g, op)
<1>1. Effect(d, op) \in Tables
  BY EffectType
<1> QED
  BY <1>1 DEF Realize, Tables

LEMMA OpIdType == ASSUME NEW op \in Operation PROVE op.id \in OpId
  BY DEF Operation, PostOp, DeleteOp, DepOp, RuleOp, EnableOp

\* The graph revision stands for what the validation of an edge looks at: an
\* operation that leaves it alone leaves the edges alone and removes no post.
LEMMA RealizeGraph ==
    ASSUME NEW d \in Tables, NEW op \in Operation, NEW i \in Nat,
           CanRealize(d, d.graph, op),
           NEW e, e = Realize(d, d.graph, op, i)
    PROVE  /\ d.graph \in Nat /\ e.graph \in Nat /\ d.graph <= e.graph
           /\ e.graph = d.graph =>
                 /\ e.deps = d.deps
                 /\ \A p \in Post : Present(d, p) => Present(e, p)
<1>1. e \in Tables /\ e.graph = NewGraphRev(d.graph, op) /\ d.graph \in Nat
  <2>1. d.graph \in Nat
    BY DEF Tables
  <2> QED
    BY <2>1, RealizeType, RealizeFields
<1>2. CASE op \in PostOp
  <2>1. /\ op.obj \in Post /\ op.arg \in Body /\ op.rev \in Nat
        /\ op.kind \in {"post.create", "post.update"}
    BY <1>2 DEF PostOp
  <2>2. PICK v \in Nat :
           Effect(d, op) = [d EXCEPT !.posts[op.obj] =
                              [version |-> v, body |-> op.arg]]
    <3>1. CASE op.kind = "post.create"
      BY <3>1 DEF Effect, applyPostCreate
    <3>2. CASE op.kind = "post.update"
      <4>1. op.rev + 1 \in Nat
        BY <2>1
      <4>2. Effect(d, op) = [d EXCEPT !.posts[op.obj] =
                               [version |-> op.rev + 1, body |-> op.arg]]
        BY <3>2 DEF Effect, applyPostUpdate
      <4> QED
        BY <4>1, <4>2
    <3> QED
      BY <2>1, <3>1, <3>2
  <2>3. [version |-> v, body |-> op.arg] # NoRow
    BY <2>1, NoRowAssumption DEF PostRow
  <2>4. /\ e.deps = d.deps
        /\ e.posts = [d.posts EXCEPT ![op.obj] = [version |-> v, body |-> op.arg]]
    BY <2>2 DEF Realize, Tables
  <2>5. \A p \in Post : Present(d, p) => Present(e, p)
    BY <2>3, <2>4 DEF Present, Tables
  <2> QED
    BY <1>1, <2>1, <2>4, <2>5 DEF NewGraphRev
<1>3. CASE op \in DeleteOp \cup DepOp
  <2>1. op.kind \in {"post.delete", "post_dependency.add"}
    BY <1>3 DEF DeleteOp, DepOp
  <2> QED
    BY <1>1, <2>1 DEF NewGraphRev
<1>4. CASE op \in RuleOp \cup EnableOp
  <2>1. op.kind \in {"rule.create", "rule.set_enabled"}
    BY <1>4 DEF RuleOp, EnableOp
  <2>2. Effect(d, op).deps = d.deps /\ Effect(d, op).posts = d.posts
    BY <2>1 DEF Effect, applyRuleCreate, applyRuleSetEnabled, Tables
  <2>3. Effect(d, op) \in Tables
    BY <1>1, EffectType
  <2>4. e.deps = d.deps /\ e.posts = d.posts
    BY <2>2, <2>3 DEF Realize, Tables
  <2> QED
    BY <1>1, <2>1, <2>4 DEF NewGraphRev, Present
<1> QED
  BY <1>2, <1>3, <1>4 DEF Operation

----------------------------------------------------------------------------
(* Operations and meanings *)

\* A labelled intent is an operation, also with another label.
LEMMA LabelledOp ==
    ASSUME NEW op \in Labelled
    PROVE  /\ op \in Operation /\ op.id \in OpId /\ op # NoOp
           /\ op.kind = "post_dependency.add" => op.obj \in Post /\ op.arg \in Post
           /\ op.dom \in Nat
<1>1. op \in Operation
  BY DEF Labelled
<1>2. /\ op.kind = "post_dependency.add" => op.obj \in Post /\ op.arg \in Post
      /\ op.dom \in Nat
  BY <1>1 DEF Operation, PostOp, DeleteOp, DepOp, RuleOp, EnableOp
<1> QED
  BY <1>1, <1>2, OpIdType, NoOpAssumption

LEMMA Relabelled ==
    ASSUME NEW op \in Labelled, NEW g \in Nat,
           NEW new, new = [op EXCEPT !.dom = g]
    PROVE  /\ new \in Labelled /\ new.dom = g
           /\ new.kind = op.kind /\ new.id = op.id
<1>1. op \in Operation /\ [op EXCEPT !.dom = 0] \in Intents
  BY DEF Labelled
<1>2. /\ new \in Operation /\ new.dom = g /\ new.kind = op.kind /\ new.id = op.id
      /\ [new EXCEPT !.dom = 0] = [op EXCEPT !.dom = 0]
  BY <1>1 DEF Operation, PostOp, DeleteOp, DepOp, RuleOp, EnableOp
<1> QED
  BY <1>1, <1>2 DEF Labelled

LEMMA IntentsLabelled == Intents \subseteq Labelled
<1> SUFFICES ASSUME NEW op \in Intents PROVE op \in Labelled
  OBVIOUS
<1>1. op \in Operation /\ op.dom = 0
  BY IntentsAssumption, OpsAssumption
<1>2. [op EXCEPT !.dom = 0] = op
  BY <1>1 DEF Operation, PostOp, DeleteOp, DepOp, RuleOp, EnableOp
<1> QED
  BY <1>1, <1>2 DEF Labelled

\* What one more entry of the log adds: nothing is unsaid.
LEMMA ExtendLater ==
    ASSUME NEW c \in Outcome, NEW op \in Labelled, NEW i \in Nat,
           NEW e, e = Extend(c, op, i)
    PROVE  /\ e \in Outcome /\ Later(c, e)
           /\ \A o \in OpId : e.ops[o] # NoOp =>
                 e.ops[o] = c.ops[o] \/ (e.ops[o] = op /\ o = op.id)
<1>1. /\ c.db \in Tables /\ c.db.graph \in Nat /\ op \in Operation /\ op.id \in OpId
      /\ c.ops \in [OpId -> Labelled \cup {NoOp}]
  BY LabelledOp DEF Outcome, Tables
<1>2. Later(c, c)
  BY <1>1 DEF Later
<1>3. CASE c.failed \/ c.ops[op.id] # NoOp
  <2>1. e = c
    BY <1>3 DEF Extend
  <2> QED
    BY <1>2, <2>1
<1>4. CASE ~c.failed /\ c.ops[op.id] = NoOp /\ ~CanRealize(c.db, c.db.graph, op)
  <2>1. e = [c EXCEPT !.failed = TRUE]
    BY <1>4 DEF Extend
  <2>2. e \in Outcome /\ e.db = c.db /\ e.ops = c.ops
    BY <2>1 DEF Outcome
  <2>3. Later(c, e)
    BY <1>2, <2>2 DEF Later
  <2> QED
    BY <2>2, <2>3
<1>5. CASE ~c.failed /\ c.ops[op.id] = NoOp /\ CanRealize(c.db, c.db.graph, op)
  <2>1. e = [db |-> Realize(c.db, c.db.graph, op, i),
             ops |-> [c.ops EXCEPT ![op.id] = op], failed |-> FALSE]
    BY <1>5 DEF Extend
  <2>2. Realize(c.db, c.db.graph, op, i) \in Tables
    BY <1>1, <1>5, RealizeType
  <2>3. [c.ops EXCEPT ![op.id] = op] \in [OpId -> Labelled \cup {NoOp}]
    BY <1>1
  <2>4. e \in Outcome
    BY <2>1, <2>2, <2>3 DEF Outcome
  <2>5. /\ c.db.graph <= e.db.graph
        /\ e.db.graph = c.db.graph =>
              /\ e.db.deps = c.db.deps
              /\ \A p \in Post : Present(c.db, p) => Present(e.db, p)
    BY <1>1, <1>5, <2>1, RealizeGraph
  <2>6. \A o \in OpId : e.ops[o] = IF o = op.id THEN op ELSE c.ops[o]
    BY <1>1, <2>1
  <2>7. \A o \in OpId : c.ops[o] # NoOp => e.ops[o] = c.ops[o]
    BY <1>5, <2>6
  <2>8. Later(c, e)
    BY <2>5, <2>7 DEF Later
  <2>9. \A o \in OpId : e.ops[o] # NoOp =>
           e.ops[o] = c.ops[o] \/ (e.ops[o] = op /\ o = op.id)
    BY <2>6
  <2> QED
    BY <2>4, <2>8, <2>9
<1> QED
  BY <1>3, <1>4, <1>5

LEMMA LaterTransitive ==
    ASSUME NEW c \in Outcome, NEW d \in Outcome, NEW e \in Outcome,
           Later(c, d), Later(d, e)
    PROVE  Later(c, e)
<1>1. c.db.graph \in Nat /\ d.db.graph \in Nat /\ e.db.graph \in Nat
  BY DEF Outcome, Tables
<1>2. c.db.graph <= d.db.graph /\ d.db.graph <= e.db.graph
  BY DEF Later
<1>3. c.db.graph <= e.db.graph
      /\ (c.db.graph = e.db.graph => c.db.graph = d.db.graph /\ d.db.graph = e.db.graph)
  BY <1>1, <1>2
<1> QED
  BY <1>3 DEF Later

----------------------------------------------------------------------------
(* How requests move *)

\* Only request t moves, to a record of its type.
LEMMA Changed ==
    ASSUME TypeOK, NEW t \in Request, NEW r \in Progress,
           req' = [req EXCEPT ![t] = r]
    PROVE  /\ req' \in [Request -> Progress] /\ req'[t] = r
           /\ \A s \in Request \ {t} : req'[s] = req[s]
  BY DEF TypeOK

LEMMA GotoFacts ==
    ASSUME TypeOK, NEW t \in Request, NEW step \in Steps, Goto(t, step)
    PROVE  /\ req' \in [Request -> Progress]
           /\ req'[t].pc = step /\ req'[t].op = req[t].op
           /\ req'[t].node = req[t].node /\ req'[t].exec = req[t].exec
           /\ req'[t].seen = req[t].seen /\ req'[t].result = req[t].result
           /\ \A s \in Request \ {t} : req'[s] = req[s]
<1> DEFINE r == [req[t] EXCEPT !.pc = step]
<1>1. req[t] \in Progress /\ req' = [req EXCEPT ![t] = r]
  BY DEF TypeOK, Goto
<1>2. /\ r \in Progress /\ r.pc = step /\ r.op = req[t].op
      /\ r.node = req[t].node /\ r.exec = req[t].exec
      /\ r.seen = req[t].seen /\ r.result = req[t].result
  BY <1>1 DEF Progress
<1> HIDE DEF r
<1> QED
  BY <1>1, <1>2, Changed

LEMMA ReturnFacts ==
    ASSUME TypeOK, NEW t \in Request, NEW result \in {"ok", "error", "unknown"},
           Return(t, result)
    PROVE  /\ req' \in [Request -> Progress]
           /\ graphMu' \in [Node -> Request \cup {NoRequest}]
           /\ req'[t].pc = "done" /\ req'[t].op = req[t].op
           /\ req'[t].node = req[t].node /\ req'[t].exec = req[t].exec
           /\ req'[t].seen = req[t].seen /\ req'[t].result = result
           /\ \A s \in Request \ {t} : req'[s] = req[s]
<1> DEFINE r == [req[t] EXCEPT !.pc = "done", !.result = result]
<1>1. req[t] \in Progress /\ req' = [req EXCEPT ![t] = r]
  BY DEF TypeOK, Return
<1>2. /\ r \in Progress /\ r.pc = "done" /\ r.op = req[t].op
      /\ r.node = req[t].node /\ r.exec = req[t].exec
      /\ r.seen = req[t].seen /\ r.result = result
  BY <1>1 DEF Progress, Steps
<1> HIDE DEF r
<1>3. graphMu' \in [Node -> Request \cup {NoRequest}]
  BY DEF TypeOK, Return
<1> QED
  BY <1>1, <1>2, <1>3, Changed

\* The adapter has a result: the call returns, or waits for it to be visible.
LEMMA AnswerFacts ==
    ASSUME TypeOK, NEW t \in Request, NEW i \in Nat, Answer(t, i)
    PROVE  /\ req' \in [Request -> Progress]
           /\ graphMu' \in [Node -> Request \cup {NoRequest}]
           /\ req'[t].op = req[t].op
           /\ req'[t].node = req[t].node /\ req'[t].exec = req[t].exec
           /\ req'[t].seen = req[t].seen
           /\ \/ /\ req'[t].pc = "done" /\ req'[t].result = "ok"
                 /\ req[t].node = req[t].exec
              \/ /\ req'[t].pc = "visible" /\ req'[t].index = i
                 /\ req'[t].result = req[t].result
           /\ \A s \in Request \ {t} : req'[s] = req[s]
<1>1. CASE req[t].node = req[t].exec
  BY <1>1, ReturnFacts DEF Answer
<1>2. CASE req[t].node # req[t].exec
  <2> DEFINE r == [req[t] EXCEPT !.pc = "visible", !.index = i]
  <2>1. req[t] \in Progress /\ req' = [req EXCEPT ![t] = r]
    BY <1>2 DEF TypeOK, Answer
  <2>2. /\ r \in Progress /\ r.pc = "visible" /\ r.index = i /\ r.op = req[t].op
        /\ r.node = req[t].node /\ r.exec = req[t].exec
        /\ r.seen = req[t].seen /\ r.result = req[t].result
    BY <2>1 DEF Progress, Steps
  <2> HIDE DEF r
  <2>3. graphMu' \in [Node -> Request \cup {NoRequest}]
    BY <1>2 DEF TypeOK, Answer
  <2> QED
    BY <2>1, <2>2, <2>3, Changed
<1> QED
  BY <1>1, <1>2

----------------------------------------------------------------------------
(* The meanings of the log *)

\* Positions of nodes are positions of the log.
LEMMA Positions ==
    ASSUME TypeOK, BusyInv, NEW n \in Node
    PROVE  /\ Len(log) \in Nat /\ pos[n] \in 0..Len(log)
           /\ DbPos(n) \in 0..Len(log) /\ pos[n] <= DbPos(n)
           /\ ~busy[n] => DbPos(n) = pos[n]
<1>1. Len(log) \in Nat /\ pos[n] \in 0..Len(log)
  BY DEF TypeOK
<1> QED
  BY <1>1 DEF BusyInv, DbPos

LEMMA MeaningFacts ==
    ASSUME TypeOK, NEW i \in 0..Len(log)
    PROVE  /\ MeaningAt(i) \in Outcome /\ MeaningAt(i).db.graph \in Nat
           /\ i + 1 \in 1..Len(history)
<1>1. i + 1 \in 1..Len(history)
  BY DEF TypeOK
<1>2. MeaningAt(i) \in Outcome
  BY <1>1 DEF TypeOK, MeaningAt
<1> QED
  BY <1>1, <1>2 DEF Outcome, Tables

LEMMA MeaningLater ==
    ASSUME TypeOK, HistoryInv, NEW i \in 0..Len(log), NEW j \in 0..Len(log), i <= j
    PROVE  Later(MeaningAt(i), MeaningAt(j))
<1>1. i + 1 \in 1..Len(history) /\ j + 1 \in 1..Len(history)
  BY DEF TypeOK
<1> QED
  BY <1>1 DEF HistoryInv, MeaningAt

\* An intent that is realised at one position is realised from there on.
LEMMA StaysRealized ==
    ASSUME TypeOK, HistoryInv, NEW t \in Request,
           NEW i \in 0..Len(log), NEW j \in 0..Len(log), i <= j, RealizedAt(t, i)
    PROVE  RealizedAt(t, j)
<1>1. req[t].op.id \in OpId
  BY LabelledOp DEF TypeOK, Progress
<1> QED
  BY <1>1, MeaningLater DEF Later, RealizedAt

\* The result of a known operation names the entry that realised it.
LEMMA PriorIndex ==
    ASSUME TypeOK, HistoryInv, NEW p \in 0..Len(log), NEW o \in OpId,
           MeaningAt(p).ops[o] # NoOp
    PROVE  /\ ResultIndex(o) \in 1..Len(log)
           /\ MeaningAt(ResultIndex(o)).ops[o] = MeaningAt(p).ops[o]
<1> DEFINE T == {j \in 0..Len(log) : MeaningAt(j).ops[o] # NoOp}
<1>1. PICK x \in T : \A y \in T : ~(y < x)
  <2> DEFINE R == OpToRel(<, Nat)
  <2>1. \A y, z \in Nat : y < z => <<y, z>> \in R
    BY DEF OpToRel
  <2>2. IsWellFoundedOn(R, Nat)
    BY NatLessThanWellFounded
  <2>3. T \subseteq Nat /\ p \in T
    OBVIOUS
  <2> HIDE DEF R, T
  <2>4. \E x \in T : \A y \in T : ~(<<y, x>> \in R)
    BY <2>2, <2>3, WFMin
  <2> QED
    BY <2>1, <2>3, <2>4
<1>2. x # 0
  BY DEF HistoryInv, MeaningAt, NoOps
<1>3. x \in 1..Len(log) /\ x - 1 \in 0..Len(log) /\ x - 1 < x
  BY <1>2 DEF TypeOK
<1>4. MeaningAt(x - 1).ops[o] = NoOp
  BY <1>1, <1>3
<1>5. MeaningAt(x - 1) = history[x] /\ MeaningAt(x) = history[x + 1]
  BY <1>3 DEF MeaningAt
<1>6. \E i \in 1..Len(log) : history[i].ops[o] = NoOp /\ history[i + 1].ops[o] # NoOp
  BY <1>3, <1>4, <1>5
<1> PICK i : i = ResultIndex(o)
  OBVIOUS
<1>7. /\ i \in 1..Len(log)
      /\ history[i].ops[o] = NoOp /\ history[i + 1].ops[o] # NoOp
  BY <1>6 DEF ResultIndex
<1>8. /\ i - 1 \in 0..Len(log) /\ MeaningAt(i - 1).ops[o] = NoOp
      /\ i \in 0..Len(log) /\ MeaningAt(i).ops[o] # NoOp
  BY <1>7 DEF MeaningAt, TypeOK
<1>9. i <= p
  <2> SUFFICES ASSUME ~(i <= p) PROVE FALSE
    OBVIOUS
  <2>1. p <= i - 1
    BY <1>8
  <2> QED
    BY <1>8, <2>1, MeaningLater DEF Later
<1> QED
  BY <1>7, <1>8, <1>9, MeaningLater DEF Later

\* What a step of request t leaves alone.
LEMMA ServeFacts ==
    ASSUME TypeOK, BusyInv, HistoryInv, NEW t \in Request,
           Serve(t) \/ \E m \in Node : Route(t, m)
    PROVE  /\ UNCHANGED <<leader, log, history, pos, busy>>
           /\ req' \in [Request -> Progress]
           /\ graphMu' \in [Node -> Request \cup {NoRequest}]
           /\ \/ queue' = queue
              \/ /\ queue' = Append(queue, [op |-> req[t].op, by |-> t])
                 /\ req[t].pc = "propose" /\ req'[t].pc = "wait"
           /\ \A s \in Request \ {t} : req'[s] = req[s]
           /\ req[t].pc \notin {"idle", "lock"} => req'[t].op = req[t].op
           /\ req[t].pc \notin {"idle", "cycle"} => req'[t].seen = req[t].seen
           /\ req[t].pc # "done"
           /\ req[t].pc \in {"wait", "visible"} => req'[t].pc \in {"visible", "done"}
           /\ req'[t].pc = "wait" => req[t].pc = "propose"
<1>1. req[t] \in Progress /\ req[t].op \in Labelled /\ req[t].exec \in Node
  BY DEF TypeOK, Progress
<1>2. graphMu \in [Node -> Request \cup {NoRequest}]
  BY DEF TypeOK
<1> USE DEF At, Steps
<1>3. CASE \E m \in Node : Route(t, m)
  <2> PICK m \in Node : Route(t, m)
    BY <1>3
  <2> DEFINE r == [req[t] EXCEPT !.pc = "check", !.node = m, !.exec = leader]
  <2>1. req' = [req EXCEPT ![t] = r] /\ req[t].pc = "idle"
        /\ UNCHANGED <<leader, queue, log, history, pos, busy, graphMu>>
    BY <1>1 DEF Route, TypeOK, raftVars
  <2>2. r \in Progress /\ r.pc = "check"
    BY <1>1 DEF Progress, TypeOK
  <2> HIDE DEF r
  <2> QED
    BY <1>2, <2>1, <2>2, Changed
<1>4. CASE RejectUnhealthy(t) \/ RejectReusedId(t)
  BY <1>4, ReturnFacts DEF RejectUnhealthy, RejectReusedId, raftVars
<1>5. CASE AnswerPrior(t)
  <2>1. /\ req[t].op.id \in OpId /\ pos[req[t].exec] \in 0..Len(log)
    BY <1>1, LabelledOp DEF TypeOK
  <2>2. ResultIndex(req[t].op.id) \in Nat
    BY <1>5, <2>1, PriorIndex DEF AnswerPrior, Prior, Memory
  <2> QED
    BY <1>5, <2>2, AnswerFacts DEF AnswerPrior, raftVars
<1>6. CASE Admit(t)
  <2>1. \E step \in {"lock", "propose"} : Goto(t, step)
    BY <1>6 DEF Admit
  <2> QED
    BY <1>2, <1>6, <2>1, GotoFacts DEF Admit, raftVars
<1>7. CASE LockGraph(t)
  <2> PICK g \in Nat : g = Memory(req[t].exec).db.graph
    BY <1>1, MeaningFacts DEF TypeOK, Memory
  <2> PICK pc \in Steps :
         req' = [req EXCEPT ![t].op.dom = g, ![t].pc = pc] /\ pc # "wait"
    BY <1>7 DEF LockGraph
  <2> PICK o : o = [req[t].op EXCEPT !.dom = g]
    OBVIOUS
  <2> DEFINE r == [req[t] EXCEPT !.op = o, !.pc = pc]
  <2>1. o \in Labelled
    BY <1>1, Relabelled
  <2>2. req' = [req EXCEPT ![t] = r]
    BY <1>1 DEF TypeOK, Progress
  <2>3. r \in Progress /\ r.seen = req[t].seen /\ r.pc = pc
    BY <1>1, <2>1 DEF Progress
  <2>4. graphMu' \in [Node -> Request \cup {NoRequest}] /\ req[t].pc = "lock"
        /\ UNCHANGED <<leader, queue, log, history, pos, busy>>
    BY <1>2, <1>7 DEF LockGraph, raftVars
  <2> HIDE DEF r
  <2> QED
    BY <2>2, <2>3, <2>4, Changed
<1>8. CASE ValidateEndpoints(t)
  <2>1. (Goto(t, "duplicate") /\ UNCHANGED graphMu) \/ Return(t, "error")
    BY <1>8 DEF ValidateEndpoints
  <2> QED
    BY <1>2, <1>8, <2>1, GotoFacts, ReturnFacts DEF ValidateEndpoints, raftVars
<1>9. CASE ValidateDuplicate(t)
  <2>1. (Goto(t, "cycle") /\ UNCHANGED graphMu) \/ Return(t, "error")
    BY <1>9 DEF ValidateDuplicate
  <2> QED
    BY <1>2, <1>9, <2>1, GotoFacts, ReturnFacts DEF ValidateDuplicate, raftVars
<1>10. CASE ValidateCycle(t)
  <2>1. req[t].pc = "cycle" /\ UNCHANGED <<leader, queue, log, history, pos, busy>>
    BY <1>10 DEF ValidateCycle, raftVars
  <2>2. CASE Return(t, "error")
    BY <2>1, <2>2, ReturnFacts
  <2>3. CASE /\ req' = [req EXCEPT ![t].pc = "recheck",
                                   ![t].seen = DbPos(req[t].exec)]
             /\ UNCHANGED graphMu
    <3> DEFINE r == [req[t] EXCEPT !.pc = "recheck", !.seen = DbPos(req[t].exec)]
    <3>1. req' = [req EXCEPT ![t] = r]
      BY <1>1, <2>3 DEF TypeOK
    <3>2. DbPos(req[t].exec) \in Nat
      BY <1>1, Positions
    <3>3. r \in Progress /\ r.pc = "recheck" /\ r.op = req[t].op
      BY <1>1, <3>2 DEF Progress
    <3> HIDE DEF r
    <3> QED
      BY <1>2, <2>1, <2>3, <3>1, <3>3, Changed
  <2> QED
    BY <1>10, <2>2, <2>3 DEF ValidateCycle
<1>11. CASE Recheck(t)
  <2>1. (Goto(t, "propose") /\ UNCHANGED graphMu) \/ Return(t, "error")
    BY <1>11 DEF Recheck
  <2> QED
    BY <1>2, <1>11, <2>1, GotoFacts, ReturnFacts DEF Recheck, raftVars
<1>12. CASE Propose(t)
  <2>1. CASE /\ queue' = Append(queue, [op |-> req[t].op, by |-> t])
             /\ Goto(t, "wait")
             /\ UNCHANGED <<leader, log, history, pos, busy, graphMu>>
    BY <1>2, <1>12, <2>1, GotoFacts DEF Propose
  <2>2. CASE Return(t, "error") /\ UNCHANGED raftVars
    BY <1>12, <2>2, ReturnFacts DEF Propose, raftVars
  <2> QED
    BY <1>12, <2>1, <2>2 DEF Propose
<1>13. CASE Applied(t)
  <2>1. PICK i \in 1..pos[req[t].exec] : Answer(t, i) \/ Return(t, "error")
    BY <1>13 DEF Applied
  <2>2. i \in Nat
    BY <1>1 DEF TypeOK
  <2> QED
    BY <1>13, <2>1, <2>2, AnswerFacts, ReturnFacts DEF Applied, raftVars
<1>14. CASE WaitApplied(t) \/ GiveUp(t)
  BY <1>14, ReturnFacts DEF WaitApplied, GiveUp, raftVars
<1> QED
  BY <1>3, <1>4, <1>5, <1>6, <1>7, <1>8, <1>9, <1>10, <1>11, <1>12, <1>13, <1>14
  DEF Serve

----------------------------------------------------------------------------
(* Types, and the log *)

LEMMA InitFacts == Init => TypeOK /\ BusyInv /\ HistoryInv
<1> SUFFICES ASSUME Init PROVE TypeOK /\ BusyInv /\ HistoryInv
  OBVIOUS
<1> DEFINE c == [db |-> Seed, ops |-> NoOps, failed |-> FALSE]
<1>1. c \in Outcome /\ c.ops = NoOps
  BY SeedAssumption DEF Outcome, NoOps
<1>2. history = <<c>> /\ Len(history) = 1 /\ history[1] = c /\ log = <<>>
      /\ Len(log) = 0 /\ queue = <<>>
  BY DEF Init
<1>3. Later(c, c)
  BY <1>1 DEF Later, Outcome, Tables
<1>4. req \in [Request -> Progress]
  <2>1. leader \in Node /\ "idle" \in Steps /\ "none" \in {"none", "ok", "error", "unknown"}
    BY DEF Init, Steps
  <2>2. \A i \in Intents : [pc |-> "idle", node |-> leader, exec |-> leader,
                            op |-> i, seen |-> 0, index |-> 0, result |-> "none"]
                           \in Progress
    BY <2>1, IntentsLabelled DEF Progress
  <2> QED
    BY <2>2 DEF Init
<1> HIDE DEF c
<1>5. history \in Seq(Outcome)
  BY <1>1, <1>2
<1>6. TypeOK
  BY <1>2, <1>4, <1>5 DEF Init, TypeOK
<1>7. BusyInv
  BY DEF Init, BusyInv
<1>8. HistoryInv
  BY <1>1, <1>2, <1>3 DEF HistoryInv, NoOps
<1> QED
  BY <1>6, <1>7, <1>8

\* A commit: the log and its meanings grow by one, and the earlier ones stay.
LEMMA CommitFacts ==
    ASSUME TypeOK, Commit, NEW N, N = Len(log)
    PROVE  /\ N \in Nat /\ Head(queue) \in Entry
           /\ queue' \in Seq(Entry) /\ log' \in Seq(Entry)
           /\ Len(log') = N + 1 /\ log'[N + 1] = Head(queue)
           /\ \A i \in 1..N : log'[i] = log[i]
           /\ history' \in Seq(Outcome) /\ Len(history') = Len(log') + 1
           /\ \A i \in 0..N : MeaningAt(i)' = MeaningAt(i)
           /\ MeaningAt(N + 1)' =
                 Extend(MeaningAt(N), Head(queue).op, N + 1)
           /\ Later(MeaningAt(N), MeaningAt(N + 1)')
<1> PICK e : e = Extend(MeaningAt(N), Head(queue).op, N + 1)
  OBVIOUS
<1>1. queue \in Seq(Entry) /\ queue # <<>> /\ log \in Seq(Entry)
      /\ history \in Seq(Outcome) /\ Len(history) = N + 1 /\ N \in Nat
  BY DEF TypeOK, Commit
<1>2. Head(queue) \in Entry /\ Tail(queue) \in Seq(Entry)
  BY <1>1
<1>3. e \in Outcome /\ Later(MeaningAt(N), e)
  <2>1. MeaningAt(N) \in Outcome
    BY <1>1, MeaningFacts
  <2>2. Head(queue).op \in Labelled
    BY <1>2 DEF Entry
  <2> QED
    BY <1>1, <2>1, <2>2, ExtendLater
<1>4. history' = Append(history, e) /\ log' = Append(log, Head(queue))
      /\ queue' = Tail(queue)
  BY <1>1 DEF Commit, MeaningAt
<1>5. /\ history' \in Seq(Outcome) /\ Len(history') = Len(history) + 1
      /\ history'[Len(history) + 1] = e
      /\ \A i \in 1..Len(history) : history'[i] = history[i]
  BY <1>1, <1>3, <1>4
<1>6. /\ log' \in Seq(Entry) /\ Len(log') = N + 1
      /\ log'[N + 1] = Head(queue)
      /\ \A i \in 1..N : log'[i] = log[i]
  BY <1>1, <1>2, <1>4
<1>7. /\ \A i \in 0..N : history'[i + 1] = history[i + 1]
      /\ history'[(N + 1) + 1] = e
  BY <1>1, <1>5
<1> QED
  BY <1>1, <1>2, <1>3, <1>4, <1>5, <1>6, <1>7 DEF MeaningAt

LEMMA TypeStep ==
    TypeOK /\ BusyInv /\ HistoryInv /\ [Next]_vars => TypeOK' /\ BusyInv'
<1> SUFFICES ASSUME TypeOK, BusyInv, HistoryInv, [Next]_vars
             PROVE  TypeOK' /\ BusyInv'
  OBVIOUS
<1>1. ASSUME NEW t \in Request, Serve(t) \/ \E m \in Node : Route(t, m)
      PROVE  TypeOK' /\ BusyInv'
  <2>1. [op |-> req[t].op, by |-> t] \in Entry
    BY DEF TypeOK, Progress, Entry
  <2>2. queue' \in Seq(Entry)
    <3>1. CASE queue' = queue
      BY <3>1 DEF TypeOK
    <3>2. CASE queue' = Append(queue, [op |-> req[t].op, by |-> t])
      BY <2>1, <3>2 DEF TypeOK
    <3> QED
      BY <1>1, <3>1, <3>2, ServeFacts
  <2> QED
    BY <1>1, <2>2, ServeFacts DEF TypeOK, BusyInv
<1>2. ASSUME NEW n \in Node, ApplyTx(n) PROVE TypeOK' /\ BusyInv'
  BY <1>2 DEF ApplyTx, TypeOK, BusyInv
<1>3. ASSUME NEW n \in Node, ApplyDone(n) PROVE TypeOK' /\ BusyInv'
  <2>1. pos[n] + 1 \in 0..Len(log)
    BY <1>3 DEF ApplyDone, BusyInv, TypeOK
  <2> QED
    BY <1>3, <2>1 DEF ApplyDone, TypeOK, BusyInv
<1>4. ASSUME NEW n \in Node, LeaderChange(n) PROVE TypeOK' /\ BusyInv'
  <2>1. queue' \in Seq(Entry)
    BY <1>4 DEF LeaderChange, TypeOK
  <2> QED
    BY <1>4, <2>1 DEF LeaderChange, TypeOK, BusyInv
<1>5. CASE Commit
  <2>1. UNCHANGED <<leader, pos, busy, graphMu, req>> /\ Len(log) \in Nat
    BY <1>5 DEF Commit, TypeOK
  <2>2. \A i \in 0..Len(log) : i \in 0..(Len(log) + 1)
    BY <2>1
  <2>3. pos' \in [Node -> 0..Len(log')]
    BY <1>5, <2>1, <2>2, CommitFacts DEF TypeOK
  <2>4. BusyInv'
    <3>1. Len(log') = Len(log) + 1
      BY <1>5, CommitFacts
    <3> QED
      BY <2>1, <3>1 DEF BusyInv, TypeOK
  <2> QED
    BY <1>5, <2>1, <2>3, <2>4, CommitFacts DEF TypeOK
<1>6. CASE UNCHANGED vars
  BY <1>6 DEF vars, TypeOK, BusyInv
<1> QED
  BY <1>1, <1>2, <1>3, <1>4, <1>5, <1>6 DEF Next

LEMMA HistoryStep ==
    TypeOK /\ BusyInv /\ HistoryInv /\ [Next]_vars => HistoryInv'
<1> SUFFICES ASSUME TypeOK, BusyInv, HistoryInv, [Next]_vars PROVE HistoryInv'
  OBVIOUS
<1>1. CASE UNCHANGED <<log, history>>
  BY <1>1 DEF HistoryInv
<1>2. CASE Commit
  <2> PICK N : N = Len(log)
    OBVIOUS
  <2> PICK e : e = Extend(MeaningAt(N), Head(queue).op, N + 1)
    OBVIOUS
  <2>1. /\ N \in Nat /\ Len(history) = N + 1 /\ Len(history') = N + 2
        /\ \A i \in 1..(N + 1) : history[i] \in Outcome
    BY <1>2, CommitFacts DEF TypeOK
  <2>2. \A i \in 1..(N + 1) : history'[i] = history[i] /\ i \in 1..Len(history)
    <3> SUFFICES ASSUME NEW i \in 1..(N + 1) PROVE history'[i] = history[i]
      BY <2>1
    <3>1. i - 1 \in 0..Len(log) /\ (i - 1) + 1 = i
      BY <2>1
    <3>2. MeaningAt(i - 1)' = MeaningAt(i - 1)
      BY <1>2, <3>1, CommitFacts
    <3> QED
      BY <3>1, <3>2 DEF MeaningAt
  <2>3. history'[N + 2] = e
    <3>1. (N + 1) + 1 = N + 2
      BY <2>1
    <3> QED
      BY <1>2, <3>1, CommitFacts DEF MeaningAt
  <2>4. /\ e \in Outcome /\ Later(history[N + 1], e) /\ Head(queue).op \in Labelled
        /\ \A o \in OpId : e.ops[o] # NoOp =>
              e.ops[o] = history[N + 1].ops[o]
              \/ (e.ops[o] = Head(queue).op /\ o = Head(queue).op.id)
    <3>1. Head(queue).op \in Labelled
      BY <1>2, CommitFacts DEF Entry
    <3>2. MeaningAt(N) = history[N + 1] /\ history[N + 1] \in Outcome
      BY <2>1 DEF MeaningAt
    <3> QED
      BY <2>1, <3>1, <3>2, ExtendLater
  <2>5. history'[1].ops = NoOps
    BY <2>1, <2>2 DEF HistoryInv
  <2>6. ASSUME NEW i \in 1..Len(log')
        PROVE  history'[i + 1] = Extend(history'[i], log'[i].op, i)
    <3>1. CASE i = N + 1
      <4>1. MeaningAt(N) = history'[N + 1] /\ log'[i] = Head(queue) /\ i + 1 = N + 2
        BY <1>2, <2>1, <2>2, <3>1, CommitFacts DEF MeaningAt
      <4> QED
        BY <2>3, <3>1, <4>1
    <3>2. CASE i # N + 1
      <4>1. i \in 1..N /\ i \in 1..(N + 1) /\ i + 1 \in 1..(N + 1) /\ log'[i] = log[i]
        BY <1>2, <2>1, <3>2, CommitFacts
      <4> QED
        BY <2>2, <4>1 DEF HistoryInv
    <3> QED
      BY <3>1, <3>2
  <2>7. ASSUME NEW i \in 1..Len(history'), NEW j \in 1..Len(history'), i <= j
        PROVE  Later(history'[i], history'[j])
    <3>1. CASE j # N + 2
      <4>1. i \in 1..(N + 1) /\ j \in 1..(N + 1)
        BY <2>1, <2>7, <3>1
      <4> QED
        BY <2>2, <2>7, <4>1 DEF HistoryInv
    <3>2. CASE i = N + 2 /\ j = N + 2
      BY <2>3, <2>4, <3>2 DEF Later, Outcome, Tables
    <3>3. CASE i # N + 2 /\ j = N + 2
      <4>1. i \in 1..(N + 1) /\ N + 1 \in 1..(N + 1) /\ i <= N + 1
        BY <2>1, <3>3
      <4>2. Later(history[i], history[N + 1])
        BY <2>2, <4>1 DEF HistoryInv
      <4> QED
        BY <2>1, <2>2, <2>3, <2>4, <3>3, <4>1, <4>2, LaterTransitive
    <3> QED
      BY <2>1, <3>1, <3>2, <3>3
  <2>8. ASSUME NEW i \in 1..Len(history'), NEW o \in OpId, history'[i].ops[o] # NoOp
        PROVE  history'[i].ops[o].id = o
    <3>1. CASE i = N + 2
      BY <2>1, <2>2, <2>3, <2>4, <2>8, <3>1 DEF HistoryInv
    <3>2. CASE i # N + 2
      BY <2>1, <2>2, <2>8, <3>2 DEF HistoryInv
    <3> QED
      BY <3>1, <3>2
  <2> QED
    BY <2>5, <2>6, <2>7, <2>8 DEF HistoryInv
<1>3. ASSUME ~Commit PROVE UNCHANGED <<log, history>>
  BY <1>3, ServeFacts DEF Next, ApplyTx, ApplyDone, LeaderChange, vars
<1> QED
  BY <1>1, <1>2, <1>3

----------------------------------------------------------------------------
(* Validation of edges *)

\* What was checked on the graph of the database holds at every position that
\* has the revision of the label.
LEMMA CheckCarries ==
    ASSUME TypeOK, BusyInv, HistoryInv, NEW n \in Node, NEW g \in Nat,
           g <= MeaningAt(pos[n]).db.graph,
           NEW j \in DbPos(n)..Len(log), MeaningAt(j).db.graph = g
    PROVE  /\ MeaningAt(j).db.deps = Database(n).deps
           /\ \A p \in Post : Present(Database(n), p) => Present(MeaningAt(j).db, p)
<1>1. /\ pos[n] \in 0..Len(log) /\ DbPos(n) \in 0..Len(log) /\ j \in 0..Len(log)
      /\ pos[n] <= DbPos(n) /\ DbPos(n) <= j
  BY Positions
<1>2. Later(MeaningAt(pos[n]), MeaningAt(DbPos(n)))
      /\ Later(MeaningAt(DbPos(n)), MeaningAt(j))
  BY <1>1, MeaningLater
<1>3. /\ MeaningAt(pos[n]).db.graph \in Nat /\ MeaningAt(DbPos(n)).db.graph \in Nat
  BY <1>1, MeaningFacts
<1>4. MeaningAt(DbPos(n)).db.graph = g
  BY <1>2, <1>3 DEF Later
<1> QED
  BY <1>2, <1>4 DEF Later, Database

\* Checks that hold at one position hold at the next that has the revision.
LEMMA ChecksLater ==
    ASSUME NEW c, NEW d, Later(c, d), c.db.graph = d.db.graph,
           NEW op, op.obj \in Post, op.arg \in Post
    PROVE  /\ PassesEndpoints(op, c.db) => PassesEndpoints(op, d.db)
           /\ PassesDuplicate(op, c.db) => PassesDuplicate(op, d.db)
           /\ PassesCycle(op, c.db) => PassesCycle(op, d.db)
  BY DEF Later, PassesEndpoints, PassesDuplicate, PassesCycle

\* The checks of one request, when the request itself does not move.
LEMMA SameChecks ==
    ASSUME NEW t \in Request, req'[t] = req[t], NEW i, MeaningAt(i)' = MeaningAt(i),
           CheckedAt(t, i)
    PROVE  CheckedAt(t, i)'
  BY DEF CheckedAt

LEMMA GraphStep ==
    TypeOK /\ BusyInv /\ HistoryInv /\ GraphInv /\ [Next]_vars => GraphInv'
<1> SUFFICES ASSUME TypeOK, BusyInv, HistoryInv, GraphInv, [Next]_vars,
                    NEW s \in Request
             PROVE  GraphOK(s)'
  BY DEF GraphInv
<1>0. GraphOK(s) /\ req[s] \in Progress /\ req[s].exec \in Node
      /\ req[s].op \in Labelled /\ req[s].op.dom \in Nat
  BY LabelledOp DEF GraphInv, TypeOK, Progress
<1>1. CASE UNCHANGED <<log, history, pos, busy>> /\ req'[s] = req[s]
  BY <1>0, <1>1 DEF GraphOK, CheckedAt, MeaningAt, DbPos
<1>2. ASSUME NEW n \in Node, ApplyTx(n) \/ ApplyDone(n) PROVE GraphOK(s)'
  <2> PICK x : x = req[s].exec
    OBVIOUS
  <2>1. UNCHANGED <<log, history, req>>
    BY <1>2 DEF ApplyTx, ApplyDone
  <2>2. /\ DbPos(x) <= DbPos(x)' /\ pos[x] <= pos'[x] /\ pos'[x] \in 0..Len(log)
        /\ DbPos(x)' \in Nat
    <3>1. pos \in [Node -> 0..Len(log)] /\ busy \in [Node -> BOOLEAN] /\ Len(log) \in Nat
      BY DEF TypeOK
    <3>2. CASE ApplyTx(n)
      BY <1>0, <3>1, <3>2 DEF ApplyTx, DbPos
    <3>3. CASE ApplyDone(n)
      BY <1>0, <3>1, <3>3 DEF ApplyDone, DbPos, BusyInv
    <3> QED
      BY <1>2, <3>2, <3>3
  <2>3. MeaningAt(pos[x]).db.graph <= MeaningAt(pos'[x]).db.graph
    BY <1>0, <2>2, Positions, MeaningLater DEF Later
  <2>4. /\ MeaningAt(pos[x]).db.graph \in Nat /\ MeaningAt(pos'[x]).db.graph \in Nat
        /\ pos[x] \in 0..Len(log) /\ DbPos(x) \in 0..Len(log)
    BY <1>0, <2>2, Positions, MeaningFacts
  <2>5. /\ \A j : MeaningAt(j)' = MeaningAt(j)
        /\ \A j : CheckedAt(s, j)' <=> CheckedAt(s, j)
    BY <2>1 DEF MeaningAt, CheckedAt
  <2>6. \A j \in DbPos(x)'..Len(log) : j \in DbPos(x)..Len(log)
    BY <2>2, <2>4
  <2>7. req[s].op.dom <= MeaningAt(pos[x]).db.graph =>
           req[s].op.dom <= MeaningAt(pos'[x]).db.graph
    BY <1>0, <2>3, <2>4
  <2>8. req[s].seen <= DbPos(x) => req[s].seen <= DbPos(x)'
    BY <1>0, <2>2, <2>4 DEF Progress
  <2>9. req'[s] = req[s] /\ Len(log') = Len(log) /\ history' = history
    BY <2>1
  <2> SUFFICES ASSUME req[s].op.kind = "post_dependency.add",
                      req[s].pc \in {"endpoints", "duplicate", "cycle", "recheck",
                                     "propose"}
               PROVE  /\ req[s].op.dom <= MeaningAt(pos'[x]).db.graph
                      /\ \A j \in DbPos(x)'..Len(log) : CheckedAt(s, j)
                      /\ req[s].pc \in {"recheck", "propose"} =>
                            /\ req[s].seen <= DbPos(x)'
                            /\ req[s].op.dom <= MeaningAt(req[s].seen).db.graph
                      /\ req[s].pc = "propose" =>
                            MeaningAt(req[s].seen).db.graph = req[s].op.dom
    BY <2>5, <2>9 DEF GraphOK, MeaningAt
  <2> QED
    BY <1>0, <2>6, <2>7, <2>8 DEF GraphOK
<1>3. CASE Commit
  <2> PICK N : N = Len(log)
    OBVIOUS
  <2> PICK x : x = req[s].exec
    OBVIOUS
  <2>1. UNCHANGED <<pos, busy, req>> /\ Len(log') = N + 1 /\ N \in Nat
    BY <1>3, CommitFacts DEF Commit
  <2>2. pos[x] \in 0..N /\ DbPos(x) \in 0..N /\ DbPos(x)' = DbPos(x)
    BY <1>0, <2>1, Positions DEF DbPos
  <2>3. \A i \in 0..N : MeaningAt(i)' = MeaningAt(i)
    BY <1>3, CommitFacts
  <2> SUFFICES ASSUME req[s].op.kind = "post_dependency.add",
                      req[s].pc \in {"endpoints", "duplicate", "cycle", "recheck",
                                     "propose"}
               PROVE  GraphOK(s)'
    BY <2>1 DEF GraphOK
  <2>4. CheckedAt(s, N + 1)'
    <3>1. Later(MeaningAt(N), MeaningAt(N + 1)') /\ MeaningAt(N).db.graph \in Nat
      BY <1>3, <2>1, CommitFacts, MeaningFacts
    <3>2. Later(MeaningAt(pos[x]), MeaningAt(N)) /\ MeaningAt(pos[x]).db.graph \in Nat
      BY <2>1, <2>2, MeaningLater, MeaningFacts
    <3>3. CheckedAt(s, N) /\ req[s].op.dom <= MeaningAt(pos[x]).db.graph
      BY <1>0, <2>2 DEF GraphOK
    <3> SUFFICES ASSUME MeaningAt(N + 1)'.db.graph = req[s].op.dom
                 PROVE  CheckedAt(s, N + 1)'
      BY <2>1 DEF CheckedAt
    <3>4. /\ MeaningAt(N).db.graph = req[s].op.dom
          /\ MeaningAt(N).db.graph = MeaningAt(N + 1)'.db.graph
      BY <1>0, <3>1, <3>2, <3>3 DEF Later
    <3>5. req[s].op.obj \in Post /\ req[s].op.arg \in Post
      BY <1>0, LabelledOp
    <3>6. LET op == req[s].op
              c == MeaningAt(N).db
              d == MeaningAt(N + 1)'.db
          IN  /\ PassesEndpoints(op, c) => PassesEndpoints(op, d)
              /\ PassesDuplicate(op, c) => PassesDuplicate(op, d)
              /\ PassesCycle(op, c) => PassesCycle(op, d)
      BY <3>1, <3>4, <3>5, ChecksLater
    <3> QED
      BY <2>1, <3>3, <3>4, <3>6 DEF CheckedAt
  <2>5. \A j \in DbPos(x)..N : CheckedAt(s, j)'
    BY <1>0, <2>1, <2>2, <2>3, SameChecks DEF GraphOK
  <2>6. \A j \in DbPos(x)..(N + 1) : j \in DbPos(x)..N \/ j = N + 1
    BY <2>1, <2>2
  <2>7. \A j \in DbPos(x)..(N + 1) : CheckedAt(s, j)'
    BY <2>4, <2>5, <2>6
  <2>8. req[s].seen <= DbPos(x) => req[s].seen \in 0..N
    BY <1>0, <2>2 DEF Progress
  <2> QED
    BY <1>0, <2>1, <2>2, <2>3, <2>7, <2>8 DEF GraphOK
<1>4. ASSUME Serve(s) \/ \E m \in Node : Route(s, m) PROVE GraphOK(s)'
  <2> PICK x : x = req[s].exec
    OBVIOUS
  <2>1. /\ UNCHANGED <<log, history, pos, busy>> /\ x \in Node
        /\ pos[x] \in 0..Len(log) /\ DbPos(x) \in 0..Len(log) /\ pos[x] <= DbPos(x)
        /\ ~busy[x] => DbPos(x) = pos[x]
        /\ DbPos(x)' = DbPos(x) /\ Len(log) \in Nat
    BY <1>0, <1>4, ServeFacts, Positions DEF DbPos
  <2>2. \A j : MeaningAt(j)' = MeaningAt(j)
    BY <2>1 DEF MeaningAt
  <2>3. /\ MeaningAt(pos[x]).db.graph \in Nat /\ MeaningAt(DbPos(x)).db.graph \in Nat
        /\ MeaningAt(pos[x]).db.graph <= MeaningAt(DbPos(x)).db.graph
    BY <2>1, MeaningFacts, MeaningLater DEF Later
  <2> SUFFICES ASSUME req'[s].op.kind = "post_dependency.add",
                      req'[s].pc \in {"endpoints", "duplicate", "cycle", "recheck",
                                      "propose"}
               PROVE  GraphOK(s)'
    BY DEF GraphOK
  <2> USE DEF At
  <2>4. CASE \/ RejectUnhealthy(s) \/ RejectReusedId(s) \/ AnswerPrior(s)
             \/ Propose(s) \/ Applied(s) \/ WaitApplied(s) \/ GiveUp(s)
             \/ \E m \in Node : Route(s, m)
    <3>1. ASSUME NEW r \in {"ok", "error", "unknown"}, Return(s, r) PROVE FALSE
      BY <3>1, ReturnFacts
    <3>2. ASSUME NEW i \in Nat, Answer(s, i) PROVE FALSE
      BY <3>2, AnswerFacts
    <3>3. ASSUME \E m \in Node : Route(s, m) PROVE FALSE
      BY <1>0, <3>3 DEF Route, TypeOK, Progress
    <3>4. ASSUME Goto(s, "wait") PROVE FALSE
      BY <3>4, GotoFacts DEF Steps
    <3>5. ASSUME AnswerPrior(s) PROVE FALSE
      <4>1. req[s].op.id \in OpId /\ pos[req[s].exec] \in 0..Len(log)
        BY <1>0, LabelledOp DEF TypeOK
      <4>2. ResultIndex(req[s].op.id) \in Nat
        BY <3>5, <4>1, PriorIndex DEF AnswerPrior, Prior, Memory
      <4> QED
        BY <3>2, <3>5, <4>2 DEF AnswerPrior
    <3>6. ASSUME Applied(s) PROVE FALSE
      BY <1>0, <3>1, <3>2, <3>6 DEF Applied, TypeOK
    <3> QED
      BY <2>4, <3>1, <3>3, <3>4, <3>5, <3>6
      DEF RejectUnhealthy, RejectReusedId, Propose, WaitApplied, GiveUp
  <2>5. CASE Admit(s)
    <3>1. CASE req[s].op.kind \in GraphKinds
      <4>1. Goto(s, "lock")
        BY <2>5, <3>1 DEF Admit
      <4> QED
        BY <4>1, GotoFacts DEF Steps
    <3>2. CASE req[s].op.kind \notin GraphKinds
      <4>1. Goto(s, "propose")
        BY <2>5, <3>2 DEF Admit
      <4>2. req'[s].op = req[s].op
        BY <4>1, GotoFacts DEF Steps
      <4> QED
        BY <3>2, <4>2 DEF GraphKinds
    <3> QED
      BY <3>1, <3>2
  <2>6. CASE LockGraph(s)
    <3> PICK g \in Nat : g = MeaningAt(pos[x]).db.graph
      BY <2>3
    <3> PICK o : o = [req[s].op EXCEPT !.dom = g]
      OBVIOUS
    <3>1. /\ o \in Labelled /\ o.dom = g /\ o.kind = req[s].op.kind
      BY <1>0, Relabelled
    <3> PICK pc : pc = IF req[s].op.kind = "post_dependency.add"
                       THEN "endpoints" ELSE "recheck"
      OBVIOUS
    <3>2. req' = [req EXCEPT ![s] = [req[s] EXCEPT !.op = o, !.pc = pc]]
      BY <1>0, <2>6 DEF LockGraph, Memory, TypeOK, Progress
    <3>3. req'[s].op = o /\ req'[s].pc = pc /\ req'[s].exec = x
      BY <1>0, <3>2 DEF TypeOK, Progress
    <3>4. pc = "endpoints"
      BY <3>1, <3>3
    <3>5. \A j : CheckedAt(s, j)'
      BY <3>3, <3>4 DEF CheckedAt
    <3> QED
      BY <2>1, <2>2, <2>3, <3>1, <3>3, <3>4, <3>5 DEF GraphOK
  \* The other steps keep the operation.
  <2>7. ASSUME req'[s].op = req[s].op
        PROVE  req[s].op.obj \in Post /\ req[s].op.arg \in Post
    BY <1>0, <2>7, LabelledOp
  <2>8. ASSUME req[s].op.dom <= MeaningAt(pos[x]).db.graph,
               NEW j \in DbPos(x)..Len(log), MeaningAt(j).db.graph = req[s].op.dom
        PROVE  /\ MeaningAt(j).db.deps = Database(x).deps
               /\ \A p \in Post : Present(Database(x), p) => Present(MeaningAt(j).db, p)
    BY <1>0, <2>1, <2>8, CheckCarries
  <2>9. CASE ValidateEndpoints(s)
    <3>1. /\ req'[s].pc = "duplicate" /\ req'[s].op = req[s].op /\ req'[s].exec = x
          /\ EndpointsExist(s) /\ req[s].pc = "endpoints"
      BY <2>9, GotoFacts, ReturnFacts DEF ValidateEndpoints, Steps
    <3>2. req[s].op.dom <= MeaningAt(pos[x]).db.graph
      BY <1>0, <3>1 DEF GraphOK
    <3>3. ASSUME NEW j \in DbPos(x)..Len(log) PROVE CheckedAt(s, j)'
      BY <2>2, <2>7, <2>8, <3>1, <3>2
      DEF CheckedAt, PassesEndpoints, EndpointsExist
    <3> QED
      BY <2>1, <2>2, <3>1, <3>2, <3>3 DEF GraphOK
  <2>10. CASE ValidateDuplicate(s)
    <3>1. /\ req'[s].pc = "cycle" /\ req'[s].op = req[s].op /\ req'[s].exec = x
          /\ EdgeIsNew(s) /\ req[s].pc = "duplicate"
      BY <2>10, GotoFacts, ReturnFacts DEF ValidateDuplicate, Steps
    <3>2. /\ req[s].op.dom <= MeaningAt(pos[x]).db.graph
          /\ \A j \in DbPos(x)..Len(log) : CheckedAt(s, j)
      BY <1>0, <3>1 DEF GraphOK
    <3>3. ASSUME NEW j \in DbPos(x)..Len(log) PROVE CheckedAt(s, j)'
      BY <2>2, <2>8, <3>1, <3>2 DEF CheckedAt, PassesDuplicate, EdgeIsNew
    <3> QED
      BY <2>1, <2>2, <3>1, <3>2, <3>3 DEF GraphOK
  <2>11. CASE ValidateCycle(s)
    <3>1. /\ req'[s].pc = "recheck" /\ req'[s].op = req[s].op /\ req'[s].exec = x
          /\ req'[s].seen = DbPos(x) /\ ClosesNoCycle(s) /\ req[s].pc = "cycle"
      <4>1. CASE Return(s, "error")
        BY <4>1, ReturnFacts
      <4>2. CASE /\ req' = [req EXCEPT ![s].pc = "recheck",
                                       ![s].seen = DbPos(req[s].exec)]
                 /\ ClosesNoCycle(s)
        BY <1>0, <2>11, <4>2 DEF ValidateCycle, TypeOK, Progress
      <4> QED
        BY <2>11, <4>1, <4>2 DEF ValidateCycle
    <3>2. /\ req[s].op.dom <= MeaningAt(pos[x]).db.graph
          /\ \A j \in DbPos(x)..Len(log) : CheckedAt(s, j)
      BY <1>0, <3>1 DEF GraphOK
    <3>3. ASSUME NEW j \in DbPos(x)..Len(log) PROVE CheckedAt(s, j)'
      BY <2>2, <2>8, <3>1, <3>2 DEF CheckedAt, PassesCycle, ClosesNoCycle
    <3>4. req[s].op.dom <= MeaningAt(DbPos(x)).db.graph /\ DbPos(x) <= DbPos(x)
      BY <1>0, <2>1, <2>3, <3>2
    <3> QED
      BY <2>1, <2>2, <3>1, <3>2, <3>3, <3>4 DEF GraphOK
  <2>12. CASE Recheck(s)
    <3>1. /\ req'[s].pc = "propose" /\ req'[s].op = req[s].op /\ req'[s].exec = x
          /\ req'[s].seen = req[s].seen
          /\ GraphUnchanged(s) /\ req[s].pc = "recheck" /\ ~busy[x]
      BY <2>12, GotoFacts, ReturnFacts DEF Recheck, Steps
    <3>2. /\ req[s].op.dom <= MeaningAt(pos[x]).db.graph
          /\ \A j \in DbPos(x)..Len(log) : CheckedAt(s, j)
          /\ req[s].seen <= DbPos(x)
          /\ req[s].op.dom <= MeaningAt(req[s].seen).db.graph
      BY <1>0, <3>1 DEF GraphOK
    <3>3. ASSUME NEW j \in DbPos(x)..Len(log) PROVE CheckedAt(s, j)'
      BY <2>2, <3>1, <3>2 DEF CheckedAt
    <3>4. req[s].seen \in 0..Len(log) /\ req[s].seen <= pos[x]
      BY <1>0, <2>1, <3>1, <3>2 DEF Progress
    <3>5. /\ MeaningAt(req[s].seen).db.graph \in Nat
          /\ MeaningAt(req[s].seen).db.graph <= MeaningAt(pos[x]).db.graph
      BY <2>1, <3>4, MeaningFacts, MeaningLater DEF Later
    <3>6. MeaningAt(pos[x]).db.graph = req[s].op.dom
      BY <3>1 DEF GraphUnchanged, Memory
    <3>7. MeaningAt(req[s].seen).db.graph = req[s].op.dom
      BY <1>0, <3>2, <3>5, <3>6
    <3> QED
      BY <2>1, <2>2, <3>1, <3>2, <3>3, <3>7 DEF GraphOK
  <2> QED
    BY <1>4, <2>4, <2>5, <2>6, <2>9, <2>10, <2>11, <2>12 DEF Serve
<1>5. ASSUME NEW t \in Request \ {s}, Serve(t) \/ \E m \in Node : Route(t, m)
      PROVE  GraphOK(s)'
  BY <1>1, <1>5, ServeFacts
<1>6. CASE UNCHANGED vars \/ \E n \in Node : LeaderChange(n)
  BY <1>1, <1>6 DEF vars, LeaderChange
<1> QED
  BY <1>2, <1>3, <1>4, <1>5, <1>6 DEF Next

----------------------------------------------------------------------------
(* Entries *)

\* An entry whose request has not moved, or only on towards its answer.
LEMMA StaysFaithful ==
    ASSUME TypeOK, NEW e \in Entry, Faithful(e),
           Len(log) <= Len(log'), Len(log') \in Nat,
           \A i \in 0..Len(log) : MeaningAt(i)' = MeaningAt(i),
           req'[e.by].op = req[e.by].op, req'[e.by].seen = req[e.by].seen,
           req'[e.by].pc \in {"wait", "visible", "done"}
    PROVE  Faithful(e)'
<1>1. e.by \in Request /\ req[e.by].seen \in Nat /\ Len(log) \in Nat
  BY DEF Entry, TypeOK, Progress
<1>2. LabelOK(e.by)'
  BY <1>1 DEF Faithful, LabelOK
<1> QED
  BY <1>2 DEF Faithful

LEMMA EntryStep ==
    TypeOK /\ BusyInv /\ HistoryInv /\ GraphInv /\ EntryInv /\ [Next]_vars
    => EntryInv'
<1> SUFFICES ASSUME TypeOK, BusyInv, HistoryInv, GraphInv, EntryInv, [Next]_vars
             PROVE  EntryInv'
  OBVIOUS
<1>0. /\ queue \in Seq(Entry) /\ log \in Seq(Entry) /\ Len(log) \in Nat
      /\ Len(queue) \in Nat
      /\ \A i \in 1..Len(queue) : queue[i] \in Entry
      /\ \A i \in 1..Len(log) : log[i] \in Entry
  BY DEF TypeOK
<1>1. ASSUME NEW t \in Request, Serve(t) \/ \E m \in Node : Route(t, m)
      PROVE  EntryInv'
  <2>1. UNCHANGED <<log, history, pos, busy>> /\ Len(log') = Len(log)
        /\ \A i : MeaningAt(i)' = MeaningAt(i)
    BY <1>1, ServeFacts DEF MeaningAt
  <2>2. ASSUME NEW e \in Entry, Faithful(e) PROVE Faithful(e)'
    <3>1. e.by \in Request
      BY DEF Entry
    <3>2. /\ req'[e.by].op = req[e.by].op /\ req'[e.by].seen = req[e.by].seen
          /\ req'[e.by].pc \in {"wait", "visible", "done"}
      <4>1. CASE e.by = t
        BY <1>1, <2>2, <4>1, ServeFacts DEF Faithful
      <4>2. CASE e.by # t
        BY <1>1, <2>2, <3>1, <4>2, ServeFacts DEF Faithful
      <4> QED
        BY <4>1, <4>2
    <3> QED
      BY <1>0, <2>1, <2>2, <3>2, StaysFaithful
  <2>3. \A e : Realizable(e) => Realizable(e)'
    BY <2>1 DEF Realizable, MeaningAt
  <2>4. \A i \in 1..Len(log') : Faithful(log[i])'
    <3> SUFFICES ASSUME NEW i \in 1..Len(log) PROVE Faithful(log[i])'
      BY <2>1
    <3> PICK e : e = log[i]
      OBVIOUS
    <3>1. e \in Entry /\ Faithful(e)
      BY <1>0 DEF EntryInv
    <3>2. Faithful(e)' /\ e = log'[i]
      BY <2>1, <2>2, <3>1
    <3> QED
      BY <3>2
  <2>5. ASSUME req[t].pc = "propose", req'[t].pc = "wait"
        PROVE  /\ LabelOK(t)' /\ LabelOK(t)
               /\ Realizable([op |-> req[t].op, by |-> t])
    <3> PICK x : x = req[t].exec
      OBVIOUS
    <3>1. req[t].op \in Labelled /\ x \in Node /\ req[t].seen \in Nat
      BY DEF TypeOK, Progress
    <3>2. req'[t].op = req[t].op /\ req'[t].seen = req[t].seen
      BY <1>1, <2>5, ServeFacts
    <3> SUFFICES ASSUME req[t].op.kind = "post_dependency.add"
                 PROVE  /\ LabelOK(t)' /\ LabelOK(t)
                        /\ Realizable([op |-> req[t].op, by |-> t])
      BY <3>2 DEF LabelOK, Realizable
    <3>3. /\ req[t].op.dom <= MeaningAt(pos[x]).db.graph
          /\ \A j \in DbPos(x)..Len(log) : CheckedAt(t, j)
          /\ req[t].seen <= DbPos(x)
          /\ MeaningAt(req[t].seen).db.graph = req[t].op.dom
      BY <2>5 DEF GraphInv, GraphOK
    <3>4. /\ pos[x] \in 0..Len(log) /\ DbPos(x) \in 0..Len(log)
          /\ Len(log) \in 0..Len(log) /\ Len(log) \in DbPos(x)..Len(log)
          /\ pos[x] <= Len(log)
      BY <1>0, <3>1, Positions
    <3>5. req[t].seen <= Len(log)
      BY <1>0, <3>1, <3>3, <3>4
    <3>6. /\ MeaningAt(pos[x]).db.graph \in Nat /\ MeaningAt(Len(log)).db.graph \in Nat
          /\ MeaningAt(pos[x]).db.graph <= MeaningAt(Len(log)).db.graph
      BY <3>4, MeaningFacts, MeaningLater DEF Later
    <3>7. req[t].op.dom \in Nat
      BY <3>1, LabelledOp
    <3>8. req[t].op.dom <= MeaningAt(Len(log)).db.graph
      BY <3>3, <3>6, <3>7
    <3>9. MeaningAt(Len(log)).db.graph = req[t].op.dom =>
             CanDependencyAdd(MeaningAt(Len(log)).db, MeaningAt(Len(log)).db.graph,
                              req[t].op)
      BY <2>5, <3>3, <3>4
      DEF CheckedAt, CanDependencyAdd, PassesEndpoints, PassesDuplicate, PassesCycle
    <3>10. LabelOK(t) /\ LabelOK(t)'
      BY <2>1, <3>2, <3>3, <3>5 DEF LabelOK
    <3>11. Realizable([op |-> req[t].op, by |-> t])
      BY <3>8, <3>9 DEF Realizable
    <3> QED
      BY <3>10, <3>11
  <2>6. \A i \in 1..Len(queue') : Faithful(queue[i])' /\ Realizable(queue[i])'
    <3>1. ASSUME NEW i \in 1..Len(queue), NEW e, e = queue[i]
          PROVE  Faithful(e)' /\ Realizable(e)'
      <4>1. e \in Entry /\ Faithful(e) /\ Realizable(e)
        BY <1>0, <3>1 DEF EntryInv
      <4> QED
        BY <2>2, <2>3, <4>1
    <3>2. CASE queue' = queue
      <4> SUFFICES ASSUME NEW i \in 1..Len(queue)
                   PROVE  Faithful(queue[i])' /\ Realizable(queue[i])'
        BY <3>2
      <4> PICK e : e = queue[i]
        OBVIOUS
      <4>1. Faithful(e)' /\ Realizable(e)' /\ e = queue'[i]
        BY <3>1, <3>2
      <4> QED
        BY <4>1
    <3>3. CASE /\ queue' = Append(queue, [op |-> req[t].op, by |-> t])
               /\ req[t].pc = "propose" /\ req'[t].pc = "wait"
      <4> PICK e : e = [op |-> req[t].op, by |-> t]
        OBVIOUS
      <4>1. req'[t].op = req[t].op
        BY <1>1, <3>3, ServeFacts
      <4>2. Realizable(e)'
        BY <2>3, <2>5, <3>3
      <4>3. Faithful(e)'
        BY <2>5, <3>3, <4>1 DEF Faithful
      <4>4. /\ Len(queue') = Len(queue) + 1 /\ queue'[Len(queue) + 1] = e
            /\ \A i \in 1..Len(queue) : queue'[i] = queue[i]
        BY <1>0, <3>3
      <4>5. \A i \in 1..Len(queue') : i \in 1..Len(queue) \/ i = Len(queue) + 1
        BY <1>0, <4>4
      <4> SUFFICES ASSUME NEW i \in 1..Len(queue')
                   PROVE  Faithful(queue[i])' /\ Realizable(queue[i])'
        OBVIOUS
      <4>6. CASE i = Len(queue) + 1
        <5>1. queue'[i] = e
          BY <4>4, <4>6
        <5> QED
          BY <4>2, <4>3, <5>1
      <4>7. CASE i \in 1..Len(queue)
        <5> PICK f : f = queue[i]
          OBVIOUS
        <5>1. Faithful(f)' /\ Realizable(f)' /\ f = queue'[i]
          BY <3>1, <4>4, <4>7
        <5> QED
          BY <5>1
      <4> QED
        BY <4>5, <4>6, <4>7
    <3> QED
      BY <1>1, <3>2, <3>3, ServeFacts
  <2>7. ASSUME NEW s \in Request, req'[s].pc = "wait" PROVE LabelOK(s)'
    <3>1. CASE s = t
      BY <1>1, <2>5, <2>7, <3>1, ServeFacts
    <3>2. CASE s # t
      BY <1>1, <2>1, <2>7, <3>2, ServeFacts DEF EntryInv, LabelOK
    <3> QED
      BY <3>1, <3>2
  <2> QED
    BY <2>4, <2>6, <2>7 DEF EntryInv
<1>2. CASE Commit
  <2> PICK N : N = Len(log)
    OBVIOUS
  <2>1. /\ UNCHANGED <<pos, busy, req>> /\ N \in Nat /\ Len(log') = N + 1
        /\ queue' = Tail(queue) /\ queue # <<>>
        /\ \A i \in 0..N : MeaningAt(i)' = MeaningAt(i)
        /\ Later(MeaningAt(N), MeaningAt(N + 1)')
    BY <1>2, CommitFacts DEF Commit
  <2>2. ASSUME NEW e \in Entry, Faithful(e) PROVE Faithful(e)'
    <3>1. /\ req'[e.by].op = req[e.by].op /\ req'[e.by].seen = req[e.by].seen
          /\ req'[e.by].pc \in {"wait", "visible", "done"}
      BY <2>1, <2>2 DEF Faithful
    <3> QED
      BY <2>1, <2>2, <3>1, StaysFaithful
  <2>3. ASSUME NEW e \in Entry, Realizable(e) PROVE Realizable(e)'
    <3> PICK c, d : c = MeaningAt(N) /\ d = MeaningAt(N + 1)'
      OBVIOUS
    <3>1. c.db.graph \in Nat /\ d.db.graph \in Nat /\ Later(c, d)
      <4>1. d \in Outcome
        BY <1>2, <2>1, CommitFacts DEF MeaningAt
      <4> QED
        BY <2>1, <4>1, MeaningFacts DEF Outcome, Tables
    <3> SUFFICES ASSUME e.op.kind = "post_dependency.add"
                 PROVE  /\ e.op.dom <= d.db.graph
                        /\ d.db.graph = e.op.dom =>
                              CanDependencyAdd(d.db, d.db.graph, e.op)
      BY <2>1 DEF Realizable, MeaningAt
    <3>2. /\ e.op.dom <= c.db.graph
          /\ c.db.graph = e.op.dom => CanDependencyAdd(c.db, c.db.graph, e.op)
      BY <2>3 DEF Realizable
    <3>3. e.op.dom \in Nat /\ e.op.obj \in Post /\ e.op.arg \in Post
      BY LabelledOp DEF Entry
    <3>4. e.op.dom <= d.db.graph /\ (d.db.graph = e.op.dom => c.db.graph = e.op.dom)
      BY <3>1, <3>2, <3>3 DEF Later
    <3>5. c.db.graph = d.db.graph /\ CanDependencyAdd(c.db, c.db.graph, e.op)
          => CanDependencyAdd(d.db, d.db.graph, e.op)
      BY <3>1, <3>3 DEF Later, CanDependencyAdd
    <3> QED
      BY <3>2, <3>4, <3>5
  <2>4. \A i \in 1..Len(queue') : Faithful(queue[i])' /\ Realizable(queue[i])'
    <3> SUFFICES ASSUME NEW i \in 1..Len(queue')
                 PROVE  Faithful(queue[i])' /\ Realizable(queue[i])'
      OBVIOUS
    <3>1. queue'[i] = queue[i + 1] /\ i + 1 \in 1..Len(queue)
      BY <1>0, <2>1
    <3> PICK e : e = queue[i + 1]
      OBVIOUS
    <3>2. e \in Entry /\ Faithful(e) /\ Realizable(e)
      BY <1>0, <3>1 DEF EntryInv
    <3>3. Faithful(e)' /\ Realizable(e)'
      BY <2>2, <2>3, <3>2
    <3> QED
      BY <3>1, <3>3
  <2>5. \A i \in 1..Len(log') : Faithful(log[i])'
    <3> SUFFICES ASSUME NEW i \in 1..(N + 1) PROVE Faithful(log[i])'
      BY <2>1
    <3> PICK e : e = log'[i]
      OBVIOUS
    <3>1. e \in Entry /\ Faithful(e)
      <4>1. CASE i = N + 1
        <5>1. e = Head(queue) /\ Head(queue) = queue[1] /\ 1 \in 1..Len(queue)
          BY <1>0, <1>2, <2>1, <4>1, CommitFacts
        <5> QED
          BY <1>0, <5>1 DEF EntryInv
      <4>2. CASE i # N + 1
        <5>1. i \in 1..Len(log) /\ e = log[i]
          BY <1>2, <2>1, <4>2, CommitFacts
        <5> QED
          BY <1>0, <5>1 DEF EntryInv
      <4> QED
        BY <4>1, <4>2
    <3>2. Faithful(e)'
      BY <2>2, <3>1
    <3>3. e = log'[i]
      OBVIOUS
    <3> QED
      BY <3>2, <3>3
  <2>6. ASSUME NEW s \in Request, req'[s].pc = "wait" PROVE LabelOK(s)'
    <3>1. LabelOK(s) /\ req[s].seen \in Nat
      BY <2>1, <2>6 DEF EntryInv, TypeOK, Progress
    <3> QED
      BY <2>1, <3>1 DEF LabelOK
  <2> QED
    BY <2>4, <2>5, <2>6 DEF EntryInv
<1>3. ASSUME NEW n \in Node, LeaderChange(n) PROVE EntryInv'
  <2> PICK k \in 0..Len(queue) : queue' = SubSeq(queue, 1, k)
    BY <1>3 DEF LeaderChange
  <2>1. UNCHANGED <<log, history, req>>
    BY <1>3 DEF LeaderChange
  <2>2. \A i \in 1..Len(queue') : i \in 1..Len(queue) /\ queue'[i] = queue[i]
    BY <1>0
  <2>3. /\ \A e : Faithful(e) => Faithful(e)'
        /\ \A e : Realizable(e) => Realizable(e)'
        /\ \A t \in Request : LabelOK(t) => LabelOK(t)'
    BY <2>1 DEF Faithful, Realizable, LabelOK, MeaningAt
  <2>4. \A i \in 1..Len(queue') : Faithful(queue[i])' /\ Realizable(queue[i])'
    <3> SUFFICES ASSUME NEW i \in 1..Len(queue')
                 PROVE  Faithful(queue[i])' /\ Realizable(queue[i])'
      OBVIOUS
    <3> PICK e : e = queue[i]
      OBVIOUS
    <3>1. Faithful(e)' /\ Realizable(e)' /\ e = queue'[i]
      BY <2>2, <2>3 DEF EntryInv
    <3> QED
      BY <3>1
  <2>5. \A i \in 1..Len(log') : Faithful(log[i])'
    <3> SUFFICES ASSUME NEW i \in 1..Len(log) PROVE Faithful(log[i])'
      BY <2>1
    <3> PICK e : e = log[i]
      OBVIOUS
    <3>1. Faithful(e)' /\ e = log'[i]
      BY <2>1, <2>3 DEF EntryInv
    <3> QED
      BY <3>1
  <2> QED
    BY <2>1, <2>3, <2>4, <2>5 DEF EntryInv
<1>4. CASE UNCHANGED vars \/ \E n \in Node : ApplyTx(n) \/ ApplyDone(n)
  <2>1. UNCHANGED <<log, history, req, queue>>
    BY <1>4 DEF vars, ApplyTx, ApplyDone
  <2> QED
    BY <2>1 DEF EntryInv, Faithful, Realizable, LabelOK, MeaningAt
<1> QED
  BY <1>1, <1>2, <1>3, <1>4 DEF Next

----------------------------------------------------------------------------
(* Refusals *)

LEMMA RefusedStep ==
    /\ TypeOK /\ BusyInv /\ HistoryInv /\ EntryInv /\ RefusedOnlyWhenStale
    /\ [Next]_vars
    => RefusedOnlyWhenStale'
<1> SUFFICES ASSUME TypeOK, BusyInv, HistoryInv, EntryInv, RefusedOnlyWhenStale,
                    [Next]_vars
             PROVE  RefusedOnlyWhenStale'
  OBVIOUS
<1>1. CASE UNCHANGED <<log, history>>
  BY <1>1 DEF RefusedOnlyWhenStale
<1>2. CASE Commit
  <2> PICK N, op : N = Len(log) /\ op = Head(queue).op
    OBVIOUS
  <2>1. /\ N \in Nat /\ Len(log') = N + 1 /\ log'[N + 1] = Head(queue)
        /\ \A i \in 1..N : log'[i] = log[i]
        /\ \A i \in 0..N : history'[i + 1] = history[i + 1]
        /\ history'[(N + 1) + 1] = Extend(history[N + 1], op, N + 1)
    BY <1>2, CommitFacts DEF MeaningAt
  <2>2. \A i \in 1..N : history'[i] = history[i] /\ history'[i + 1] = history[i + 1]
    <3> SUFFICES ASSUME NEW i \in 1..N
                 PROVE  history'[i] = history[i] /\ history'[i + 1] = history[i + 1]
      OBVIOUS
    <3>1. i - 1 \in 0..N /\ i \in 0..N /\ (i - 1) + 1 = i
      BY <2>1
    <3>2. history'[(i - 1) + 1] = history[(i - 1) + 1]
      BY <2>1, <3>1
    <3> QED
      BY <2>1, <3>1, <3>2
  <2>3. history'[N + 1] = history[N + 1]
    BY <2>1
  <2>4. ASSUME NEW c, c = history[N + 1], op.kind = "post_dependency.add",
               Extend(c, op, N + 1).failed, ~c.failed
        PROVE  op.dom # c.db.graph
    <3>1. Realizable(Head(queue))
      <4>1. Head(queue) = queue[1] /\ 1 \in 1..Len(queue)
        BY <1>2 DEF Commit, TypeOK
      <4> QED
        BY <4>1 DEF EntryInv
    <3>2. op.dom = c.db.graph => CanRealize(c.db, c.db.graph, op)
      BY <2>4, <3>1 DEF Realizable, MeaningAt, CanRealize
    <3>3. CanRealize(c.db, c.db.graph, op) => ~Extend(c, op, N + 1).failed
      BY <2>4 DEF Extend
    <3> QED
      BY <2>4, <3>2, <3>3
  <2>5. SUFFICES ASSUME NEW i \in 1..(N + 1),
                        log'[i].op.kind = "post_dependency.add",
                        history'[i + 1].failed, ~history'[i].failed
                 PROVE  log'[i].op.dom # history'[i].db.graph
    BY <2>1 DEF RefusedOnlyWhenStale
  <2>6. CASE i \in 1..N
    BY <2>1, <2>2, <2>5, <2>6 DEF RefusedOnlyWhenStale
  <2>7. CASE i = N + 1
    BY <2>1, <2>3, <2>4, <2>5, <2>7
  <2> QED
    BY <2>1, <2>6, <2>7
<1>3. CASE \E t \in Request : Serve(t) \/ \E m \in Node : Route(t, m)
  BY <1>1, <1>3, ServeFacts
<1>4. CASE UNCHANGED vars
           \/ \E n \in Node : ApplyTx(n) \/ ApplyDone(n) \/ LeaderChange(n)
  BY <1>1, <1>4 DEF vars, ApplyTx, ApplyDone, LeaderChange
<1> QED
  BY <1>2, <1>3, <1>4 DEF Next

----------------------------------------------------------------------------
(* Answers *)

\* A step that answers nobody.
LEMMA QuietFacts ==
    ASSUME TypeOK, BusyInv, NEW t \in Request,
           \/ \E m \in Node : Route(t, m)
           \/ RejectUnhealthy(t) \/ RejectReusedId(t) \/ Admit(t) \/ LockGraph(t)
           \/ ValidateEndpoints(t) \/ ValidateDuplicate(t) \/ ValidateCycle(t)
           \/ Recheck(t) \/ Propose(t) \/ GiveUp(t)
    PROVE  /\ req'[t].pc # "visible"
           /\ \/ req'[t].result = req[t].result
              \/ req'[t].pc = "done" /\ req'[t].result \in {"error", "unknown"}
<1>1. req[t] \in Progress /\ req[t].op \in Labelled /\ req[t].exec \in Node
      /\ req \in [Request -> Progress]
  BY DEF TypeOK, Progress
<1> USE DEF Steps
<1>2. CASE Return(t, "error") \/ Return(t, "unknown")
  BY <1>2, ReturnFacts
<1>3. CASE \E step \in Steps \ {"visible"} : Goto(t, step)
  BY <1>3, GotoFacts
<1>4. CASE \E m \in Node : Route(t, m)
  <2> PICK m \in Node : req' = [req EXCEPT ![t].pc = "check", ![t].node = m,
                                           ![t].exec = leader]
    BY <1>4 DEF Route
  <2>1. req'[t] = [req[t] EXCEPT !.pc = "check", !.node = m, !.exec = leader]
    BY <1>1
  <2> QED
    BY <1>1, <2>1 DEF Progress
<1>5. CASE LockGraph(t)
  BY <1>1, <1>5 DEF LockGraph, Progress
<1>6. CASE req' = [req EXCEPT ![t].pc = "recheck", ![t].seen = DbPos(req[t].exec)]
  BY <1>1, <1>6 DEF Progress
<1>7. CASE RejectUnhealthy(t) \/ RejectReusedId(t) \/ GiveUp(t)
  BY <1>2, <1>7 DEF RejectUnhealthy, RejectReusedId, GiveUp
<1>8. CASE Admit(t) \/ Propose(t) \/ Recheck(t)
  BY <1>2, <1>3, <1>8 DEF Admit, Propose, Recheck
<1>9. CASE ValidateEndpoints(t) \/ ValidateDuplicate(t)
  BY <1>2, <1>3, <1>9 DEF ValidateEndpoints, ValidateDuplicate
<1>10. CASE ValidateCycle(t)
  BY <1>2, <1>6, <1>10 DEF ValidateCycle
<1> QED
  BY <1>4, <1>5, <1>7, <1>8, <1>9, <1>10

\* What is taken for a retry is one.
LEMMA RetryOfSame ==
    ASSUME DistinctIntents, NEW op \in Labelled, NEW prior \in Labelled,
           op.id = prior.id, semanticallyEquivalent(op, prior)
    PROVE  SameIntent(op, prior)
<1> PICK i, j : i = [op EXCEPT !.dom = 0] /\ j = [prior EXCEPT !.dom = 0]
  OBVIOUS
<1>1. i \in Intents /\ j \in Intents /\ op \in Operation /\ prior \in Operation
  BY DEF Labelled
<1>2. /\ i.id = op.id /\ i.kind = op.kind /\ i.obj = op.obj
      /\ i.arg = op.arg /\ i.rev = op.rev
  BY <1>1 DEF Operation, PostOp, DeleteOp, DepOp, RuleOp, EnableOp
<1>3. /\ j.id = prior.id /\ j.kind = prior.kind /\ j.obj = prior.obj
      /\ j.arg = prior.arg /\ j.rev = prior.rev
  BY <1>1 DEF Operation, PostOp, DeleteOp, DepOp, RuleOp, EnableOp
<1>4. semanticallyEquivalent(i, j)
  BY <1>2, <1>3 DEF semanticallyEquivalent, RecordedEnabled
<1> QED
  BY <1>1, <1>2, <1>3, <1>4 DEF DistinctIntents, SameIntent

\* An entry that was applied with success has realised its intent.
LEMMA AppliedRealizes ==
    ASSUME TypeOK, HistoryInv, EntryInv, NEW t \in Request,
           NEW i \in 1..Len(log), log[i].by = t, ApplySucceeds(i)
    PROVE  RealizedAt(t, i)
<1> PICK op, b, a : op = log[i].op /\ b = history[i] /\ a = history[i + 1]
  OBVIOUS
<1>1. op = req[t].op /\ op \in Labelled
  BY DEF EntryInv, Faithful, TypeOK, Progress
<1>2. op.id \in OpId /\ op # NoOp /\ b.ops \in [OpId -> Labelled \cup {NoOp}]
  <2>1. i \in 1..Len(history)
    BY DEF TypeOK
  <2>2. b \in Outcome
    BY <2>1 DEF TypeOK
  <2> QED
    BY <1>1, <2>2, LabelledOp DEF Outcome
<1>3. a = Extend(b, op, i) /\ ~b.failed
  BY DEF HistoryInv, ApplySucceeds
<1>4. a.ops[op.id] = op
  <2>1. CASE b.ops[op.id] = NoOp
    <3>1. ~a.failed
      BY <2>1 DEF ApplySucceeds
    <3>2. CanRealize(b.db, b.db.graph, op)
      <4>1. CASE ~CanRealize(b.db, b.db.graph, op)
        <5>1. a = [b EXCEPT !.failed = TRUE]
          BY <1>3, <2>1, <4>1 DEF Extend
        <5>2. b \in Outcome
          BY DEF TypeOK
        <5>3. a.failed = TRUE
          BY <5>1, <5>2 DEF Outcome
        <5> QED
          BY <3>1, <5>3
      <4> QED
        BY <4>1
    <3>3. a.ops = [b.ops EXCEPT ![op.id] = op]
      BY <1>3, <2>1, <3>2 DEF Extend
    <3> QED
      BY <1>2, <3>3
  <2>2. CASE b.ops[op.id] # NoOp
    <3>1. a = b
      BY <1>3, <2>2 DEF Extend
    <3> QED
      BY <2>2, <3>1 DEF ApplySucceeds, SameDigest
  <2> QED
    BY <2>1, <2>2
<1> QED
  BY <1>1, <1>2, <1>4 DEF RealizedAt, MeaningAt, SameIntent

LEMMA AnswerStep ==
    ASSUME DistinctIntents, TypeOK, BusyInv, HistoryInv, EntryInv, AnswerInv,
           [Next]_vars
    PROVE  AnswerInv'
<1> SUFFICES ASSUME NEW s \in Request PROVE AnswerOK(s)'
  BY DEF AnswerInv
<1>0. /\ Len(log) \in Nat /\ pos \in [Node -> 0..Len(log)] /\ AnswerOK(s)
      /\ \A t \in Request : /\ req[t].op \in Labelled /\ req[t].op.id \in OpId
                            /\ req[t].node \in Node /\ req[t].exec \in Node
                            /\ req[t].index \in Nat
  BY LabelledOp DEF AnswerInv, TypeOK, Progress
<1>1. ASSUME NEW t \in Request, Serve(t) \/ \E m \in Node : Route(t, m)
      PROVE  AnswerOK(s)'
  <2>1. /\ UNCHANGED <<log, history, pos>> /\ req[t].pc # "done"
        /\ \A u \in Request \ {t} : req'[u] = req[u]
    BY <1>1, ServeFacts
  <2>2. CASE s # t
    BY <1>0, <2>1, <2>2 DEF AnswerOK, RealizedAt, MeaningAt
  <2>3. ASSUME s = t, NEW i \in 0..Len(log), Answer(t, i),
               RealizedAt(t, i), RealizedAt(t, pos[req[t].exec])
        PROVE  AnswerOK(s)'
    <3>1. /\ req'[t].op = req[t].op /\ req'[t].node = req[t].node
          /\ \/ /\ req'[t].pc = "done" /\ req'[t].result = "ok"
                /\ req[t].node = req[t].exec
             \/ /\ req'[t].pc = "visible" /\ req'[t].index = i
                /\ req'[t].result = req[t].result
      BY <1>0, <2>3, AnswerFacts
    <3>2. \A j \in 0..Len(log) : RealizedAt(t, j) => RealizedAt(t, j)'
      BY <2>1, <3>1 DEF RealizedAt, MeaningAt
    <3>3. req[t].result = "none"
      BY <1>0, <2>1, <2>3 DEF AnswerOK
    <3>4. CASE req'[t].pc = "done"
      <4> PICK p \in 0..Len(log) : p = pos[req[t].exec]
        BY <1>0
      <4>1. RealizedAt(t, p)' /\ p = pos'[req'[t].node]
        BY <2>1, <2>3, <3>1, <3>2, <3>4
      <4> QED
        BY <2>3, <3>4, <4>1 DEF AnswerOK
    <3>5. CASE req'[t].pc = "visible"
      <4>1. RealizedAt(t, i)' /\ i = req'[t].index /\ i <= Len(log')
        BY <1>0, <2>1, <2>3, <3>1, <3>2, <3>5
      <4>2. req'[t].result = "none"
        BY <3>1, <3>3, <3>5
      <4> QED
        BY <2>3, <3>5, <4>1, <4>2 DEF AnswerOK
    <3> QED
      BY <3>1, <3>4, <3>5
  <2>4. CASE s = t /\ AnswerPrior(t)
    <3> PICK x, id : x = req[t].exec /\ id = req[t].op.id
      OBVIOUS
    <3> PICK known : known = MeaningAt(pos[x]).ops[id]
      OBVIOUS
    <3>1. /\ known # NoOp /\ semanticallyEquivalent(req[t].op, known)
          /\ Answer(t, ResultIndex(id)) /\ pos[x] \in 0..Len(log) /\ id \in OpId
      BY <1>0, <2>4 DEF AnswerPrior, Prior, Memory
    <3>2. /\ ResultIndex(id) \in 1..Len(log)
          /\ MeaningAt(ResultIndex(id)).ops[id] = known
      BY <3>1, PriorIndex
    <3>3. known \in Labelled /\ known.id = id
      <4>1. MeaningAt(pos[x]) \in Outcome /\ pos[x] + 1 \in 1..Len(history)
        BY <3>1, MeaningFacts
      <4> QED
        BY <3>1, <4>1 DEF HistoryInv, MeaningAt, Outcome
    <3>4. SameIntent(req[t].op, known)
      BY <1>0, <3>1, <3>3, RetryOfSame
    <3>5. RealizedAt(t, ResultIndex(id)) /\ RealizedAt(t, pos[req[t].exec])
      BY <3>1, <3>2, <3>4 DEF RealizedAt
    <3>6. ResultIndex(id) \in 0..Len(log)
      BY <1>0, <3>2
    <3> QED
      BY <2>3, <2>4, <3>1, <3>5, <3>6
  <2>5. CASE s = t /\ Applied(t)
    <3> PICK i \in 1..pos[req[t].exec] :
               /\ log[i].by = t
               /\ \/ ApplySucceeds(i) /\ Answer(t, i)
                  \/ Return(t, "error")
      BY <2>5 DEF Applied
    <3>1. i \in 1..Len(log) /\ i \in 0..Len(log) /\ i <= pos[req[t].exec]
          /\ pos[req[t].exec] \in 0..Len(log)
      BY <1>0
    <3>2. CASE ApplySucceeds(i) /\ Answer(t, i)
      <4>1. RealizedAt(t, i)
        BY <3>1, <3>2, AppliedRealizes
      <4>2. RealizedAt(t, pos[req[t].exec])
        BY <3>1, <4>1, StaysRealized
      <4> QED
        BY <2>3, <2>5, <3>1, <3>2, <4>1, <4>2
    <3>3. CASE Return(t, "error")
      BY <2>5, <3>3, ReturnFacts DEF AnswerOK
    <3> QED
      BY <3>2, <3>3
  <2>6. CASE s = t /\ WaitApplied(t)
    <3> PICK p : p = pos[req[t].node]
      OBVIOUS
    <3>1. RealizedAt(t, req[t].index) /\ req[t].index <= Len(log)
          /\ req[t].index <= p /\ p \in 0..Len(log)
      BY <1>0, <2>6 DEF AnswerOK, WaitApplied, At
    <3>2. RealizedAt(t, p)
      <4>1. req[t].index \in 0..Len(log)
        BY <1>0, <3>1
      <4> QED
        BY <3>1, <4>1, StaysRealized
    <3>3. /\ req'[t].op = req[t].op /\ req'[t].node = req[t].node
          /\ req'[t].pc = "done" /\ req'[t].result = "ok"
      BY <2>6, ReturnFacts DEF WaitApplied
    <3>4. RealizedAt(t, p)' /\ p = pos'[req'[t].node]
      BY <2>1, <3>2, <3>3 DEF RealizedAt, MeaningAt
    <3> QED
      BY <2>6, <3>3, <3>4 DEF AnswerOK
  <2>7. CASE s = t /\ ~(AnswerPrior(t) \/ Applied(t) \/ WaitApplied(t))
    <3>1. /\ req'[t].pc # "visible"
          /\ \/ req'[t].result = req[t].result
             \/ req'[t].pc = "done" /\ req'[t].result \in {"error", "unknown"}
      BY <1>1, <2>7, QuietFacts DEF Serve
    <3>2. req[t].result = "none"
      BY <1>0, <2>1, <2>7 DEF AnswerOK
    <3> QED
      BY <2>7, <3>1, <3>2 DEF AnswerOK
  <2> QED
    BY <2>2, <2>4, <2>5, <2>6, <2>7
<1>2. CASE Commit
  <2>1. /\ UNCHANGED <<pos, req>> /\ Len(log') = Len(log) + 1
        /\ \A i \in 0..Len(log) : MeaningAt(i)' = MeaningAt(i)
    BY <1>2, CommitFacts DEF Commit
  <2>2. \A i \in 0..Len(log) : RealizedAt(s, i) => RealizedAt(s, i)'
    BY <2>1 DEF RealizedAt
  <2>3. ASSUME req[s].pc = "visible"
        PROVE  req'[s].index <= Len(log') /\ RealizedAt(s, req[s].index)'
    <3> PICK j : j = req[s].index
      OBVIOUS
    <3>1. RealizedAt(s, j) /\ j \in 0..Len(log)
      BY <1>0, <2>3 DEF AnswerOK
    <3>2. RealizedAt(s, j)' /\ j = req'[s].index /\ j <= Len(log')
      BY <1>0, <2>1, <2>2, <3>1
    <3> QED
      BY <3>2
  <2>4. ASSUME req[s].result = "ok" PROVE RealizedAt(s, pos[req[s].node])'
    <3> PICK p \in 0..Len(log) : p = pos[req[s].node]
      BY <1>0
    <3>1. RealizedAt(s, p)' /\ p = pos'[req'[s].node]
      BY <1>0, <2>1, <2>2, <2>4 DEF AnswerOK
    <3> QED
      BY <3>1
  <2> QED
    BY <1>0, <2>1, <2>3, <2>4 DEF AnswerOK
<1>3. ASSUME NEW n \in Node, ApplyDone(n) PROVE AnswerOK(s)'
  <2>1. UNCHANGED <<log, history, req>> /\ busy[n]
        /\ pos' = [pos EXCEPT ![n] = pos[n] + 1]
    BY <1>3 DEF ApplyDone
  <2>2. \A j : RealizedAt(s, j) => RealizedAt(s, j)'
    BY <2>1 DEF RealizedAt, MeaningAt
  <2>3. ASSUME req[s].result = "ok" PROVE RealizedAt(s, pos[req[s].node])'
    <3> PICK p, q : p = pos[req[s].node] /\ q = pos'[req[s].node]
      OBVIOUS
    <3>1. p \in 0..Len(log) /\ q \in 0..Len(log) /\ p <= q
      BY <1>0, <2>1 DEF BusyInv
    <3>2. RealizedAt(s, q)
      BY <1>0, <2>3, <3>1, StaysRealized DEF AnswerOK
    <3>3. RealizedAt(s, q)' /\ q = pos'[req'[s].node]
      BY <2>1, <2>2, <3>2
    <3> QED
      BY <3>3
  <2> QED
    BY <1>0, <2>1, <2>2, <2>3 DEF AnswerOK
<1>4. CASE UNCHANGED vars \/ \E n \in Node : ApplyTx(n) \/ LeaderChange(n)
  <2>1. UNCHANGED <<log, history, pos, req>>
    BY <1>4 DEF vars, ApplyTx, LeaderChange
  <2> QED
    BY <1>0, <2>1 DEF AnswerOK, RealizedAt, MeaningAt
<1> QED
  BY <1>1, <1>2, <1>3, <1>4 DEF Next

----------------------------------------------------------------------------
(* The theorems *)

LEMMA InitEmpty ==
    Init => GraphInv /\ EntryInv /\ AnswerInv /\ RefusedOnlyWhenStale
<1> SUFFICES ASSUME Init
             PROVE  GraphInv /\ EntryInv /\ AnswerInv /\ RefusedOnlyWhenStale
  OBVIOUS
<1>1. /\ Len(log) = 0 /\ Len(queue) = 0
      /\ \A t \in Request : req[t].pc = "idle" /\ req[t].result = "none"
  BY DEF Init
<1>2. GraphInv
  BY <1>1 DEF GraphInv, GraphOK
<1>3. EntryInv
  BY <1>1 DEF EntryInv
<1>4. AnswerInv
  BY <1>1 DEF AnswerInv, AnswerOK
<1>5. RefusedOnlyWhenStale
  BY <1>1 DEF RefusedOnlyWhenStale
<1> QED
  BY <1>2, <1>3, <1>4, <1>5

\* The log and its meanings stay well formed while leaders change and requests
\* are admitted: each meaning follows from the one before it, what is known
\* stays known, and the graph revision never goes back (FSM.Apply).
THEOREM TypeCorrect == Spec => [](TypeOK /\ BusyInv /\ HistoryInv)
<1>1. Init => TypeOK /\ BusyInv /\ HistoryInv
  BY InitFacts
<1>2. TypeOK /\ BusyInv /\ HistoryInv /\ [Next]_vars
      => (TypeOK /\ BusyInv /\ HistoryInv)'
  BY TypeStep, HistoryStep
<1> QED
  BY <1>1, <1>2, PTL DEF Spec

\* The database a validation reads may run ahead of the revision captured in
\* memory, but what was validated before the revision was found unchanged was
\* the graph of that revision (Adapter.graphMu, graphPropose).
THEOREM LabelTheorem == Spec => []ValidatedAtLabel
<1>1. Init => GraphInv /\ EntryInv
  BY InitEmpty
<1>2. TypeOK /\ BusyInv /\ HistoryInv /\ GraphInv /\ EntryInv /\ [Next]_vars
      => GraphInv' /\ EntryInv'
  BY GraphStep, EntryStep
<1>3. GraphInv /\ EntryInv => ValidatedAtLabel
  <2> SUFFICES ASSUME GraphInv, EntryInv, NEW t \in Request,
                      req[t].op.kind = "post_dependency.add",
                      \/ req[t].pc \in {"propose", "wait"}
                      \/ \E i \in 1..Len(queue) : queue[i].by = t
                      \/ \E i \in 1..Len(log) : log[i].by = t
               PROVE  MeaningAt(req[t].seen).db.graph = req[t].op.dom
    BY DEF ValidatedAtLabel
  <2>1. CASE req[t].pc = "propose"
    BY <2>1 DEF GraphInv, GraphOK
  <2>2. CASE LabelOK(t)
    BY <2>2 DEF LabelOK
  <2>3. req[t].pc # "propose" => LabelOK(t)
    BY DEF EntryInv, Faithful
  <2> QED
    BY <2>1, <2>2, <2>3
<1> QED
  BY <1>1, <1>2, <1>3, TypeCorrect, PTL DEF Spec

\* The graph revision stands for all that the validation of an edge looked at:
\* posts and edges may only have changed under it if it has moved, so no
\* validated edge is refused at its own revision (applyDependencyAdd).
THEOREM StaleTheorem == Spec => []RefusedOnlyWhenStale
<1>1. Init => GraphInv /\ EntryInv /\ RefusedOnlyWhenStale
  BY InitEmpty
<1>2. /\ TypeOK /\ BusyInv /\ HistoryInv /\ GraphInv /\ EntryInv
      /\ RefusedOnlyWhenStale /\ [Next]_vars
      => GraphInv' /\ EntryInv' /\ RefusedOnlyWhenStale'
  BY GraphStep, EntryStep, RefusedStep
<1> QED
  BY <1>1, <1>2, TypeCorrect, PTL DEF Spec

\* Success is durable and visible where it was reported, whatever the leader
\* changes, forwarding, retries and duplicates, as long as no client reuses an
\* ID for an intent that the adapter takes for a retry (proposeOp,
\* semanticallyEquivalent, Node.WaitApplied).
THEOREM SuccessTheorem ==
    ASSUME DistinctIntents PROVE Spec => []SuccessIsRealized
<1>1. Init => GraphInv /\ EntryInv /\ AnswerInv
  BY InitEmpty
<1>2. /\ TypeOK /\ BusyInv /\ HistoryInv /\ GraphInv /\ EntryInv /\ AnswerInv
      /\ [Next]_vars
      => GraphInv' /\ EntryInv' /\ AnswerInv'
  BY GraphStep, EntryStep, AnswerStep
<1>3. AnswerInv => SuccessIsRealized
  BY DEF AnswerInv, AnswerOK, RealizedAt, SuccessIsRealized, Memory
<1> QED
  BY <1>1, <1>2, <1>3, TypeCorrect, PTL DEF Spec

=============================================================================
