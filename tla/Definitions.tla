----------------------------- MODULE Definitions -----------------------------
(***************************************************************************)
(* The replicated definitions of Watchpost - posts, dependency edges and   *)
(* rules - and what one committed operation does to them: the six apply    *)
(* functions of internal/replicated/fsm.go as operators.                   *)
(***************************************************************************)
EXTENDS Integers, Sequences

CONSTANTS Post, Rule,      \* identifiers of posts and rules
          Body,            \* post contents, as far as two of them differ
          OpId,            \* operation identities (request or generated IDs)
          Ops,             \* the operations that may get committed
          NoRow, NoOp      \* "no such row", "operation ID not known"

----------------------------------------------------------------------------
(* Data *)

PostRow == [version : Nat, body : Body]
RuleRow == [post : Post, enabled : BOOLEAN, version : Nat]

\* replication.Operation: rev is the object precondition, dom the graph
\* revision the operation was validated against.
PostOp   == [id : OpId, kind : {"post.create", "post.update"}, obj : Post,
             arg : Body, rev : Nat, dom : Nat]
DeleteOp == [id : OpId, kind : {"post.delete"}, obj : Post,
             arg : {"null"}, rev : Nat, dom : Nat]
DepOp    == [id : OpId, kind : {"post_dependency.add"}, obj : Post,
             arg : Post, rev : Nat, dom : Nat]
RuleOp   == [id : OpId, kind : {"rule.create"}, obj : Rule,
             arg : [post : Post, enabled : BOOLEAN], rev : Nat, dom : Nat]
EnableOp == [id : OpId, kind : {"rule.set_enabled"}, obj : Rule,
             arg : BOOLEAN, rev : Nat, dom : Nat]

Operation == PostOp \cup DeleteOp \cup DepOp \cup RuleOp \cup EnableOp

\* The replicated tables and the _replicated_meta row: graph is
\* graph_revision, index is applied_index (0 when the row is absent).
Tables == [posts : [Post -> PostRow \cup {NoRow}],
           deps  : SUBSET (Post \X Post),
           rules : [Rule -> RuleRow \cup {NoRow}],
           graph : Nat,
           index : Nat]

OpTable == [OpId -> Ops \cup {NoOp}]

EmptyTables == [posts |-> [p \in Post |-> NoRow],
                deps  |-> {},
                rules |-> [u \in Rule |-> NoRow],
                graph |-> 0,
                index |-> 0]

NoOps == [o \in OpId |-> NoOp]

\* The meaning of a log prefix: its tables, the operations it has realised
\* by ID, and whether it contains an operation that cannot be realised.
Meaning == [db : Tables, ops : OpTable, failed : BOOLEAN]

ASSUME OpsAssumption == Ops \subseteq Operation
ASSUME NoOpAssumption == NoOp \notin Operation
ASSUME NoRowAssumption == NoRow \notin PostRow \cup RuleRow

----------------------------------------------------------------------------
(* The six apply functions: when the transaction succeeds on tables d at   *)
(* in-memory graph revision g, and the tables it leaves.                   *)

Present(d, p) == d.posts[p] # NoRow

\* The posts that p depends on, directly or through others (the reach CTE).
Reach(deps, p) ==
    {q \in Post : \A S \in SUBSET Post :
        (/\ \A s \in Post : <<p, s>> \in deps => s \in S
         /\ \A s \in S, t \in Post : <<s, t>> \in deps => t \in S)
        => q \in S}

CanPostCreate(d, op) == ~Present(d, op.obj)
applyPostCreate(d, op) ==
    [d EXCEPT !.posts[op.obj] = [version |-> 1, body |-> op.arg]]

CanPostUpdate(d, op) ==
    /\ Present(d, op.obj)
    /\ d.posts[op.obj].version = op.rev
applyPostUpdate(d, op) ==
    [d EXCEPT !.posts[op.obj] = [version |-> op.rev + 1, body |-> op.arg]]

CanPostDelete(d, g, op) ==
    /\ op.dom = g
    /\ Present(d, op.obj)
\* Defect: the rules of the post are left behind.
DeleteKeepsRules(d, op) ==
    [d EXCEPT !.posts[op.obj] = NoRow,
              !.deps = {e \in @ : e[1] # op.obj /\ e[2] # op.obj}]
applyPostDelete(d, op) ==
    [d EXCEPT !.posts[op.obj] = NoRow,
              !.deps  = {e \in @ : e[1] # op.obj /\ e[2] # op.obj},
              !.rules = [u \in Rule |-> IF /\ d.rules[u] # NoRow
                                           /\ d.rules[u].post = op.obj
                                        THEN NoRow ELSE d.rules[u]]]

CanDependencyAdd(d, g, op) ==
    /\ op.dom = g
    /\ op.obj # op.arg
    /\ Present(d, op.obj) /\ Present(d, op.arg)
    /\ <<op.obj, op.arg>> \notin d.deps
    /\ op.obj \notin Reach(d.deps, op.arg)
applyDependencyAdd(d, op) ==
    [d EXCEPT !.deps = @ \cup {<<op.obj, op.arg>>}]

CanRuleCreate(d, op) ==
    /\ d.rules[op.obj] = NoRow
    /\ Present(d, op.arg.post)
applyRuleCreate(d, op) ==
    [d EXCEPT !.rules[op.obj] = [post |-> op.arg.post,
                                 enabled |-> op.arg.enabled,
                                 version |-> 1]]

CanRuleSetEnabled(d, op) ==
    /\ d.rules[op.obj] # NoRow
    /\ d.rules[op.obj].version = op.rev
applyRuleSetEnabled(d, op) ==
    [d EXCEPT !.rules[op.obj] = [post |-> @.post, enabled |-> op.arg,
                                 version |-> op.rev + 1]]

CanRealize(d, g, op) ==
    CASE op.kind = "post.create"         -> CanPostCreate(d, op)
      [] op.kind = "post.update"         -> CanPostUpdate(d, op)
      [] op.kind = "post.delete"         -> CanPostDelete(d, g, op)
      [] op.kind = "post_dependency.add" -> CanDependencyAdd(d, g, op)
      [] op.kind = "rule.create"         -> CanRuleCreate(d, op)
      [] op.kind = "rule.set_enabled"    -> CanRuleSetEnabled(d, op)

Effect(d, op) ==
    CASE op.kind = "post.create"         -> applyPostCreate(d, op)
      [] op.kind = "post.update"         -> applyPostUpdate(d, op)
      [] op.kind = "post.delete"         -> applyPostDelete(d, op)
      [] op.kind = "post_dependency.add" -> applyDependencyAdd(d, op)
      [] op.kind = "rule.create"         -> applyRuleCreate(d, op)
      [] op.kind = "rule.set_enabled"    -> applyRuleSetEnabled(d, op)

\* The graph revision after op: deletes and new edges advance it.
NewGraphRev(g, op) ==
    IF op.kind \in {"post.delete", "post_dependency.add"} THEN g + 1 ELSE g

\* Defect: the transaction does not store the log index.
RealizeWithoutMeta(d, g, op, i) ==
    [Effect(d, op) EXCEPT !.graph = NewGraphRev(g, op)]

\* writeMeta stores the log index and the graph revision in the transaction
\* of the mutation.
Realize(d, g, op, i) ==
    [Effect(d, op) EXCEPT !.graph = NewGraphRev(g, op), !.index = i]

\* What one more committed entry adds to the meaning of the log.
Extend(c, op, i) ==
    IF c.failed \/ c.ops[op.id] # NoOp THEN c
    ELSE IF CanRealize(c.db, c.db.graph, op)
         THEN [db     |-> Realize(c.db, c.db.graph, op, i),
               ops    |-> [c.ops EXCEPT ![op.id] = op],
               failed |-> FALSE]
         ELSE [c EXCEPT !.failed = TRUE]
==============================================================================
