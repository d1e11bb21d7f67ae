--------------------------- MODULE MCReplicatedFSM ---------------------------
(* Instances of ReplicatedFSM for TLC: two posts, one rule, and operation  *)
(* sets chosen so that every apply function succeeds and fails somewhere.  *)
EXTENDS ReplicatedFSM, TLC

CONSTANTS r1, r2, p1, p2, u1, b1, b2

Create(id, p, b)   == [id |-> id, kind |-> "post.create", obj |-> p,
                       arg |-> b, rev |-> 0, dom |-> 0]
Update(id, p, b, v) == [id |-> id, kind |-> "post.update", obj |-> p,
                       arg |-> b, rev |-> v, dom |-> 0]
Delete(id, p, g)   == [id |-> id, kind |-> "post.delete", obj |-> p,
                       arg |-> "null", rev |-> 0, dom |-> g]
AddDep(id, p, q, g) == [id |-> id, kind |-> "post_dependency.add", obj |-> p,
                       arg |-> q, rev |-> 0, dom |-> g]
NewRule(id, u, p)  == [id |-> id, kind |-> "rule.create", obj |-> u,
                       arg |-> [post |-> p, enabled |-> TRUE],
                       rev |-> 0, dom |-> 0]
SetRule(id, u, e, v) == [id |-> id, kind |-> "rule.set_enabled", obj |-> u,
                       arg |-> e, rev |-> v, dom |-> 0]

\* Replication: creates, an update, a retry of it with a different payload
\* under the same identity, and a delete.
ReplicationOps ==
    {Create("c1", p1, b1), Update("w1", p1, b2, 1), Update("w1", p1, b1, 2),
     Delete("d1", p1, 0)}
ReplicationIds == {"c1", "w1", "d1"}

\* Definitions: two posts, both directions of an edge, a rule with a change
\* to it, and deletes of a post that is referred to.
DefinitionOps ==
    {Create("c1", p1, b1), Create("c2", p2, b1),
     AddDep("e1", p1, p2, 0), AddDep("e2", p2, p1, 1),
     NewRule("n1", u1, p2), SetRule("s1", u1, FALSE, 1),
     Delete("d1", p2, 0), Delete("d2", p2, 1)}
DefinitionIds == {"c1", "c2", "e1", "e2", "n1", "s1", "d1", "d2"}
============================================================================
