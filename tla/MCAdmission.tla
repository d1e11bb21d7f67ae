----------------------------- MODULE MCAdmission -----------------------------
(* Instances of Admission for TLC: posts p1, p2 exist (version 1), and     *)
(* requests draw their intents from the set below.                         *)
EXTENDS Admission, TLC

CONSTANTS p1, p2, u1, b1, b2

Intent(id, kind, obj, arg, rev) ==
    [id |-> id, kind |-> kind, obj |-> obj, arg |-> arg, rev |-> rev,
     dom |-> 0]

SeedTables == [EmptyTables EXCEPT
                 !.posts = [p \in Post |-> [version |-> 1, body |-> b1]]]

\* An operation is an intent labelled with one of the first graph revisions.
WithLabels(intents) == {[i EXCEPT !.dom = g] : i \in intents, g \in 0..3}

AddDep(id, p, q) == Intent(id, "post_dependency.add", p, q, 0)
Delete(id, p)    == Intent(id, "post.delete", p, "null", 0)
Update(id, p, b, v) == Intent(id, "post.update", p, b, v)

\* Graph mutations that contradict each other, and an update that uses the
\* ID of one of them and is made for a version that does not exist.
MixedIntents == {AddDep("e1", p1, p2), AddDep("e2", p2, p1), Delete("d1", p2),
                 Update("e1", p1, b2, 2)}
MixedOps == WithLabels(MixedIntents)

Ids(intents) == {i.id : i \in intents}
MixedIds == Ids(MixedIntents)

\* The instance meets the hypothesis under which success is proved.
ASSUME DistinctAssumption == DistinctIntents

==============================================================================
