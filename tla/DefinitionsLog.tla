---------------------------- MODULE DefinitionsLog ----------------------------
(***************************************************************************)
(* What replication promises about the posts, dependency edges and rules   *)
(* that a node serves: there is one growing sequence of published states,  *)
(* every node serves one of them, and a node only ever moves forward. A    *)
(* node that restores a snapshot of an unsettled node has lost its place:  *)
(* nothing is promised of it until it finds one of the states again.       *)
(***************************************************************************)
EXTENDS Naturals, Sequences

CONSTANTS Replica, Start, Nothing

VARIABLES published,  \* the sequence of states, oldest first
          pos,        \* pos[r]: which of them node r serves, 0 if it is lost
          view        \* view[r]: the state node r serves

vars == <<published, pos, view>>

Init ==
    /\ published = <<Start>>
    /\ pos = [r \in Replica |-> 1]
    /\ view = [r \in Replica |-> Start]

Publish ==
    /\ Len(published') = Len(published) + 1
    /\ \A n \in 1..Len(published) : published'[n] = published[n]
    /\ UNCHANGED <<pos, view>>

Advance(r) ==
    /\ \E n \in pos[r] + 1 .. Len(published) :
          /\ pos' = [pos EXCEPT ![r] = n]
          /\ view' = [view EXCEPT ![r] = published[n]]
    /\ UNCHANGED published

Lose(r) ==
    /\ pos' = [pos EXCEPT ![r] = 0]
    /\ view' = [view EXCEPT ![r] = Nothing]
    /\ UNCHANGED published

Next == Publish \/ \E r \in Replica : Advance(r) \/ Lose(r)

Spec == Init /\ [][Next]_vars
=============================================================================
