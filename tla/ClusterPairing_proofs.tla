----------------------- MODULE ClusterPairing_proofs -----------------------
(***************************************************************************)
(* Proofs about the hand-off of credentials between two nodes: types and   *)
(* references, what holds whatever overlaps (Facts), what holds while      *)
(* nothing does (Exchange), and from these the inductive invariant IInv    *)
(* and the two properties of the hand-off.                                 *)
(***************************************************************************)
EXTENDS ClusterPairing, TLAPS

LEMMA Peers == /\ Peer("host") = "joiner" /\ Peer("joiner") = "host"
               /\ \A n \in Node : Peer(n) \in Node /\ Peer(n) # n
               /\ \A n \in Node : Peer(Peer(n)) = n
               /\ \A n, m \in Node : m = n \/ m = Peer(n)
<1>1. Peer("host") = "joiner"
  BY DEF Peer, Node
<1>2. Peer("joiner") = "host"
  BY DEF Peer, Node
<1> QED
  BY <1>1, <1>2 DEF Node

----------------------------------------------------------------------------
(* What each action does, in the terms the invariants speak in             *)

\* One row of cluster_members is replaced.
LEMMA RowReplaced ==
    ASSUME TypeOK, NEW n \in Node, NEW r \in Member \cup {None},
           member' = [member EXCEPT ![n] = r]
    PROVE  /\ member' \in [Node -> Member \cup {None}]
           /\ member'[n] = r /\ member'[Peer(n)] = member[Peer(n)]
  BY Peers DEF TypeOK

\* The row that Decide and AcceptRemote leave.
LEMMA UpsertedRow ==
    ASSUME TypeOK, NEW n \in Node, NEW in \in Credential \cup {Unknown},
           NEW out \in Credential
    PROVE  /\ Upserted(n, in, out) \in Member
           /\ Upserted(n, in, out).inbound = in
           /\ Upserted(n, in, out).outbound = out
           /\ Upserted(n, in, out).state = "active"
<1>1. CASE member[n] = None
  BY <1>1 DEF Upserted, Member
<1>2. CASE member[n] # None
  <2>1. member[n] \in Member
    BY <1>2 DEF TypeOK
  <2>2. Upserted(n, in, out) = [member[n] EXCEPT !.state = "active",
                                  !.inbound = in, !.outbound = out]
    BY <1>2 DEF Upserted
  <2> QED
    BY <1>2, <2>1, <2>2 DEF Member
<1> QED
  BY <1>1, <1>2

LEMMA UpsertedPending ==
    ASSUME TypeOK, NEW n \in Node, NEW in, NEW out
    PROVE  /\ member[n] = None => /\ Upserted(n, in, out).pending = None
                                  /\ Upserted(n, in, out).live = FALSE
           /\ member[n] # None =>
                 /\ Upserted(n, in, out).pending = member[n].pending
                 /\ Upserted(n, in, out).live = member[n].live
<1>1. CASE member[n] = None
  BY <1>1 DEF Upserted
<1>2. CASE member[n] # None
  <2>1. member[n] \in Member
    BY <1>2 DEF TypeOK
  <2>2. Upserted(n, in, out) = [member[n] EXCEPT !.state = "active",
                                  !.inbound = in, !.outbound = out]
    BY <1>2 DEF Upserted
  <2> QED
    BY <1>2, <2>1, <2>2 DEF Member
<1> QED
  BY <1>1, <1>2

LEMMA SubmitJoinEffect ==
    ASSUME TypeOK, Rows, SubmitJoin
    PROVE  \E i \in Id, q \in Invitation, c \in Credential :
             /\ i = begin.inv /\ c = Fresh /\ issued' = c /\ c \in 1..MaxCredential
             /\ invitations[i] \in Invitation /\ invitations[i].state = "pending"
             /\ invitations' = [invitations EXCEPT ![i] = q]
             /\ q.state = "consumed"
             /\ requests' = [requests EXCEPT
                               ![i] = [state |-> "pending", live |-> TRUE, cred |-> c]]
             /\ begin' = [step |-> "answered", inv |-> i, cred |-> c]
             /\ UNCHANGED <<joins, member, nonces, auth, carried, collect, history>>
<1> DEFINE i == begin.inv
<1>1. begin \in BeginStep /\ i \in Id
  BY DEF TypeOK, SubmitJoin, BeginStep
<1>2. invitations[i] \in Invitation
  BY <1>1 DEF TypeOK, Rows, SubmitJoin
<1>3. Fresh \in Credential /\ Fresh \in 1..MaxCredential /\ issued' = Fresh
  BY BoundsAssumption DEF SubmitJoin, Issue, Fresh, Credential, TypeOK
<1> DEFINE q == [invitations[i] EXCEPT !.state = "consumed"]
<1>4. q \in Invitation /\ q.state = "consumed"
  BY <1>2 DEF Invitation
<1>5. invitations' = [invitations EXCEPT ![i] = q]
  BY <1>1 DEF SubmitJoin, TypeOK
<1> HIDE DEF q
<1> QED
  BY <1>1, <1>2, <1>3, <1>4, <1>5 DEF SubmitJoin, peers

LEMMA RecordJoinEffect ==
    ASSUME TypeOK, RecordJoin
    PROVE  \E r \in Join :
             /\ r.req = begin.inv /\ r.cred = begin.cred /\ r.state = "pending"
             /\ r.req \in Id /\ r.cred \in Credential
             /\ joins' = Append(joins, r) /\ joins' \in Seq(Join)
             /\ Len(joins') = Len(joins) + 1 /\ Len(joins) \in Nat
             /\ joins'[Len(joins')] = r
             /\ \A j \in 1..Len(joins) : joins'[j] = joins[j]
<1> DEFINE r == [req |-> begin.inv, cred |-> begin.cred, state |-> "pending"]
<1>1. begin.inv \in Id /\ begin.cred \in Credential
  BY DEF TypeOK, RecordJoin, BeginStep
<1>2. r \in Join /\ r.req = begin.inv /\ r.cred = begin.cred /\ r.state = "pending"
  BY <1>1 DEF Join
<1>3. joins' = Append(joins, r) /\ joins \in Seq(Join)
  BY DEF RecordJoin, TypeOK
<1> HIDE DEF r
<1> QED
  BY <1>1, <1>2, <1>3

LEMMA DecideEffect ==
    ASSUME TypeOK, NEW i \in Id, NEW approve \in BOOLEAN, Decide(i, approve)
    PROVE  /\ requests[i] \in Request
           /\ requests[i].state = "pending" /\ requests[i].live
           /\ \E q \in Request :
                /\ requests' = [requests EXCEPT ![i] = q]
                /\ q.state = IF approve THEN "approved" ELSE "rejected"
                /\ q.live = requests[i].live /\ q.cred = requests[i].cred
           /\ approve =>
                /\ \E r \in Member :
                     /\ member' = [member EXCEPT !["host"] = r]
                     /\ r.inbound = Unknown /\ r.outbound = requests[i].cred
                     /\ r.state = "active"
                     /\ member["host"] = None => r.pending = None /\ r.live = FALSE
                     /\ member["host"] # None =>
                           /\ r.pending = member["host"].pending
                           /\ r.live = member["host"].live
                /\ lastApproved' = i
           /\ ~approve => UNCHANGED <<member, lastApproved>>
<1>1. requests[i] \in Request /\ requests[i].state = "pending" /\ requests[i].live
  BY DEF TypeOK, Decide
<1> DEFINE q == [requests[i] EXCEPT !.state = IF approve THEN "approved" ELSE "rejected"]
<1>2. requests' = [requests EXCEPT ![i] = q]
  BY DEF TypeOK, Decide
<1>3. /\ q \in Request /\ q.state = IF approve THEN "approved" ELSE "rejected"
      /\ q.live = requests[i].live /\ q.cred = requests[i].cred
  BY <1>1 DEF Request
<1>4. requests[i].cred \in Credential
  BY <1>1 DEF Request
<1>8. "host" \in Node /\ Unknown \in Credential \cup {Unknown}
  BY DEF Node
<1> DEFINE r == Upserted("host", Unknown, requests[i].cred)
<1>5. /\ r \in Member /\ r.inbound = Unknown /\ r.outbound = requests[i].cred
      /\ r.state = "active"
  BY <1>4, <1>8, UpsertedRow
<1>9. /\ member["host"] = None => r.pending = None /\ r.live = FALSE
      /\ member["host"] # None => /\ r.pending = member["host"].pending
                                  /\ r.live = member["host"].live
  BY <1>8, UpsertedPending
<1>6. approve => /\ member' = [member EXCEPT !["host"] = r]
                 /\ lastApproved' = i
  BY DEF Decide
<1>7. ~approve => UNCHANGED <<member, lastApproved>>
  BY DEF Decide
<1> HIDE DEF q, r
<1> QED
  BY <1>1, <1>2, <1>3, <1>5, <1>6, <1>7, <1>9

LEMMA ExpireEffect ==
    ASSUME TypeOK, NEW i \in Id, Expire(i)
    PROVE  \/ /\ invitations[i] \in Invitation
              /\ \E q \in Invitation : /\ invitations' = [invitations EXCEPT ![i] = q]
                                       /\ q.state = invitations[i].state
              /\ UNCHANGED requests
           \/ /\ requests[i] \in Request /\ requests[i].state = "pending"
              /\ requests[i].live
              /\ \E q \in Request : /\ requests' = [requests EXCEPT ![i] = q]
                                    /\ q.state = "pending" /\ q.live = FALSE
                                    /\ q.cred = requests[i].cred
              /\ UNCHANGED invitations
<1>1. CASE /\ invitations[i] # None
           /\ invitations' = [invitations EXCEPT ![i].live = FALSE]
           /\ UNCHANGED requests
  <2>1. invitations[i] \in Invitation
    BY <1>1 DEF TypeOK
  <2> DEFINE q == [invitations[i] EXCEPT !.live = FALSE]
  <2>2. q \in Invitation /\ q.state = invitations[i].state
    BY <2>1 DEF Invitation
  <2>3. invitations' = [invitations EXCEPT ![i] = q]
    BY <1>1 DEF TypeOK
  <2> HIDE DEF q
  <2> QED
    BY <1>1, <2>1, <2>2, <2>3
<1>2. CASE /\ requests[i] # None /\ requests[i].state = "pending"
           /\ requests[i].live
           /\ requests' = [requests EXCEPT ![i].live = FALSE]
           /\ UNCHANGED invitations
  <2>1. requests[i] \in Request
    BY <1>2 DEF TypeOK
  <2> DEFINE q == [requests[i] EXCEPT !.live = FALSE]
  <2>2. /\ q \in Request /\ q.state = "pending" /\ q.live = FALSE
        /\ q.cred = requests[i].cred
    BY <1>2, <2>1 DEF Request
  <2>3. requests' = [requests EXCEPT ![i] = q]
    BY <1>2 DEF TypeOK
  <2> HIDE DEF q
  <2> QED
    BY <1>2, <2>1, <2>2, <2>3
<1> QED
  BY <1>1, <1>2 DEF Expire

\* What collector k knows of its join, and the request of that join.
LEMMA CollectRow ==
    ASSUME TypeOK, Rows, NEW k \in Collectors, collect[k] # None
    PROVE  /\ collect[k] \in Collect
           /\ collect[k].join \in 1..Len(joins) /\ Len(joins) \in Nat
           /\ joins[collect[k].join] \in Join
           /\ joins[collect[k].join].req \in Id
           /\ joins[collect[k].join].cred \in Credential
           /\ requests[joins[collect[k].join].req] \in Request
           /\ collect[k].step # "calling" => collect[k].result \in Result
<1>1. collect[k] \in Collect /\ collect[k].join \in 1..Len(joins)
  BY DEF TypeOK, Rows
<1>2. joins[collect[k].join] \in Join /\ Len(joins) \in Nat
  BY <1>1 DEF TypeOK
<1>3. joins[collect[k].join].req \in Id /\ joins[collect[k].join].cred \in Credential
  BY <1>2 DEF Join
<1>4. requests[joins[collect[k].join].req] \in Request
  BY <1>1, <1>3 DEF TypeOK, Rows
<1> QED
  BY <1>1, <1>2, <1>3, <1>4 DEF Collect

\* An answer of Poll without a credential, an error, or a new credential.
Told(k, i) ==
    \E c \in Collect :
       /\ collect' = [collect EXCEPT ![k] = c]
       /\ c.step = "answered" /\ c.join = collect[k].join
       /\ c.result.state # "approved"
       /\ c.result.state = "rejected" => requests[i].state = "rejected"
       /\ c.result.state = "expired" => requests[i].state = "pending" /\ ~requests[i].live
       /\ UNCHANGED <<requests, member, issued, leftover>>

Failed(k) ==
    /\ collect' = [collect EXCEPT ![k] = None]
    /\ UNCHANGED <<requests, member, issued, leftover>>

Given(k, i) ==
    /\ issued < MaxCredential /\ issued' = Fresh /\ Fresh \in Credential
    /\ requests[i].state \in {"approved", "consumed"}
    /\ \E c \in Collect :
       /\ collect' = [collect EXCEPT ![k] = c]
       /\ c.step = "answered" /\ c.join = collect[k].join
       /\ c.result.state = "approved" /\ c.result.cred = Fresh
    /\ \E q \in Request :
       /\ requests' = [requests EXCEPT ![i] = q]
       /\ q.state = "consumed" /\ q.cred = requests[i].cred
    /\ member["host"] = None => UNCHANGED member
    /\ member["host"] # None =>
       \E r \in Member :
          /\ member' = [member EXCEPT !["host"] = r]
          /\ r.inbound = Fresh /\ r.outbound = member["host"].outbound
          /\ r.pending = member["host"].pending /\ r.live = member["host"].live
          /\ r.state = member["host"].state
    /\ leftover' = nonces

LEMMA PollEffect ==
    ASSUME TypeOK, Rows, NEW k \in Collectors, Poll(k),
           NEW i, i = joins[collect[k].join].req
    PROVE  /\ i \in Id /\ requests[i] \in Request
           /\ collect[k] # None /\ collect[k].step = "calling"
           /\ Told(k, i) \/ Failed(k) \/ Given(k, i)
<1>1. /\ i \in Id /\ requests[i] \in Request /\ collect[k] # None
      /\ collect[k].step = "calling" /\ collect[k].join \in Nat
  <2>1. collect[k] # None /\ collect[k].step = "calling"
    BY DEF Poll
  <2> QED
    BY <2>1, CollectRow
<1>2. ASSUME NEW s \in {"pending", "rejected", "expired"},
             Answered(k, [state |-> s, cred |-> None]),
             UNCHANGED <<requests, member, issued, leftover>>,
             s = "rejected" => requests[i].state = "rejected",
             s = "expired" => requests[i].state = "pending" /\ ~requests[i].live
      PROVE  Told(k, i)
  <2> DEFINE c == [step |-> "answered", join |-> collect[k].join,
                   result |-> [state |-> s, cred |-> None]]
  <2>1. c \in Collect
    BY <1>1 DEF Collect, Result
  <2>2. [state |-> s, cred |-> None] # None
    BY NoneAssumption DEF Result
  <2>3. collect' = [collect EXCEPT ![k] = c]
    BY <1>2, <2>2 DEF Answered, TypeOK
  <2> QED
    BY <1>2, <2>1, <2>3 DEF Told
<1>3. ASSUME Reissue, Answered(k, [state |-> "approved", cred |-> Fresh]),
             requests[i].state \in {"approved", "consumed"},
             \/ requests[i].state = "consumed" /\ UNCHANGED requests
             \/ requests' = [requests EXCEPT ![i].state = "consumed"]
      PROVE  Given(k, i)
  <2>1. /\ issued < MaxCredential /\ issued' = Fresh /\ Fresh \in Credential
        /\ leftover' = nonces
    BY <1>3, BoundsAssumption DEF Reissue, Issue, Fresh, Credential, TypeOK
  <2> DEFINE c == [step |-> "answered", join |-> collect[k].join,
                   result |-> [state |-> "approved", cred |-> Fresh]]
  <2>2. c \in Collect
    BY <1>1, <2>1 DEF Collect, Result
  <2>3. [state |-> "approved", cred |-> Fresh] # None
    BY <2>1, NoneAssumption DEF Result
  <2>4. collect' = [collect EXCEPT ![k] = c]
    BY <1>3, <2>3 DEF Answered, TypeOK
  <2> DEFINE q == [requests[i] EXCEPT !.state = "consumed"]
  <2>5. q \in Request /\ q.state = "consumed" /\ q.cred = requests[i].cred
    BY <1>1 DEF Request
  <2>6. requests' = [requests EXCEPT ![i] = q]
    <3>1. CASE requests' = [requests EXCEPT ![i].state = "consumed"]
      BY <3>1 DEF TypeOK
    <3>2. CASE requests[i].state = "consumed" /\ UNCHANGED requests
      <4>1. q = requests[i]
        BY <1>1, <3>2 DEF Request
      <4> QED
        BY <1>1, <3>2, <4>1 DEF TypeOK
    <3> QED
      BY <1>3, <3>1, <3>2
  <2>7. member["host"] # None =>
          \E r \in Member :
             /\ member' = [member EXCEPT !["host"] = r]
             /\ r.inbound = Fresh /\ r.outbound = member["host"].outbound
             /\ r.pending = member["host"].pending /\ r.live = member["host"].live
             /\ r.state = member["host"].state
    <3> SUFFICES ASSUME member["host"] # None
                 PROVE  \E r \in Member :
                          /\ member' = [member EXCEPT !["host"] = r]
                          /\ r.inbound = Fresh
                          /\ r.outbound = member["host"].outbound
                          /\ r.pending = member["host"].pending
                          /\ r.live = member["host"].live
                          /\ r.state = member["host"].state
      OBVIOUS
    <3> DEFINE r == [member["host"] EXCEPT !.inbound = Fresh]
    <3>1. member["host"] \in Member
      BY DEF TypeOK, Node
    <3>2. /\ r \in Member /\ r.inbound = Fresh
          /\ r.outbound = member["host"].outbound
          /\ r.pending = member["host"].pending /\ r.live = member["host"].live
          /\ r.state = member["host"].state
      BY <2>1, <3>1 DEF Member
    <3>3. member' = [member EXCEPT !["host"] = r]
      BY <1>3 DEF Reissue, TypeOK, Node
    <3> HIDE DEF r
    <3> QED
      BY <3>2, <3>3
  <2>8. member["host"] = None => UNCHANGED member
    BY <1>3 DEF Reissue
  <2> HIDE DEF c, q
  <2>9. c.step = "answered" /\ c.join = collect[k].join
        /\ c.result.state = "approved" /\ c.result.cred = Fresh
    BY DEF c
  <2> QED
    BY <1>3, <2>1, <2>2, <2>4, <2>5, <2>6, <2>7, <2>8, <2>9 DEF Given
<1>4. Answered(k, None) /\ UNCHANGED <<requests, member, issued, leftover>> => Failed(k)
  BY DEF Answered, Failed, TypeOK
<1>5. /\ requests[i].state \in {"pending", "rejected"}
      /\ Answered(k, [state |-> IF requests[i].state = "pending" /\ ~requests[i].live
                                THEN "expired" ELSE requests[i].state,
                      cred |-> None])
      /\ UNCHANGED <<requests, member, issued, leftover>>
      => Told(k, i)
  BY <1>2
<1> QED
  BY <1>1, <1>3, <1>4, <1>5 DEF Poll

LEMMA AcceptRemoteEffect ==
    ASSUME TypeOK, Rows, NEW k \in Collectors, AcceptRemote(k)
    PROVE  /\ collect[k] # None /\ collect[k].step = "answered"
           /\ collect[k].result.state = "approved"
           /\ collect[k].result.cred \in Credential
           /\ \E c \in Collect :
                /\ collect' = [collect EXCEPT ![k] = c]
                /\ c.step = "accepted" /\ c.join = collect[k].join
                /\ c.result = collect[k].result
           /\ \E r \in Member :
                /\ member' = [member EXCEPT !["joiner"] = r]
                /\ r.inbound = joins[collect[k].join].cred
                /\ r.outbound = collect[k].result.cred /\ r.state = "active"
                /\ member["joiner"] = None => r.pending = None /\ r.live = FALSE
                /\ member["joiner"] # None =>
                      /\ r.pending = member["joiner"].pending
                      /\ r.live = member["joiner"].live
<1>1. /\ collect[k] # None /\ collect[k].step = "answered"
      /\ collect[k].result.state = "approved"
  BY DEF AcceptRemote
<1>2. /\ collect[k] \in Collect /\ collect[k].result \in Result
      /\ joins[collect[k].join].cred \in Credential
  BY <1>1, CollectRow
<1>3. collect[k].result.cred \in Credential
  BY <1>1, <1>2 DEF Rows, Result
<1> DEFINE c == [collect[k] EXCEPT !.step = "accepted"]
<1>4. /\ c \in Collect /\ c.step = "accepted" /\ c.join = collect[k].join
      /\ c.result = collect[k].result
  BY <1>1, <1>2 DEF Collect
<1>5. collect' = [collect EXCEPT ![k] = c]
  BY DEF AcceptRemote, TypeOK
<1> DEFINE r == Upserted("joiner", joins[collect[k].join].cred, collect[k].result.cred)
<1>6. "joiner" \in Node
  BY DEF Node
<1>7. /\ r \in Member /\ r.inbound = joins[collect[k].join].cred
      /\ r.outbound = collect[k].result.cred /\ r.state = "active"
  BY <1>2, <1>3, <1>6, UpsertedRow
<1>8. /\ member["joiner"] = None => r.pending = None /\ r.live = FALSE
      /\ member["joiner"] # None => /\ r.pending = member["joiner"].pending
                                    /\ r.live = member["joiner"].live
  BY <1>6, UpsertedPending
<1>9. member' = [member EXCEPT !["joiner"] = r]
  BY DEF AcceptRemote
<1> HIDE DEF c, r
<1> QED
  BY <1>1, <1>3, <1>4, <1>5, <1>7, <1>8, <1>9

LEMMA CollectFinishEffect ==
    ASSUME TypeOK, Rows, NEW k \in Collectors, CollectFinish(k)
    PROVE  /\ collect[k] # None /\ collect[k].step # "calling"
           /\ collect[k].result.state = "approved" => collect[k].step = "accepted"
           /\ collect' = [collect EXCEPT ![k] = None]
           /\ joins' \in Seq(Join) /\ Len(joins') = Len(joins)
           /\ \A j \in 1..Len(joins) :
                /\ joins'[j].req = joins[j].req /\ joins'[j].cred = joins[j].cred
                /\ j # collect[k].join => joins'[j] = joins[j]
           /\ joins'[collect[k].join].state = collect[k].result.state
<1>1. /\ collect[k] # None /\ collect[k].step \in {"answered", "accepted"}
      /\ collect[k].result.state = "approved" => collect[k].step = "accepted"
  BY DEF CollectFinish, Done
<1>2. /\ collect[k].result \in Result /\ joins[collect[k].join] \in Join
      /\ collect[k].join \in 1..Len(joins)
  BY <1>1, CollectRow
<1> DEFINE j == collect[k].join
           r == [joins[j] EXCEPT !.state = collect[k].result.state]
<1>3. /\ r \in Join /\ r.req = joins[j].req /\ r.cred = joins[j].cred
      /\ r.state = collect[k].result.state
  BY <1>2 DEF Join, Result
<1>4. joins' = [joins EXCEPT ![j] = r] /\ joins \in Seq(Join)
  BY <1>2 DEF CollectFinish, TypeOK
<1>5. collect' = [collect EXCEPT ![k] = None]
  BY DEF CollectFinish
<1> HIDE DEF j, r
<1>6. j = collect[k].join
  BY DEF j
<1>7. joins' \in Seq(Join) /\ Len(joins') = Len(joins)
  BY <1>2, <1>3, <1>4, <1>6
<1>8. \A l \in 1..Len(joins) : joins'[l] = IF l = j THEN r ELSE joins[l]
  BY <1>2, <1>4, <1>6
<1> QED
  BY <1>1, <1>2, <1>3, <1>5, <1>6, <1>7, <1>8

\* The row of n after a member command or an authentication.
LEMMA SetEnabledEffect ==
    ASSUME TypeOK, NEW n \in Node, NEW enabled \in BOOLEAN, SetEnabled(n, enabled)
    PROVE  /\ member[n] \in Member /\ member[n].state # "revoked"
           /\ \E r \in Member :
                /\ member' = [member EXCEPT ![n] = r]
                /\ r.inbound = member[n].inbound /\ r.outbound = member[n].outbound
                /\ r.pending = member[n].pending /\ r.live = member[n].live
<1>1. member[n] \in Member /\ member[n].state # "revoked"
  BY DEF TypeOK, SetEnabled
<1> DEFINE r == [member[n] EXCEPT !.state = IF enabled THEN "active" ELSE "disabled"]
<1>2. member' = [member EXCEPT ![n] = r]
  BY <1>1 DEF SetEnabled, TypeOK, Member
<1>3. /\ r \in Member
      /\ r.inbound = member[n].inbound /\ r.outbound = member[n].outbound
      /\ r.pending = member[n].pending /\ r.live = member[n].live
  BY <1>1 DEF Member
<1> HIDE DEF r
<1> QED
  BY <1>1, <1>2, <1>3

LEMMA RevokeEffect ==
    ASSUME TypeOK, NEW n \in Node, Revoke(n)
    PROVE  /\ member[n] \in Member
           /\ \E r \in Member :
                /\ member' = [member EXCEPT ![n] = r]
                /\ r.state = "revoked" /\ r.inbound = member[n].inbound
                /\ r.outbound = member[n].outbound
                /\ r.pending = None /\ r.live = FALSE
<1>1. member[n] \in Member
  BY DEF TypeOK, Revoke
<1> DEFINE r == [member[n] EXCEPT !.state = "revoked", !.pending = None, !.live = FALSE]
<1>2. member' = [member EXCEPT ![n] = r]
  BY <1>1 DEF Revoke, TypeOK, Member
<1>3. /\ r \in Member /\ r.state = "revoked"
      /\ r.inbound = member[n].inbound /\ r.outbound = member[n].outbound
      /\ r.pending = None /\ r.live = FALSE
  BY <1>1 DEF Member
<1> HIDE DEF r
<1> QED
  BY <1>1, <1>2, <1>3

LEMMA RotateInboundEffect ==
    ASSUME TypeOK, NEW n \in Node, RotateInbound(n)
    PROVE  /\ member[n] \in Member /\ issued < MaxCredential /\ issued' = Fresh
           /\ Fresh \in Credential
           /\ \E r \in Member :
                /\ member' = [member EXCEPT ![n] = r]
                /\ r.state = member[n].state
                /\ r.inbound = member[n].inbound /\ r.outbound = member[n].outbound
                /\ r.pending = Fresh /\ r.live = TRUE
<1>1. member[n] \in Member
  BY DEF TypeOK, RotateInbound
<1>4. issued < MaxCredential /\ issued' = Fresh /\ Fresh \in Credential
  BY BoundsAssumption DEF RotateInbound, Issue, Fresh, Credential, TypeOK
<1> DEFINE r == [member[n] EXCEPT !.pending = Fresh, !.live = TRUE]
<1>2. member' = [member EXCEPT ![n] = r]
  BY <1>1 DEF RotateInbound, TypeOK, Member
<1>3. /\ r \in Member /\ r.state = member[n].state
      /\ r.inbound = member[n].inbound /\ r.outbound = member[n].outbound
      /\ r.pending = Fresh /\ r.live = TRUE
  BY <1>1, <1>4 DEF Member
<1> HIDE DEF r
<1> QED
  BY <1>1, <1>2, <1>3, <1>4

LEMMA SetOutboundEffect ==
    ASSUME TypeOK, NEW n \in Node, SetOutboundCredential(n)
    PROVE  /\ member[n] \in Member /\ carried[Peer(n)] \in Credential
           /\ \E r \in Member :
                /\ member' = [member EXCEPT ![n] = r]
                /\ r.state = member[n].state
                /\ r.inbound = member[n].inbound /\ r.outbound = carried[Peer(n)]
                /\ r.pending = member[n].pending /\ r.live = member[n].live
<1>1. member[n] \in Member
  BY DEF TypeOK, SetOutboundCredential
<1>4. carried[Peer(n)] \in Credential
  BY Peers DEF TypeOK, SetOutboundCredential
<1> DEFINE r == [member[n] EXCEPT !.outbound = carried[Peer(n)]]
<1>2. member' = [member EXCEPT ![n] = r]
  BY <1>1 DEF SetOutboundCredential, TypeOK, Member
<1>3. /\ r \in Member /\ r.state = member[n].state
      /\ r.inbound = member[n].inbound /\ r.outbound = carried[Peer(n)]
      /\ r.pending = member[n].pending /\ r.live = member[n].live
  BY <1>1, <1>4 DEF Member
<1> HIDE DEF r
<1> QED
  BY <1>1, <1>2, <1>3, <1>4

LEMMA RotationExpiresEffect ==
    ASSUME TypeOK, NEW n \in Node, RotationExpires(n)
    PROVE  /\ member[n] \in Member
           /\ \E r \in Member :
                /\ member' = [member EXCEPT ![n] = r]
                /\ r.state = member[n].state
                /\ r.inbound = member[n].inbound /\ r.outbound = member[n].outbound
                /\ r.pending = member[n].pending /\ r.live = FALSE
<1>1. member[n] \in Member
  BY DEF TypeOK, RotationExpires
<1> DEFINE r == [member[n] EXCEPT !.live = FALSE]
<1>2. member' = [member EXCEPT ![n] = r]
  BY <1>1 DEF RotationExpires, TypeOK, Member
<1>3. /\ r \in Member /\ r.state = member[n].state
      /\ r.inbound = member[n].inbound /\ r.outbound = member[n].outbound
      /\ r.pending = member[n].pending /\ r.live = FALSE
  BY <1>1 DEF Member
<1> HIDE DEF r
<1> QED
  BY <1>1, <1>2, <1>3

\* A request that is verified: promote only for the replacement.
LEMMA VerifiedEffect ==
    ASSUME TypeOK, NEW n \in Node,
           Authenticate(n) \/ AcceptHandshake(n) \/ VerifyPeer(n)
    PROVE  /\ member[n] \in Member /\ member[Peer(n)] \in Member
           /\ auth[n] = None
           /\ \E a \in Auth :
                /\ auth' = [auth EXCEPT ![n] = a]
                /\ a.cred = member[Peer(n)].outbound
                /\ a.promote => /\ member[n].live
                                /\ member[Peer(n)].outbound = member[n].pending
           /\ UNCHANGED <<pairing, member, nonces, collect, carried, issued, history>>
<1>1. /\ member[Peer(n)] # None /\ Verified(n, member[Peer(n)].outbound)
  BY DEF Authenticate, AcceptHandshake, VerifyPeer, OutboundCredential
<1>2. member[n] \in Member /\ member[Peer(n)] \in Member
  BY <1>1, Peers DEF Verified, TypeOK
<1> DEFINE a == [cred |-> member[Peer(n)].outbound,
                 promote |-> member[Peer(n)].outbound # member[n].inbound]
<1>3. a \in Auth
  BY <1>2 DEF Auth, Member
<1>4. /\ a.cred = member[Peer(n)].outbound
      /\ a.promote => /\ member[n].live
                      /\ member[Peer(n)].outbound = member[n].pending
  BY <1>1 DEF Verified, Accepted
<1>5. auth' = [auth EXCEPT ![n] = a] /\ auth[n] = None
      /\ UNCHANGED <<pairing, member, nonces, collect, carried, issued, history>>
  BY <1>1 DEF Verified
<1> HIDE DEF a
<1> QED
  BY <1>2, <1>3, <1>4, <1>5

\* A promotion that succeeds, and every other end of an authentication.
LEMMA AuthenticatedEffect ==
    ASSUME TypeOK, NEW n \in Node, Authenticated(n)
    PROVE  /\ auth[n] # None /\ auth' = [auth EXCEPT ![n] = None]
           /\ nonces' \in BOOLEAN /\ leftover' \in BOOLEAN
           /\ \/ UNCHANGED member
              \/ /\ auth[n].promote /\ member[n] \in Member
                 /\ member[n].pending # None
                 /\ \E r \in Member :
                      /\ member' = [member EXCEPT ![n] = r]
                      /\ r.state = member[n].state
                      /\ r.inbound = member[n].pending
                      /\ r.outbound = member[n].outbound
                      /\ r.pending = None /\ r.live = FALSE
<1>1. auth[n] # None /\ auth' = [auth EXCEPT ![n] = None]
  BY DEF Authenticated
<1>2. nonces' \in BOOLEAN
  BY DEF Authenticated, TypeOK
<1>3. leftover' \in BOOLEAN
  BY DEF Authenticated, TypeOK
<1>4. CASE member[n] # None /\ ~PromotionFails(n) /\ auth[n].promote
  <2>1. member[n] \in Member /\ member[n].pending # None
    BY <1>4 DEF TypeOK, PromotionFails
  <2> DEFINE r == [member[n] EXCEPT !.inbound = member[n].pending,
                                    !.pending = None, !.live = FALSE]
  <2>2. member' = [member EXCEPT ![n].inbound = member[n].pending,
                                 ![n].pending = None, ![n].live = FALSE]
    BY <1>4 DEF Authenticated
  <2>3. member' = [member EXCEPT ![n] = r]
    BY <2>1, <2>2 DEF TypeOK, Member
  <2>4. /\ r \in Member /\ r.state = member[n].state
        /\ r.inbound = member[n].pending /\ r.outbound = member[n].outbound
        /\ r.pending = None /\ r.live = FALSE
    BY <2>1 DEF Member
  <2> HIDE DEF r
  <2> QED
    BY <1>1, <1>2, <1>3, <1>4, <2>1, <2>3, <2>4
<1>5. CASE ~(member[n] # None /\ ~PromotionFails(n) /\ auth[n].promote)
  BY <1>1, <1>2, <1>3, <1>5 DEF Authenticated
<1> QED
  BY <1>4, <1>5

----------------------------------------------------------------------------
(* Types and references                                                    *)

LEMMA InitRows == Init => TypeOK /\ Rows
<1> SUFFICES ASSUME Init PROVE TypeOK /\ Rows
  OBVIOUS
<1>1. /\ invitations \in [Id -> Invitation \cup {None}]
      /\ requests \in [Id -> Request \cup {None}]
      /\ collect \in [Collectors -> Collect \cup {None}]
  BY DEF Init
<1>2. /\ member \in [Node -> Member \cup {None}] /\ nonces \in BOOLEAN
      /\ auth \in [Node -> Auth \cup {None}]
      /\ carried \in [Node -> Credential \cup {None}]
  BY DEF Init
<1>3. joins \in Seq(Join) /\ Len(joins) = 0
  BY DEF Init
<1>4. /\ begin \in BeginStep \cup {None} /\ lastApproved \in Id \cup {0}
      /\ leftover \in BOOLEAN /\ overlap \in BOOLEAN /\ mixed \in SUBSET Id
  BY DEF Init
<1>5. issued \in 0..MaxCredential
  BY BoundsAssumption DEF Init
<1>6. TypeOK
  BY <1>1, <1>2, <1>3, <1>4, <1>5 DEF TypeOK
<1>7. Rows
  BY <1>3 DEF Rows, Init
<1> QED
  BY <1>6, <1>7

\* Steps that leave the tables of the pairing and the collectors alone.
LEMMA FrameRows ==
    ASSUME TypeOK, Rows, UNCHANGED <<pairing, collect, lastApproved>>,
           issued' \in issued..MaxCredential, member' \in [Node -> Member \cup {None}],
           nonces' \in BOOLEAN, auth' \in [Node -> Auth \cup {None}],
           carried' \in [Node -> Credential \cup {None}], leftover' \in BOOLEAN,
           overlap' \in BOOLEAN, mixed' \in SUBSET Id
    PROVE  TypeOK' /\ Rows'
<1>1. issued' \in 0..MaxCredential /\ issued <= issued'
  BY BoundsAssumption DEF TypeOK
<1>2. TypeOK'
  BY <1>1 DEF TypeOK, pairing, tables
<1>3. \A i \in Id : requests[i] # None => requests[i].cred \in Nat
  BY DEF TypeOK, Request, Credential
<1>4. issued \in Nat /\ issued' \in Nat
  BY <1>1, BoundsAssumption DEF TypeOK
<1> QED
  BY <1>1, <1>2, <1>3, <1>4 DEF Rows, pairing, tables

LEMMA NextRows == TypeOK /\ Rows /\ [Next]_vars => TypeOK' /\ Rows'
<1> SUFFICES ASSUME TypeOK, Rows, [Next]_vars PROVE TypeOK' /\ Rows'
  OBVIOUS
<1>a. /\ issued \in Nat /\ issued \in issued..MaxCredential /\ Len(joins) \in Nat
      /\ \A i \in Id : requests[i] # None => requests[i] \in Request /\ requests[i].cred \in Nat
      /\ \A j \in 1..Len(joins) : joins[j] \in Join /\ joins[j].req \in Id
      /\ begin # None => begin.inv \in Id
  <2>1. issued \in Nat /\ issued \in issued..MaxCredential
    BY BoundsAssumption DEF TypeOK
  <2>2. \A i \in Id : requests[i] # None => requests[i] \in Request /\ requests[i].cred \in Nat
    BY DEF TypeOK, Request, Credential
  <2>5. Len(joins) \in Nat /\ \A j \in 1..Len(joins) : joins[j] \in Join
    BY DEF TypeOK
  <2>3. \A j \in 1..Len(joins) : joins[j].req \in Id
    BY <2>5 DEF Join
  <2>4. begin # None => begin.inv \in Id
    BY DEF TypeOK, BeginStep
  <2> QED
    BY <2>1, <2>2, <2>3, <2>4, <2>5
<1>b. Begun \subseteq Id
  BY <1>a DEF Begun
<1>c. \A so \in BOOLEAN : Overlaps(so) => overlap' \in BOOLEAN /\ mixed' \in SUBSET Id
  BY <1>b DEF Overlaps, TypeOK
<1>1. ASSUME NEW i \in Id, Invite(i) PROVE TypeOK' /\ Rows'
  <2>1. [state |-> "pending", live |-> TRUE] \in Invitation
    BY DEF Invitation
  <2>2. TypeOK'
    BY <1>1, <2>1 DEF TypeOK, Invite, peers, history, overlaps
  <2>3. requests[i] = None /\ [state |-> "pending", live |-> TRUE] # None
    BY <1>1, <2>1, NoneAssumption DEF Rows, Invite
  <2>4. Rows'
    BY <1>1, <2>3, <1>a DEF Rows, Invite, TypeOK, peers, history, overlaps
  <2> QED
    BY <2>2, <2>4
<1>2. ASSUME NEW i \in Id, BeginOutbound(i) PROVE TypeOK' /\ Rows'
  <2>1. [step |-> "calling", inv |-> i] \in BeginStep
    BY DEF BeginStep
  <2>4. overlap' \in BOOLEAN /\ mixed' \in SUBSET Id
    BY <1>2, <1>b DEF BeginOutbound, TypeOK
  <2>2. TypeOK'
    BY <1>2, <2>1, <2>4 DEF TypeOK, BeginOutbound, peers, tables
  <2>3. Rows'
    BY <1>2, <1>a DEF Rows, BeginOutbound, peers, tables
  <2> QED
    BY <2>2, <2>3
<1>3. ASSUME SubmitJoin PROVE TypeOK' /\ Rows'
  <2>1. PICK i \in Id, q \in Invitation, c \in Credential :
             /\ i = begin.inv /\ c = Fresh /\ issued' = c /\ c \in 1..MaxCredential
             /\ invitations[i] \in Invitation /\ invitations[i].state = "pending"
             /\ invitations' = [invitations EXCEPT ![i] = q]
             /\ q.state = "consumed"
             /\ requests' = [requests EXCEPT
                               ![i] = [state |-> "pending", live |-> TRUE, cred |-> c]]
             /\ begin' = [step |-> "answered", inv |-> i, cred |-> c]
             /\ UNCHANGED <<joins, member, nonces, auth, carried, collect, history>>
    BY <1>3, SubmitJoinEffect
  <2>2. requests[i] = None
    BY <2>1 DEF Rows
  <2> DEFINE r == [state |-> "pending", live |-> TRUE, cred |-> c]
             b == [step |-> "answered", inv |-> i, cred |-> c]
  <2>3. r \in Request /\ b \in BeginStep /\ r.cred = c /\ r.state = "pending"
        /\ b.step = "answered" /\ b.inv = i /\ b.cred = c
    BY DEF Request, BeginStep
  <2>4. r # None /\ q # None
    BY <2>3, NoneAssumption
  <2>5. begin' = b /\ requests' = [requests EXCEPT ![i] = r]
    BY <2>1
  <2> HIDE DEF r, b
  <2>6. TypeOK'
    BY <2>1, <2>3, <2>5 DEF TypeOK, history, overlaps, Credential
  <2>7. issued < c /\ c \in Nat /\ issued' = c
    BY <2>1, <1>a DEF Fresh
  <2>8. \A x \in Id : x # i => requests'[x] = requests[x] /\ invitations'[x] = invitations[x]
    BY <2>1, <2>5 DEF TypeOK
  <2>9. requests'[i] = r /\ invitations'[i] = q
    BY <2>1, <2>5 DEF TypeOK
  <2>10. \A x \in Id : requests'[x] # None => /\ invitations'[x] # None
                                           /\ invitations'[x].state = "consumed"
                                           /\ requests'[x].cred <= issued'
    BY <2>1, <2>3, <2>4, <2>7, <2>8, <2>9, <1>a DEF Rows
  <2>11. \A j \in 1..Len(joins) : joins[j].req # i
    BY <2>2 DEF Rows
  <2>13. \A j \in 1..Len(joins') : /\ requests'[joins'[j].req] # None
                                   /\ requests'[joins'[j].req].cred = joins'[j].cred
    BY <2>1, <2>8, <2>11, <1>a DEF Rows
  <2>14. /\ invitations'[begin'.inv] # None /\ requests'[begin'.inv] # None
         /\ requests'[begin'.inv].cred = begin'.cred
         /\ requests'[begin'.inv].state # "consumed"
         /\ \A j \in 1..Len(joins') : joins'[j].req # begin'.inv
    BY <2>1, <2>3, <2>4, <2>5, <2>9, <2>11
  <2>12. Rows'
    BY <2>1, <2>10, <2>13, <2>14 DEF Rows
  <2> QED
    BY <2>6, <2>12
<1>4. ASSUME RecordJoin PROVE TypeOK' /\ Rows'
  <2>1. PICK r \in Join :
             /\ r.req = begin.inv /\ r.cred = begin.cred /\ r.state = "pending"
             /\ r.req \in Id /\ r.cred \in Credential
             /\ joins' = Append(joins, r) /\ joins' \in Seq(Join)
             /\ Len(joins') = Len(joins) + 1 /\ Len(joins) \in Nat
             /\ joins'[Len(joins')] = r
             /\ \A j \in 1..Len(joins) : joins'[j] = joins[j]
    BY <1>4, RecordJoinEffect
  <2>2. begin # None /\ begin.step = "answered" /\ begin' = None
        /\ UNCHANGED <<invitations, requests, collect, member, peers, issued, history>>
    BY <1>4 DEF RecordJoin
  <2>3. TypeOK'
    BY <2>1, <2>2 DEF TypeOK, peers, history, overlaps
  <2>4. \A j \in 1..Len(joins') : j \in 1..Len(joins) \/ j = Len(joins')
    BY <2>1
  <2>5. \A j \in 1..Len(joins') : /\ requests[joins'[j].req] # None
                                  /\ requests[joins'[j].req].cred = joins'[j].cred
    BY <2>1, <2>2, <2>4 DEF Rows
  <2>6. 1..Len(joins) \subseteq 1..Len(joins')
    BY <2>1
  <2>7. Rows'
    BY <2>2, <2>5, <2>6 DEF Rows
  <2> QED
    BY <2>3, <2>7
<1>5. ASSUME BeginFails PROVE TypeOK' /\ Rows'
  <2>1. TypeOK'
    BY <1>5 DEF TypeOK, BeginFails, tables, peers, history, overlaps
  <2>2. Rows'
    BY <1>5, <1>a DEF Rows, BeginFails, tables
  <2> QED
    BY <2>1, <2>2
<1>6. ASSUME NEW i \in Id, NEW approve \in BOOLEAN, Decide(i, approve) PROVE TypeOK' /\ Rows'
  <2>1. PICK q \in Request : /\ requests' = [requests EXCEPT ![i] = q]
                             /\ q.state = IF approve THEN "approved" ELSE "rejected"
                             /\ q.cred = requests[i].cred
    BY <1>6, DecideEffect
  <2>8. q.state # "consumed"
    BY <2>1
  <2>2. member' \in [Node -> Member \cup {None}] /\ lastApproved' \in Id \cup {0}
    <3>1. CASE approve
      <4>1. PICK r \in Member : member' = [member EXCEPT !["host"] = r]
        BY <1>6, <3>1, DecideEffect
      <4> QED
        BY <1>6, <3>1, <4>1 DEF TypeOK, Decide
    <3>2. CASE ~approve
      BY <1>6, <3>2 DEF TypeOK, Decide
    <3> QED
      BY <3>1, <3>2
  <2>3. UNCHANGED <<invitations, joins, peers, begin, collect, issued, leftover, overlaps>>
    BY <1>6 DEF Decide
  <2>4. TypeOK'
    BY <2>1, <2>2, <2>3 DEF TypeOK, peers, overlaps
  <2>5. requests[i] # None /\ q # None
    BY <1>6, NoneAssumption DEF Decide
  <2>6. \A x \in Id : /\ requests'[x] # None <=> requests[x] # None
                      /\ requests[x] # None => requests'[x].cred = requests[x].cred
                      /\ requests'[x].state = "consumed" => requests[x].state = "consumed"
    BY <2>1, <2>5, <2>8 DEF TypeOK
  <2>7. Rows'
    BY <2>3, <2>6, <1>a DEF Rows
  <2> QED
    BY <2>4, <2>7
<1>7. ASSUME NEW i \in Id, Expire(i) PROVE TypeOK' /\ Rows'
  <2>1. UNCHANGED <<joins, member, peers, begin, collect, issued, history>>
    BY <1>7 DEF Expire
  <2>2. CASE /\ invitations[i] \in Invitation
             /\ \E q \in Invitation : /\ invitations' = [invitations EXCEPT ![i] = q]
                                      /\ q.state = invitations[i].state
             /\ UNCHANGED requests
    <3>1. PICK q \in Invitation : /\ invitations' = [invitations EXCEPT ![i] = q]
                                  /\ q.state = invitations[i].state
      BY <2>2
    <3>2. q # None
      BY NoneAssumption
    <3>3. TypeOK'
      BY <2>1, <2>2, <3>1 DEF TypeOK, peers, history, overlaps
    <3>4. \A x \in Id : invitations[x] # None =>
             invitations'[x] # None /\ invitations'[x].state = invitations[x].state
      BY <3>1, <3>2 DEF TypeOK
    <3> QED
      BY <2>1, <2>2, <3>3, <3>4, <1>a DEF Rows
  <2>3. CASE /\ requests[i] \in Request
             /\ \E q \in Request : /\ requests' = [requests EXCEPT ![i] = q]
                                   /\ q.cred = requests[i].cred /\ q.state = "pending"
             /\ UNCHANGED invitations
    <3>1. PICK q \in Request : /\ requests' = [requests EXCEPT ![i] = q]
                               /\ q.cred = requests[i].cred /\ q.state = "pending"
      BY <2>3
    <3>2. q # None /\ requests[i] # None
      BY <2>3, NoneAssumption
    <3>3. TypeOK'
      BY <2>1, <2>3, <3>1 DEF TypeOK, peers, history, overlaps
    <3>4. \A x \in Id : /\ requests'[x] # None <=> requests[x] # None
                        /\ requests[x] # None => requests'[x].cred = requests[x].cred
                        /\ requests'[x].state = "consumed" => requests[x].state = "consumed"
      BY <3>1, <3>2 DEF TypeOK
    <3> QED
      BY <2>1, <2>3, <3>3, <3>4, <1>a DEF Rows
  <2> QED
    BY <1>7, <2>2, <2>3, ExpireEffect
<1>8. ASSUME NEW k \in Collectors, NEW j \in 1..Len(joins), CollectOutbound(k, j)
      PROVE  TypeOK' /\ Rows'
  <2>1. [step |-> "calling", join |-> j] \in Collect
    BY <1>a DEF Collect
  <2>5. overlap' \in BOOLEAN /\ mixed' \in SUBSET Id
    BY <1>8, <1>c DEF CollectOutbound
  <2>2. TypeOK'
    BY <1>8, <2>1, <2>5 DEF TypeOK, CollectOutbound, pairing, tables, peers
  <2>3. \A l \in Collectors : collect'[l] = IF l = k THEN [step |-> "calling", join |-> j] ELSE collect[l]
    BY <1>8 DEF CollectOutbound, TypeOK
  <2>4. Rows'
    BY <1>8, <2>3, <1>a DEF Rows, CollectOutbound, pairing, tables
  <2> QED
    BY <2>2, <2>4
<1>9. ASSUME NEW k \in Collectors, Poll(k) PROVE TypeOK' /\ Rows'
  <2> DEFINE i == joins[collect[k].join].req
  <2>1. /\ i \in Id /\ requests[i] \in Request /\ collect[k] # None
        /\ Told(k, i) \/ Failed(k) \/ Given(k, i)
    BY <1>9, PollEffect
  <2>2. UNCHANGED <<invitations, joins, peers, begin, lastApproved, overlaps>>
    BY <1>9 DEF Poll
  <2>5. begin # None /\ begin.step = "answered" => i # begin.inv
    BY <2>1, CollectRow DEF Rows
  <2> HIDE DEF i
  <2>3. CASE Told(k, i) \/ Failed(k)
    <3>1. PICK c \in Collect \cup {None} :
            /\ collect' = [collect EXCEPT ![k] = c]
            /\ c # None => /\ c.step = "answered" /\ c.join = collect[k].join
                           /\ c.result.state # "approved"
            /\ UNCHANGED <<requests, member, issued, leftover>>
      BY <2>3 DEF Told, Failed
    <3>2. TypeOK'
      BY <2>2, <3>1 DEF TypeOK, peers, overlaps
    <3>3. Rows'
      BY <2>1, <2>2, <3>1, <1>a DEF Rows, TypeOK
    <3> QED
      BY <3>2, <3>3
  <2>4. CASE Given(k, i)
    <3>1. PICK c \in Collect :
            /\ collect' = [collect EXCEPT ![k] = c]
            /\ c.step = "answered" /\ c.join = collect[k].join
            /\ c.result.state = "approved" /\ c.result.cred = Fresh
      BY <2>4 DEF Given
    <3>2. PICK q \in Request : /\ requests' = [requests EXCEPT ![i] = q]
                               /\ q.state = "consumed" /\ q.cred = requests[i].cred
      BY <2>4 DEF Given
    <3>3. issued' = Fresh /\ Fresh \in Credential /\ leftover' \in BOOLEAN
      BY <2>4 DEF Given, TypeOK
    <3>4. member' \in [Node -> Member \cup {None}]
      <4>1. CASE member["host"] = None
        BY <2>4, <4>1 DEF Given, TypeOK
      <4>2. CASE member["host"] # None
        BY <2>4, <4>2 DEF Given, TypeOK
      <4> QED
        BY <4>1, <4>2
    <3>5. issued' \in 0..MaxCredential /\ issued <= issued' /\ issued' \in Nat
      BY <3>3, <1>a, BoundsAssumption DEF Fresh, Credential
    <3>6. TypeOK'
      BY <2>1, <2>2, <3>1, <3>2, <3>3, <3>4, <3>5 DEF TypeOK, peers, overlaps
    <3>7. q # None /\ requests[i] # None /\ Fresh # None
      BY <2>1, <3>3, NoneAssumption
    <3>8. \A x \in Id : /\ requests'[x] # None <=> requests[x] # None
                        /\ requests[x] # None => requests'[x].cred = requests[x].cred
                        /\ x # i => requests'[x] = requests[x]
      BY <3>2, <3>7 DEF TypeOK
    <3>9. \A l \in Collectors : collect'[l] = IF l = k THEN c ELSE collect[l]
      BY <3>1 DEF TypeOK
    <3>10. Rows'
      BY <2>1, <2>2, <2>5, <3>1, <3>5, <3>7, <3>8, <3>9, <1>a DEF Rows
    <3> QED
      BY <3>6, <3>10
  <2> QED
    BY <2>1, <2>3, <2>4
<1>10. ASSUME NEW k \in Collectors, AcceptRemote(k) PROVE TypeOK' /\ Rows'
  <2>1. UNCHANGED <<pairing, peers, issued, history>>
    BY <1>10 DEF AcceptRemote
  <2>2. PICK c \in Collect : /\ collect' = [collect EXCEPT ![k] = c]
                             /\ c.step = "accepted" /\ c.join = collect[k].join
                             /\ c.result = collect[k].result
    BY <1>10, AcceptRemoteEffect
  <2>3. PICK r \in Member : member' = [member EXCEPT !["joiner"] = r]
    BY <1>10, AcceptRemoteEffect
  <2>4. /\ collect[k] # None /\ collect[k].step = "answered"
        /\ collect[k].result.state = "approved"
    BY <1>10, AcceptRemoteEffect
  <2>5. TypeOK'
    BY <2>1, <2>2, <2>3 DEF TypeOK, pairing, tables, peers, history, overlaps
  <2>6. \A l \in Collectors : collect'[l] = IF l = k THEN c ELSE collect[l]
    BY <2>2 DEF TypeOK
  <2>7. Rows'
    BY <2>1, <2>2, <2>4, <2>6, <1>a DEF Rows, pairing, tables
  <2> QED
    BY <2>5, <2>7
<1>11. ASSUME NEW k \in Collectors, CollectFinish(k) PROVE TypeOK' /\ Rows'
  <2>1. UNCHANGED <<invitations, requests, begin, member, peers, issued, history>>
    BY <1>11 DEF CollectFinish
  <2>2. /\ collect' = [collect EXCEPT ![k] = None]
        /\ joins' \in Seq(Join) /\ Len(joins') = Len(joins)
        /\ \A j \in 1..Len(joins) :
              joins'[j].req = joins[j].req /\ joins'[j].cred = joins[j].cred
    BY <1>11, CollectFinishEffect
  <2>3. TypeOK'
    BY <2>1, <2>2 DEF TypeOK, peers, history, overlaps
  <2>4. Rows'
    BY <2>1, <2>2, <1>a DEF Rows, TypeOK
  <2> QED
    BY <2>3, <2>4
<1>12. ASSUME NEW k \in Collectors, CollectFails(k) PROVE TypeOK' /\ Rows'
  <2>1. TypeOK'
    BY <1>12 DEF TypeOK, CollectFails, pairing, tables, peers, history, overlaps
  <2>2. Rows'
    BY <1>12, <1>a DEF Rows, CollectFails, TypeOK, pairing, tables
  <2> QED
    BY <2>1, <2>2
<1>13. ASSUME NEW n \in Node, NEW enabled \in BOOLEAN, SetEnabled(n, enabled)
       PROVE  TypeOK' /\ Rows'
  <2>1. member' \in [Node -> Member \cup {None}]
    BY <1>13, SetEnabledEffect, RowReplaced
  <2> QED
    BY <1>13, <1>a, <2>1, FrameRows DEF SetEnabled, TypeOK, peers, history, overlaps
<1>14. ASSUME NEW n \in Node, Revoke(n) PROVE TypeOK' /\ Rows'
  <2>1. member' \in [Node -> Member \cup {None}]
    BY <1>14, RevokeEffect, RowReplaced
  <2> QED
    BY <1>14, <1>a, <2>1, FrameRows DEF Revoke, TypeOK, history, overlaps
<1>15. ASSUME NEW n \in Node, Remove(n) PROVE TypeOK' /\ Rows'
  <2>1. member' \in [Node -> Member \cup {None}]
    BY <1>15 DEF Remove, TypeOK
  <2> QED
    BY <1>15, <1>a, <2>1, FrameRows DEF Remove, TypeOK, overlaps
<1>16. ASSUME NEW n \in Node, RotateInbound(n) PROVE TypeOK' /\ Rows'
  <2>1. member' \in [Node -> Member \cup {None}] /\ issued' = Fresh /\ Fresh \in Credential
    BY <1>16, RotateInboundEffect, RowReplaced
  <2>2. issued' \in issued..MaxCredential
    BY <2>1, <1>a, BoundsAssumption DEF Fresh, Credential
  <2>3. carried' \in [Node -> Credential \cup {None}]
    BY <1>16, <2>1 DEF RotateInbound, TypeOK
  <2>4. overlap' \in BOOLEAN /\ mixed' \in SUBSET Id
    BY <1>16, <1>c DEF RotateInbound
  <2> QED
    BY <1>16, <1>a, <2>1, <2>2, <2>3, <2>4, FrameRows DEF RotateInbound, TypeOK
<1>17. ASSUME NEW n \in Node, SetOutboundCredential(n) PROVE TypeOK' /\ Rows'
  <2>1. member' \in [Node -> Member \cup {None}]
    BY <1>17, SetOutboundEffect, RowReplaced
  <2>2. carried' \in [Node -> Credential \cup {None}]
    BY <1>17 DEF SetOutboundCredential, TypeOK
  <2> QED
    BY <1>17, <1>a, <2>1, <2>2, FrameRows DEF SetOutboundCredential, TypeOK, history, overlaps
<1>18. ASSUME NEW n \in Node, RotationExpires(n) PROVE TypeOK' /\ Rows'
  <2>1. member' \in [Node -> Member \cup {None}]
    BY <1>18, RotationExpiresEffect, RowReplaced
  <2>2. overlap' \in BOOLEAN /\ mixed' \in SUBSET Id
    BY <1>18, <1>c DEF RotationExpires
  <2> QED
    BY <1>18, <1>a, <2>1, <2>2, FrameRows DEF RotationExpires, TypeOK
<1>19. ASSUME NEW n \in Node, Authenticate(n) \/ AcceptHandshake(n) \/ VerifyPeer(n)
       PROVE  TypeOK' /\ Rows'
  <2>1. auth' \in [Node -> Auth \cup {None}]
    BY <1>19, VerifiedEffect DEF TypeOK
  <2>2. UNCHANGED <<pairing, member, nonces, collect, carried, issued, history>>
    BY <1>19, VerifiedEffect
  <2> QED
    BY <1>a, <2>1, <2>2, FrameRows DEF TypeOK, history, overlaps
<1>20. ASSUME NEW n \in Node, Authenticated(n) PROVE TypeOK' /\ Rows'
  <2>1. /\ auth' \in [Node -> Auth \cup {None}] /\ nonces' \in BOOLEAN
        /\ leftover' \in BOOLEAN
    BY <1>20, AuthenticatedEffect DEF TypeOK
  <2>2. member' \in [Node -> Member \cup {None}]
    <3>1. CASE UNCHANGED member
      BY <3>1 DEF TypeOK
    <3>2. CASE \E r \in Member : member' = [member EXCEPT ![n] = r]
      BY <3>2, RowReplaced
    <3> QED
      BY <1>20, <3>1, <3>2, AuthenticatedEffect
  <2> QED
    BY <1>20, <1>a, <2>1, <2>2, FrameRows DEF TypeOK, Authenticated, overlaps
<1>21. ASSUME PruneNonces PROVE TypeOK' /\ Rows'
  BY <1>21, <1>a, FrameRows DEF PruneNonces, TypeOK, history, overlaps, Node
<1>22. CASE UNCHANGED vars
  BY <1>22, <1>a, FrameRows DEF TypeOK, vars, peers, history, overlaps
<1> QED
  BY <1>1, <1>2, <1>3, <1>4, <1>5, <1>6, <1>7, <1>8, <1>9, <1>10, <1>11, <1>12, <1>13, <1>14,
     <1>15, <1>16, <1>17, <1>18, <1>19, <1>20, <1>21, <1>22
     DEF Next, PairingCommand, MemberCommand, Handler, Fault

\* Whatever operators do at once, types hold, and requests, joins and answers
\* belong together (the tables of internal/cluster/pairing.go).
THEOREM TypeCorrect == Spec => [](TypeOK /\ Rows)
  BY InitRows, NextRows, PTL DEF Spec

----------------------------------------------------------------------------
(* What holds whatever overlaps                                            *)

Facts == Truthful /\ Issued /\ Marked

LEMMA Typed ==
    ASSUME TypeOK, Rows
    PROVE  /\ issued \in Nat /\ Len(joins) \in Nat
           /\ joins = <<>> <=> Len(joins) = 0
           /\ joins # <<>> => /\ Len(joins) \in 1..Len(joins) /\ Newest \in Join
                              /\ Newest.req \in Id /\ Newest.cred \in Nat
                              /\ requests[Newest.req] # None
                              /\ requests[Newest.req].cred = Newest.cred
           /\ \A n \in Node : member[n] # None =>
                 /\ member[n] \in Member /\ member[n].outbound \in Nat
                 /\ member[n].live \in BOOLEAN
                 /\ member[n].pending # None => member[n].pending \in Nat
<1>1. issued \in Nat
  BY BoundsAssumption DEF TypeOK
<1>2. Len(joins) \in Nat /\ (joins = <<>> <=> Len(joins) = 0)
  BY DEF TypeOK
<1>3. joins # <<>> => Len(joins) \in 1..Len(joins)
  BY <1>2
<1>4. joins # <<>> => Newest \in Join
  BY <1>3 DEF TypeOK, Newest
<1>5. joins # <<>> => Newest.req \in Id /\ Newest.cred \in Nat
  BY <1>4 DEF Join, Credential
<1>6. joins # <<>> => /\ requests[Newest.req] # None
                      /\ requests[Newest.req].cred = Newest.cred
  BY <1>3 DEF Rows, Newest
<1>7. \A n \in Node : member[n] # None =>
         /\ member[n] \in Member /\ member[n].outbound \in Nat
         /\ member[n].live \in BOOLEAN
         /\ member[n].pending # None => member[n].pending \in Nat
  <2> SUFFICES ASSUME NEW n \in Node, member[n] # None
               PROVE  /\ member[n] \in Member /\ member[n].outbound \in Nat
                      /\ member[n].live \in BOOLEAN
                      /\ member[n].pending # None => member[n].pending \in Nat
    OBVIOUS
  <2>1. member[n] \in Member
    BY DEF TypeOK
  <2> QED
    BY <2>1 DEF Member, Credential
<1> QED
  BY <1>1, <1>2, <1>3, <1>4, <1>5, <1>6, <1>7

LEMMA JoinReqs ==
    ASSUME TypeOK
    PROVE  \A j \in 1..Len(joins) : joins[j] \in Join /\ joins[j].req \in Id
<1>1. \A j \in 1..Len(joins) : joins[j] \in Join
  BY DEF TypeOK
<1> QED
  BY <1>1 DEF Join

\* What an approving answer hands over.
LEMMA AnswerCred ==
    ASSUME TypeOK, Rows, NEW k \in Collectors, collect[k] # None,
           collect[k].step # "calling", collect[k].result.state = "approved"
    PROVE  collect[k].result.cred \in Nat /\ collect[k].result.cred # None
<1>1. collect[k].result \in Result
  BY CollectRow
<1> QED
  BY <1>1 DEF Rows, Result, Credential

\* Truthful survives a step that keeps what is true of a request, records a
\* join as pending or as answered, and answers a collector truly.
LEMMA TruthfulStep ==
    ASSUME TypeOK, Rows, Truthful,
           \A x \in Id : requests[x] # None => \A s : TrueOf(x, s) => TrueOf(x, s)',
           \A j \in 1..Len(joins) : j \in 1..Len(joins') /\ joins'[j].req = joins[j].req,
           \A j \in 1..Len(joins') :
              \/ joins'[j].state = "pending"
              \/ /\ j \in 1..Len(joins)
                 /\ \/ joins'[j].state = joins[j].state
                    \/ TrueOf(joins[j].req, joins'[j].state),
           issued' \in Nat, issued <= issued',
           member'["host"] # None =>
              \/ member'["host"].pending = None
              \/ member["host"] # None /\ member'["host"].pending = member["host"].pending
              \/ member'["host"].pending \in Nat /\ issued < member'["host"].pending,
           \A k \in Collectors : collect'[k] # None /\ collect'[k].step # "calling" =>
              \/ /\ collect[k] # None /\ collect[k].step # "calling"
                 /\ collect'[k].join = collect[k].join
                 /\ collect'[k].result = collect[k].result
              \/ /\ collect'[k].join \in 1..Len(joins)
                 /\ TrueOf(joins[collect[k].join].req, collect[k].result.state)'
                 /\ collect'[k].result.state = "approved" =>
                       /\ collect'[k].result.cred <= issued'
                       /\ member'["host"] # None =>
                             member'["host"].pending # collect'[k].result.cred,
           lastApproved' # 0 =>
              /\ requests'[lastApproved'] # None
              /\ requests'[lastApproved'].state \in {"approved", "consumed"}
    PROVE  Truthful'
<1>1. ASSUME NEW j \in 1..Len(joins') PROVE TrueOf(joins[j].req, joins[j].state)'
  <2>1. CASE joins'[j].state = "pending"
    BY <2>1 DEF TrueOf
  <2>2. ASSUME j \in 1..Len(joins), TrueOf(joins[j].req, joins'[j].state)
        PROVE  TrueOf(joins[j].req, joins[j].state)'
    <3>1. joins[j].req \in Id /\ requests[joins[j].req] # None /\ joins'[j].req = joins[j].req
      BY <2>2, JoinReqs DEF Rows
    <3>2. \A s : TrueOf(joins[j].req, s) =>
                    /\ s = "approved" => requests'[joins[j].req].state = "consumed"
                    /\ s = "rejected" => requests'[joins[j].req].state = "rejected"
                    /\ s = "expired"  => /\ requests'[joins[j].req].state = "pending"
                                         /\ ~requests'[joins[j].req].live
      <4> DEFINE x == joins[j].req
      <4>1. ASSUME NEW y \in Id, requests[y] # None, NEW s, TrueOf(y, s)
            PROVE  /\ s = "approved" => requests'[y].state = "consumed"
                   /\ s = "rejected" => requests'[y].state = "rejected"
                   /\ s = "expired"  => requests'[y].state = "pending" /\ ~requests'[y].live
        <5>1. TrueOf(y, s)'
          BY <4>1
        <5> QED
          BY <5>1 DEF TrueOf
      <4> QED
        BY <3>1, <4>1
    <3> QED
      BY <2>2, <3>1, <3>2 DEF TrueOf
  <2>3. j \in 1..Len(joins) => TrueOf(joins[j].req, joins[j].state)
    BY DEF Truthful
  <2> QED
    BY <2>1, <2>2, <2>3
<1>2. ASSUME NEW k \in Collectors, collect'[k] # None, collect'[k].step # "calling"
      PROVE  /\ TrueOf(joins[collect[k].join].req, collect[k].result.state)'
             /\ collect'[k].result.state = "approved" =>
                   /\ collect'[k].result.cred <= issued'
                   /\ member'["host"] # None =>
                         member'["host"].pending # collect'[k].result.cred
  <2>1. CASE /\ collect[k] # None /\ collect[k].step # "calling"
             /\ collect'[k].join = collect[k].join /\ collect'[k].result = collect[k].result
    <3> DEFINE y == joins[collect[k].join].req
    <3>1. y \in Id /\ requests[y] # None /\ joins'[collect'[k].join].req = y
      BY <2>1, CollectRow DEF Rows
    <3>2. TrueOf(y, collect[k].result.state)
      BY <2>1 DEF Truthful
    <3>3. TrueOf(joins[collect[k].join].req, collect[k].result.state)'
      <4>1. ASSUME NEW z \in Id, requests[z] # None, NEW s, TrueOf(z, s)
            PROVE  /\ s = "approved" => requests'[z].state = "consumed"
                   /\ s = "rejected" => requests'[z].state = "rejected"
                   /\ s = "expired"  => requests'[z].state = "pending" /\ ~requests'[z].live
        <5>1. TrueOf(z, s)'
          BY <4>1
        <5> QED
          BY <5>1 DEF TrueOf
      <4> HIDE DEF y
      <4> QED
        BY <2>1, <3>1, <3>2, <4>1 DEF TrueOf
    <3>4. collect[k].result.state = "approved" =>
            /\ collect[k].result.cred \in Nat /\ collect[k].result.cred # None
            /\ collect[k].result.cred <= issued
            /\ member["host"] # None => member["host"].pending # collect[k].result.cred
      BY <2>1, AnswerCred DEF Truthful
    <3>5. issued \in Nat
      BY Typed
    <3> QED
      BY <2>1, <3>3, <3>4, <3>5
  <2> QED
    BY <1>2, <2>1
<1> QED
  BY <1>1, <1>2 DEF Truthful

\* Marked survives a step that marks all it can concern.
LEMMA MarkedStep ==
    ASSUME Rows, Marked, \E so \in BOOLEAN : Overlaps(so), UNCHANGED <<joins, begin>>,
           TypeOK
    PROVE  Marked'
<1>1. \A j \in 1..Len(joins) : joins[j].req \in Begun
  BY JoinReqs DEF Rows, Begun
<1>2. begin # None => begin.inv \in Begun
  BY DEF Begun
<1>3. PICK so \in BOOLEAN : Overlaps(so)
  OBVIOUS
<1>4. CASE so
  BY <1>1, <1>2, <1>3, <1>4 DEF Overlaps, Marked
<1>5. CASE ~so
  BY <1>3, <1>5 DEF Overlaps, Marked
<1> QED
  BY <1>4, <1>5

LEMMA MarkedKept ==
    ASSUME Marked, UNCHANGED <<overlap, mixed>>,
           begin' # None => begin # None /\ begin'.inv = begin.inv,
           \A j \in 1..Len(joins') :
              \/ j \in 1..Len(joins) /\ joins'[j].req = joins[j].req
              \/ begin # None /\ joins'[j].req = begin.inv
    PROVE  Marked'
  BY DEF Marked

\* Steps that leave the tables of the pairing and the collectors alone.
LEMMA MemberFacts ==
    ASSUME TypeOK, Rows, Truthful, Issued, UNCHANGED <<pairing, collect, lastApproved>>,
           issued' \in Nat, issued <= issued',
           \A m \in Node : member'[m] # None =>
              /\ member[m] # None
              /\ member'[m].outbound \in Nat /\ member'[m].outbound <= issued'
              /\ \/ member'[m].pending \in {member[m].pending, None}
                 \/ /\ member'[m].pending \in Nat /\ issued < member'[m].pending
                    /\ member'[m].pending <= issued'
              /\ member'[m].live => member'[m].pending # None,
           \A m \in Node : /\ auth'[m] # None => auth'[m].cred <= issued'
                           /\ carried'[m] # None => carried'[m] <= issued'
    PROVE  Truthful' /\ Issued'
<1>1. "host" \in Node /\ "joiner" \in Node /\ issued \in Nat
  BY Typed DEF Node
<1>2. Truthful'
  <2>1. \A x \in Id : requests[x] # None => \A s : TrueOf(x, s) => TrueOf(x, s)'
    BY DEF TrueOf, pairing, tables
  <2>2. lastApproved' # 0 =>
              /\ requests'[lastApproved'] # None
              /\ requests'[lastApproved'].state \in {"approved", "consumed"}
    BY DEF Truthful, pairing, tables
  <2> QED
    BY <1>1, <2>1, <2>2, TruthfulStep DEF pairing, tables
<1>3. \A m \in Node : member[m] # None /\ member[m].pending # None =>
         member[m].pending \in Nat /\ member[m].pending <= issued
  BY Typed DEF Issued
<1>4. \A m \in Node : member'[m] # None =>
         /\ member'[m].outbound <= issued'
         /\ member'[m].pending # None => member'[m].pending <= issued'
         /\ member'[m].live => member'[m].pending # None
  BY <1>1, <1>3
<1>5. \A i \in Id : requests[i] # None =>
         requests[i].cred \in Nat /\ requests[i].cred <= issued /\ requests[i].cred # None
  BY NoneAssumption DEF TypeOK, Request, Credential, Rows
<1>6. \A i \in Id : requests[i] # None /\ member'["joiner"] # None
                     => member'["joiner"].pending # requests[i].cred
  BY <1>1, <1>5 DEF Issued
<1> QED
  BY <1>2, <1>4, <1>6 DEF Issued, pairing, tables

\* ... and change a row of cluster_members at most.
LEMMA RowFacts ==
    ASSUME TypeOK, Rows, Truthful, Issued, UNCHANGED <<pairing, collect, lastApproved, auth>>,
           NEW n \in Node, member[n] # None, NEW r \in Member,
           member' = [member EXCEPT ![n] = r], issued' \in Nat, issued <= issued',
           r.outbound \in Nat, r.outbound <= issued',
           \/ r.pending \in {member[n].pending, None}
           \/ r.pending \in Nat /\ issued < r.pending /\ r.pending <= issued',
           r.live => r.pending # None,
           \A m \in Node : carried'[m] # None => carried'[m] <= issued'
    PROVE  Truthful' /\ Issued'
<1>1. member'[n] = r /\ member'[Peer(n)] = member[Peer(n)] /\ issued \in Nat
  BY RowReplaced, Typed
<1>2. \A m \in Node : member[m] # None =>
         /\ member[m].outbound \in Nat /\ member[m].outbound <= issued
         /\ member[m].live => member[m].pending # None
  BY Typed DEF Issued
<1>3. ASSUME NEW m \in Node, member'[m] # None
      PROVE  /\ member[m] # None
             /\ member'[m].outbound \in Nat /\ member'[m].outbound <= issued'
             /\ \/ member'[m].pending \in {member[m].pending, None}
                \/ /\ member'[m].pending \in Nat /\ issued < member'[m].pending
                   /\ member'[m].pending <= issued'
             /\ member'[m].live => member'[m].pending # None
  <2>1. CASE m = n
    BY <1>1, <2>1
  <2>2. CASE m = Peer(n)
    BY <1>1, <1>2, <1>3, <2>2
  <2> QED
    BY <2>1, <2>2, Peers
<1>4. \A m \in Node : auth[m] # None => auth[m].cred \in Nat /\ auth[m].cred <= issued
  <2>1. \A m \in Node : auth[m] # None => auth[m] \in Auth
    BY DEF TypeOK
  <2> QED
    BY <2>1 DEF Auth, Credential, Issued
<1>5. \A m \in Node : auth'[m] # None => auth'[m].cred <= issued'
  BY <1>1, <1>4
<1> QED
  BY <1>3, <1>5, MemberFacts

\* The member commands and the steps of an authentication.
LEMMA MembersFacts ==
    ASSUME TypeOK, Rows, Facts, NEW n \in Node,
           \/ \E enabled \in BOOLEAN : SetEnabled(n, enabled)
           \/ Revoke(n) \/ Remove(n) \/ RotateInbound(n) \/ SetOutboundCredential(n)
           \/ RotationExpires(n)
           \/ Authenticate(n) \/ AcceptHandshake(n) \/ VerifyPeer(n) \/ Authenticated(n)
    PROVE  Facts'
<1>1. /\ issued \in Nat /\ Truthful /\ Issued /\ Marked
      /\ \A m \in Node : member[m] # None =>
            /\ member[m].outbound \in Nat /\ member[m].outbound <= issued
            /\ member[m].pending # None => member[m].pending \in Nat
            /\ member[m].live => member[m].pending # None
  BY Typed DEF Facts, Issued
<1>2. \A m \in Node : carried[m] # None =>
         carried[m] \in Nat /\ carried[m] <= issued
  BY DEF Facts, Issued, TypeOK, Credential
<1>3. \A r \in Member : r # None
  BY NoneAssumption
<1>4. ASSUME UNCHANGED <<pairing, overlap, mixed>> PROVE Marked'
  BY <1>1, <1>4, MarkedKept DEF pairing, tables
<1>5. ASSUME NEW so \in BOOLEAN, Overlaps(so), UNCHANGED pairing PROVE Marked'
  BY <1>1, <1>5, MarkedStep DEF pairing, tables
<1>6. ASSUME NEW enabled \in BOOLEAN, SetEnabled(n, enabled) PROVE Facts'
  <2>1. PICK r \in Member :
          /\ member' = [member EXCEPT ![n] = r] /\ member[n] # None
          /\ r.outbound = member[n].outbound
          /\ r.pending = member[n].pending /\ r.live = member[n].live
    BY <1>6, SetEnabledEffect DEF SetEnabled
  <2>2. UNCHANGED <<pairing, collect, issued, lastApproved, auth, carried, overlap, mixed>>
    BY <1>6 DEF SetEnabled, peers, history, overlaps
  <2>9. /\ r.outbound \in Nat /\ r.outbound <= issued'
        /\ r.live => r.pending # None
        /\ issued' \in Nat /\ issued <= issued'
        /\ \A m \in Node : carried'[m] # None => carried'[m] <= issued'
    BY <1>1, <1>2, <2>1, <2>2
  <2>3. Truthful' /\ Issued'
    BY <1>1, <2>1, <2>2, <2>9, RowFacts
  <2> QED
    BY <1>4, <2>2, <2>3 DEF Facts
<1>7. ASSUME Revoke(n) PROVE Facts'
  <2>1. PICK r \in Member :
          /\ member' = [member EXCEPT ![n] = r] /\ member[n] # None
          /\ r.outbound = member[n].outbound /\ r.pending = None /\ r.live = FALSE
    BY <1>7, RevokeEffect DEF Revoke
  <2>2. UNCHANGED <<pairing, collect, issued, lastApproved, auth, overlap, mixed>>
    BY <1>7 DEF Revoke, history, overlaps
  <2>3. \A m \in Node : carried'[m] \in {carried[m], None}
    BY <1>7 DEF Revoke, TypeOK
  <2>9. /\ r.outbound \in Nat /\ r.outbound <= issued'
        /\ r.live => r.pending # None
        /\ issued' \in Nat /\ issued <= issued'
        /\ \A m \in Node : carried'[m] # None => carried'[m] <= issued'
    BY <1>1, <1>2, <2>1, <2>2, <2>3
  <2>4. Truthful' /\ Issued'
    BY <1>1, <2>1, <2>2, <2>9, RowFacts
  <2> QED
    BY <1>4, <2>2, <2>4 DEF Facts
<1>8. ASSUME Remove(n) PROVE Facts'
  <2>1. \A m \in Node : member'[m] # None => member[m] # None /\ member'[m] = member[m]
    BY <1>8 DEF Remove, TypeOK
  <2>2. UNCHANGED <<pairing, collect, issued, lastApproved, auth, overlap, mixed>>
    BY <1>8 DEF Remove, overlaps
  <2>3. \A m \in Node : carried'[m] \in {carried[m], None}
    BY <1>8 DEF Remove, TypeOK
  <2>4. \A m \in Node : auth'[m] # None => auth'[m].cred <= issued'
    BY <1>1, <2>2 DEF Issued
  <2>5. Truthful' /\ Issued'
    BY <1>1, <1>2, <2>1, <2>2, <2>3, <2>4, MemberFacts
  <2> QED
    BY <1>4, <2>2, <2>5 DEF Facts
<1>9. ASSUME RotateInbound(n) PROVE Facts'
  <2>1. PICK r \in Member :
          /\ member' = [member EXCEPT ![n] = r] /\ member[n] # None
          /\ r.outbound = member[n].outbound /\ r.pending = Fresh /\ r.live = TRUE
    BY <1>9, RotateInboundEffect DEF RotateInbound
  <2>6. issued' = Fresh /\ Fresh \in Credential
    BY <1>9, RotateInboundEffect
  <2>2. issued' = Fresh /\ Fresh \in Nat /\ Fresh = issued + 1 /\ Fresh # None
    BY <1>1, <2>6, NoneAssumption DEF Fresh
  <2>3. UNCHANGED <<pairing, collect, lastApproved, auth>>
    BY <1>9 DEF RotateInbound
  <2>4. \A m \in Node : carried'[m] \in {carried[m], Fresh}
    BY <1>9 DEF RotateInbound, TypeOK
  <2>5. Truthful' /\ Issued'
    <3>1. \A m \in Node : carried'[m] # None => carried'[m] <= issued'
      BY <1>1, <1>2, <2>2, <2>4
    <3>2. /\ r.outbound \in Nat /\ r.outbound <= issued'
          /\ r.live => r.pending # None
          /\ r.pending \in Nat /\ issued < r.pending /\ r.pending <= issued'
          /\ issued' \in Nat /\ issued <= issued'
      BY <1>1, <2>1, <2>2
    <3> QED
      BY <1>1, <2>1, <2>3, <3>1, <3>2, RowFacts
  <2> QED
    BY <1>5, <1>9, <2>3, <2>5 DEF Facts, RotateInbound
<1>10. ASSUME SetOutboundCredential(n) PROVE Facts'
  <2>1. PICK r \in Member :
          /\ member' = [member EXCEPT ![n] = r] /\ member[n] # None
          /\ r.outbound = carried[Peer(n)]
          /\ r.pending = member[n].pending /\ r.live = member[n].live
    BY <1>10, SetOutboundEffect DEF SetOutboundCredential
  <2>2. UNCHANGED <<pairing, collect, issued, lastApproved, auth, overlap, mixed>>
    BY <1>10 DEF SetOutboundCredential, history, overlaps
  <2>3. \A m \in Node : carried'[m] \in {carried[m], None}
    BY <1>10 DEF SetOutboundCredential, TypeOK
  <2>4. carried[Peer(n)] \in Nat /\ carried[Peer(n)] <= issued
    BY <1>2, <1>10, Peers DEF SetOutboundCredential
  <2>9. /\ r.outbound \in Nat /\ r.outbound <= issued'
        /\ r.live => r.pending # None
        /\ issued' \in Nat /\ issued <= issued'
        /\ \A m \in Node : carried'[m] # None => carried'[m] <= issued'
    BY <1>1, <1>2, <2>1, <2>2, <2>3, <2>4
  <2>5. Truthful' /\ Issued'
    BY <1>1, <2>1, <2>2, <2>9, RowFacts
  <2> QED
    BY <1>4, <2>2, <2>5 DEF Facts
<1>11. ASSUME RotationExpires(n) PROVE Facts'
  <2>1. PICK r \in Member :
          /\ member' = [member EXCEPT ![n] = r] /\ member[n] # None
          /\ r.outbound = member[n].outbound
          /\ r.pending = member[n].pending /\ r.live = FALSE
    BY <1>11, RotationExpiresEffect DEF RotationExpires
  <2>2. UNCHANGED <<pairing, collect, issued, lastApproved, auth>>
    BY <1>11 DEF RotationExpires
  <2>3. \A m \in Node : carried'[m] \in {carried[m], None}
    BY <1>11 DEF RotationExpires, TypeOK
  <2>9. /\ r.outbound \in Nat /\ r.outbound <= issued'
        /\ r.live => r.pending # None
        /\ issued' \in Nat /\ issued <= issued'
        /\ \A m \in Node : carried'[m] # None => carried'[m] <= issued'
    BY <1>1, <1>2, <2>1, <2>2, <2>3
  <2>4. Truthful' /\ Issued'
    BY <1>1, <2>1, <2>2, <2>9, RowFacts
  <2> QED
    BY <1>5, <1>11, <2>2, <2>4 DEF Facts, RotationExpires
<1>12. ASSUME Authenticate(n) \/ AcceptHandshake(n) \/ VerifyPeer(n) PROVE Facts'
  <2>1. PICK a \in Auth : auth' = [auth EXCEPT ![n] = a] /\ a.cred = member[Peer(n)].outbound
    BY <1>12, VerifiedEffect
  <2>2. /\ member[Peer(n)] # None
        /\ UNCHANGED <<pairing, member, collect, issued, lastApproved, carried, overlap, mixed>>
    BY <1>3, <1>12, VerifiedEffect DEF history, overlaps
  <2>3. \A m \in Node : auth'[m] # None => auth'[m].cred <= issued'
    BY <1>1, <2>1, <2>2, Peers DEF Issued, TypeOK
  <2>4. Truthful' /\ Issued'
    BY <1>1, <1>2, <2>2, <2>3, MemberFacts
  <2> QED
    BY <1>4, <2>2, <2>4 DEF Facts
<1>13. ASSUME Authenticated(n) PROVE Facts'
  <2>1. UNCHANGED <<pairing, collect, issued, lastApproved, carried, overlap, mixed>>
    BY <1>13 DEF Authenticated, overlaps
  <2>2. \A m \in Node : auth'[m] # None => auth'[m].cred <= issued'
    BY <1>1, <1>13, <2>1 DEF Authenticated, Issued, TypeOK
  <2>3. \A m \in Node : member'[m] # None =>
          /\ member[m] # None
          /\ member'[m].outbound = member[m].outbound
          /\ member'[m].pending \in {member[m].pending, None}
          /\ member'[m].live => member'[m].pending # None
    <3>1. CASE UNCHANGED member
      BY <1>1, <3>1
    <3>2. CASE /\ member[n] \in Member
               /\ \E r \in Member : /\ member' = [member EXCEPT ![n] = r]
                                    /\ r.outbound = member[n].outbound
                                    /\ r.pending = None /\ r.live = FALSE
      <4>1. PICK r \in Member : /\ member' = [member EXCEPT ![n] = r]
                                /\ r.outbound = member[n].outbound
                                /\ r.pending = None /\ r.live = FALSE
        BY <3>2
      <4>2. member'[n] = r /\ member'[Peer(n)] = member[Peer(n)] /\ member[n] # None
        BY <1>3, <3>2, <4>1, RowReplaced
      <4> QED
        BY <1>1, <4>1, <4>2, Peers
    <3> QED
      BY <1>13, <3>1, <3>2, AuthenticatedEffect
  <2>4. Truthful' /\ Issued'
    BY <1>1, <1>2, <2>1, <2>2, <2>3, MemberFacts
  <2> QED
    BY <1>4, <2>1, <2>4 DEF Facts
<1> QED
  BY <1>6, <1>7, <1>8, <1>9, <1>10, <1>11, <1>12, <1>13

\* Steps of a pairing: members, authentications and rotations stay as they are.
LEMMA IssuedKept ==
    ASSUME Issued, UNCHANGED <<member, auth, carried, issued>>,
           \A i \in Id : /\ requests'[i] # None => requests[i] # None
                         /\ requests[i] # None => requests'[i].cred = requests[i].cred
    PROVE  Issued'
  BY DEF Issued

\* A pending request that is decided or whose lifetime ends.
LEMMA EndedTrue ==
    ASSUME TypeOK, NEW i \in Id, NEW q \in Request, requests[i] # None,
           requests[i].state = "pending", requests[i].live,
           requests' = [requests EXCEPT ![i] = q]
    PROVE  /\ \A x \in Id : requests[x] # None => \A s : TrueOf(x, s) => TrueOf(x, s)'
           /\ \A x \in Id : x # i => requests'[x] = requests[x]
           /\ requests'[i] = q /\ q # None
<1>1. requests'[i] = q /\ \A x \in Id : x # i => requests'[x] = requests[x]
  BY DEF TypeOK
<1>2. q # None
  BY NoneAssumption
<1>3. ASSUME NEW x \in Id, NEW s, TrueOf(x, s) PROVE TrueOf(x, s)'
  <2>1. CASE x = i
    BY <1>1, <1>3, <2>1 DEF TrueOf
  <2>2. CASE x # i
    BY <1>1, <1>3, <2>2 DEF TrueOf
  <2> QED
    BY <2>1, <2>2
<1> QED
  BY <1>1, <1>2, <1>3

\* A request that is not approved is not the one approved last.
LEMMA NotApproved ==
    ASSUME Truthful, NEW i \in Id,
           requests[i] # None => requests[i].state \notin {"approved", "consumed"}
    PROVE  lastApproved # i
<1>1. i # 0
  BY BoundsAssumption DEF Id
<1> QED
  BY <1>1 DEF Truthful

LEMMA PairingFacts ==
    ASSUME TypeOK, Rows, Facts,
           \/ \E i \in Id : Invite(i) \/ BeginOutbound(i) \/ Expire(i)
           \/ \E i \in Id, approve \in BOOLEAN : Decide(i, approve)
           \/ SubmitJoin \/ RecordJoin \/ BeginFails
    PROVE  Facts'
<1>1. /\ issued \in Nat /\ Truthful /\ Issued /\ Marked
      /\ Len(joins) \in Nat /\ "host" \in Node /\ "joiner" \in Node
  BY Typed DEF Facts, Node
<1>2. \A i \in Id : requests[i] # None =>
         requests[i].cred \in Nat /\ requests[i].cred <= issued
  BY DEF TypeOK, Request, Credential, Rows
<1>3. ASSUME UNCHANGED <<requests, joins, member, collect, issued, lastApproved>>
      PROVE  Truthful'
  BY <1>1, <1>3 DEF Truthful, TrueOf
<1>4. ASSUME NEW i \in Id, Invite(i) PROVE Facts'
  <2>1. UNCHANGED <<requests, joins, begin, member, auth, carried, collect, issued,
                    lastApproved, overlap, mixed>>
    BY <1>4 DEF Invite, peers, history, overlaps
  <2> QED
    BY <1>1, <1>3, <2>1, IssuedKept, MarkedKept DEF Facts
<1>5. ASSUME BeginFails PROVE Facts'
  <2>1. begin' = None /\ UNCHANGED <<requests, joins, member, auth, carried, collect, issued,
                                     lastApproved, overlap, mixed>>
    BY <1>5 DEF BeginFails, tables, peers, history, overlaps
  <2> QED
    BY <1>1, <1>3, <2>1, IssuedKept, MarkedKept DEF Facts
<1>6. ASSUME NEW i \in Id, BeginOutbound(i) PROVE Facts'
  <2>1. UNCHANGED <<requests, joins, member, auth, carried, collect, issued, lastApproved>>
    BY <1>6 DEF BeginOutbound, tables, peers
  <2>2. Marked'
    <3>1. CASE Alone
      BY <1>6, <3>1 DEF BeginOutbound, Marked
    <3>2. CASE ~Alone
      <4>1. mixed' = mixed \cup Begun \cup {i} /\ begin' = [step |-> "calling", inv |-> i]
        BY <1>6, <3>2 DEF BeginOutbound
      <4>2. \A j \in 1..Len(joins) : joins[j].req \in Begun
        BY JoinReqs DEF Rows, Begun
      <4> QED
        BY <2>1, <4>1, <4>2 DEF Marked
    <3> QED
      BY <3>1, <3>2
  <2> QED
    BY <1>1, <1>3, <2>1, <2>2, IssuedKept DEF Facts
<1>7. ASSUME SubmitJoin PROVE Facts'
  <2>1. PICK i \in Id, c \in Credential :
          /\ i = begin.inv /\ c = Fresh /\ issued' = c
          /\ invitations[i].state = "pending"
          /\ requests' = [requests EXCEPT
                            ![i] = [state |-> "pending", live |-> TRUE, cred |-> c]]
          /\ begin' = [step |-> "answered", inv |-> i, cred |-> c]
          /\ UNCHANGED <<joins, member, nonces, auth, carried, collect, history>>
    BY <1>7, SubmitJoinEffect
  <2>2. begin # None /\ requests[i] = None
    BY <1>7, <2>1 DEF SubmitJoin, Rows
  <2>3. c \in Nat /\ c = issued + 1 /\ issued' = issued + 1 /\ c # None
    BY <1>1, <2>1, NoneAssumption DEF Fresh, Credential
  <2>4. /\ requests'[i].cred = c
        /\ \A x \in Id : x # i => requests'[x] = requests[x]
    BY <2>1 DEF TypeOK
  <2>5. \A x \in Id : requests[x] # None => \A s : TrueOf(x, s) => TrueOf(x, s)'
    BY <2>2, <2>4 DEF TrueOf
  <2>6. lastApproved # 0 => /\ requests'[lastApproved] # None
                            /\ requests'[lastApproved].state \in {"approved", "consumed"}
    BY <1>1, <2>2, <2>4, NotApproved DEF Truthful, TypeOK
  <2>7. Truthful'
    BY <1>1, <2>1, <2>3, <2>5, <2>6, TruthfulStep DEF history
  <2>8. \A n \in Node : /\ member[n] # None =>
                              /\ member[n].outbound \in Nat /\ member[n].outbound <= issued
                              /\ member[n].pending # None =>
                                    member[n].pending \in Nat /\ member[n].pending <= issued
                        /\ auth[n] # None => auth[n].cred \in Nat /\ auth[n].cred <= issued
                        /\ carried[n] # None => carried[n] \in Nat /\ carried[n] <= issued
    <3>1. \A n \in Node : auth[n] # None => auth[n] \in Auth
      BY DEF TypeOK
    <3> QED
      BY <1>1, <3>1, Typed DEF Issued, Auth, Credential, TypeOK
  <2>9. Issued'
    <3>1. ASSUME NEW x \in Id, requests'[x] # None, member["joiner"] # None
          PROVE  member["joiner"].pending # requests'[x].cred
      <4>1. CASE x = i
        BY <1>1, <2>3, <2>4, <2>8, <3>1, <4>1
      <4>2. CASE x # i
        BY <1>1, <2>4, <3>1, <4>2 DEF Issued
      <4> QED
        BY <4>1, <4>2
    <3> QED
      BY <1>1, <2>1, <2>3, <2>8, <3>1 DEF Issued
  <2>10. Marked'
    BY <1>1, <2>1, <2>2, MarkedKept DEF history, overlaps
  <2> QED
    BY <2>7, <2>9, <2>10 DEF Facts
<1>8. ASSUME RecordJoin PROVE Facts'
  <2>1. PICK r \in Join :
          /\ r.req = begin.inv /\ r.state = "pending"
          /\ Len(joins') = Len(joins) + 1 /\ joins'[Len(joins')] = r
          /\ \A j \in 1..Len(joins) : joins'[j] = joins[j]
    BY <1>8, RecordJoinEffect
  <2>2. /\ begin # None /\ begin' = None
        /\ UNCHANGED <<requests, collect, member, auth, carried, issued, lastApproved,
                       overlap, mixed>>
    BY <1>8 DEF RecordJoin, peers, history, overlaps
  <2>3. \A j \in 1..Len(joins') : j \in 1..Len(joins) \/ joins'[j] = r
    BY <1>1, <2>1
  <2>4. \A j \in 1..Len(joins) : j \in 1..Len(joins')
    BY <1>1, <2>1
  <2>5. \A x \in Id : requests[x] # None => \A s : TrueOf(x, s) => TrueOf(x, s)'
    BY <2>2 DEF TrueOf
  <2>6. Truthful'
    <3>1. \A j \in 1..Len(joins') :
              \/ joins'[j].state = "pending"
              \/ j \in 1..Len(joins) /\ joins'[j].state = joins[j].state
      BY <2>1, <2>3
    <3>2. lastApproved' # 0 =>
              /\ requests'[lastApproved'] # None
              /\ requests'[lastApproved'].state \in {"approved", "consumed"}
      BY <1>1, <2>2 DEF Truthful
    <3> QED
      BY <1>1, <2>1, <2>2, <2>4, <2>5, <3>1, <3>2, TruthfulStep
  <2>7. Marked'
    <3>1. \A j \in 1..Len(joins') :
              \/ j \in 1..Len(joins) /\ joins'[j].req = joins[j].req
              \/ joins'[j].req = begin.inv
      BY <2>1, <2>3
    <3> QED
      BY <1>1, <2>2, <3>1, MarkedKept
  <2> QED
    BY <1>1, <2>2, <2>6, <2>7, IssuedKept DEF Facts
<1>9. ASSUME NEW i \in Id, Expire(i) PROVE Facts'
  <2>1. UNCHANGED <<joins, begin, member, collect, auth, carried, issued, lastApproved,
                    overlap, mixed>>
    BY <1>9 DEF Expire, peers, history, overlaps
  <2>2. CASE UNCHANGED requests
    BY <1>1, <1>3, <2>1, <2>2, IssuedKept, MarkedKept DEF Facts
  <2>3. CASE /\ requests[i] \in Request /\ requests[i].state = "pending"
             /\ requests[i].live
             /\ \E q \in Request : /\ requests' = [requests EXCEPT ![i] = q]
                                   /\ q.cred = requests[i].cred
    <3>1. PICK q \in Request : /\ requests' = [requests EXCEPT ![i] = q]
                               /\ q.cred = requests[i].cred
      BY <2>3
    <3>2. requests[i] # None
      BY <2>3, NoneAssumption
    <3>3. /\ \A x \in Id : requests[x] # None => \A s : TrueOf(x, s) => TrueOf(x, s)'
          /\ \A x \in Id : x # i => requests'[x] = requests[x]
          /\ requests'[i] = q /\ q # None
      BY <2>3, <3>1, <3>2, EndedTrue
    <3>4. lastApproved' # 0 =>
              /\ requests'[lastApproved'] # None
              /\ requests'[lastApproved'].state \in {"approved", "consumed"}
      BY <1>1, <2>1, <2>3, <3>3, NotApproved DEF Truthful, TypeOK
    <3>5. Truthful'
      BY <1>1, <2>1, <3>3, <3>4, TruthfulStep
    <3>6. Issued'
      BY <1>1, <2>1, <3>1, <3>2, <3>3, IssuedKept
    <3> QED
      BY <1>1, <2>1, <3>5, <3>6, MarkedKept DEF Facts
  <2> QED
    BY <1>9, <2>2, <2>3, ExpireEffect
<1>10. ASSUME NEW i \in Id, NEW approve \in BOOLEAN, Decide(i, approve) PROVE Facts'
  <2>1. PICK q \in Request : /\ requests' = [requests EXCEPT ![i] = q]
                             /\ q.state = IF approve THEN "approved" ELSE "rejected"
                             /\ q.cred = requests[i].cred
    BY <1>10, DecideEffect
  <2>2. /\ requests[i] # None /\ requests[i].state = "pending" /\ requests[i].live
        /\ UNCHANGED <<joins, begin, collect, auth, carried, issued, overlap, mixed>>
    BY <1>10 DEF Decide, peers, overlaps
  <2>3. /\ \A x \in Id : requests[x] # None => \A s : TrueOf(x, s) => TrueOf(x, s)'
        /\ \A x \in Id : x # i => requests'[x] = requests[x]
        /\ requests'[i] = q /\ q # None
    BY <2>1, <2>2, EndedTrue
  <2>4. lastApproved # i
    BY <1>1, <2>2, NotApproved
  <2>5. Marked'
    BY <1>1, <2>2, MarkedKept
  <2>6. CASE approve = FALSE
    <3>1. UNCHANGED <<member, lastApproved>>
      BY <1>10, <2>6, DecideEffect
    <3>2. lastApproved' # 0 =>
              /\ requests'[lastApproved'] # None
              /\ requests'[lastApproved'].state \in {"approved", "consumed"}
      BY <1>1, <2>3, <2>4, <3>1 DEF Truthful, TypeOK
    <3>3. Truthful'
      BY <1>1, <2>2, <2>3, <3>1, <3>2, TruthfulStep
    <3>4. Issued'
      BY <1>1, <2>1, <2>2, <2>3, <3>1, IssuedKept
    <3> QED
      BY <2>5, <3>3, <3>4 DEF Facts
  <2>7. CASE approve = TRUE
    <3>1. PICK r \in Member :
            /\ member' = [member EXCEPT !["host"] = r]
            /\ r.outbound = requests[i].cred
            /\ member["host"] = None => r.pending = None /\ r.live = FALSE
            /\ member["host"] # None => /\ r.pending = member["host"].pending
                                        /\ r.live = member["host"].live
      BY <1>10, <2>7, DecideEffect
    <3>2. lastApproved' = i /\ q.state = "approved"
      BY <1>10, <2>1, <2>7, DecideEffect
    <3>3. member'["host"] = r /\ member'["joiner"] = member["joiner"]
      BY <1>1, <3>1, RowReplaced, Peers
    <3>4. Truthful'
      <4>1. /\ r.pending = None
               \/ (member["host"] # None /\ r.pending = member["host"].pending)
        BY <3>1
      <4> QED
        BY <1>1, <2>2, <2>3, <3>2, <3>3, <4>1, TruthfulStep
    <3>5. Issued'
      <4>1. \A n \in Node : member'[n] # None =>
              /\ member'[n].outbound <= issued
              /\ member'[n].pending # None => member'[n].pending <= issued
              /\ member'[n].live => member'[n].pending # None
        BY <1>1, <1>2, <2>2, <3>1, <3>3 DEF Issued, Node
      <4>2. \A x \in Id : requests'[x] # None /\ member'["joiner"] # None
                           => member'["joiner"].pending # requests'[x].cred
        BY <1>1, <2>1, <2>2, <2>3, <3>3 DEF Issued
      <4> QED
        BY <1>1, <2>2, <4>1, <4>2 DEF Issued
    <3> QED
      BY <2>5, <3>4, <3>5 DEF Facts
  <2> QED
    BY <2>6, <2>7
<1> QED
  BY <1>4, <1>5, <1>6, <1>7, <1>8, <1>9, <1>10

\* The steps of a collector.
LEMMA CollectFacts ==
    ASSUME TypeOK, Rows, Facts,
           \/ \E k \in Collectors, j \in 1..Len(joins) : CollectOutbound(k, j)
           \/ \E k \in Collectors : Poll(k) \/ AcceptRemote(k) \/ CollectFinish(k)
                                    \/ CollectFails(k)
           \/ PruneNonces \/ UNCHANGED vars
    PROVE  Facts'
<1>1. /\ issued \in Nat /\ Truthful /\ Issued /\ Marked
      /\ Len(joins) \in Nat /\ "host" \in Node /\ "joiner" \in Node
  BY Typed DEF Facts, Node
<1>2. \A n \in Node : /\ member[n] # None =>
                            /\ member[n].outbound \in Nat /\ member[n].outbound <= issued
                            /\ member[n].pending # None =>
                                  member[n].pending \in Nat /\ member[n].pending <= issued
                      /\ auth[n] # None => auth[n].cred \in Nat /\ auth[n].cred <= issued
                      /\ carried[n] # None => carried[n] \in Nat /\ carried[n] <= issued
  <2>1. \A n \in Node : auth[n] # None => auth[n] \in Auth
    BY DEF TypeOK
  <2> QED
    BY <1>1, <2>1, Typed DEF Issued, Auth, Credential, TypeOK
<1>3. lastApproved # 0 => /\ requests[lastApproved] # None
                          /\ requests[lastApproved].state \in {"approved", "consumed"}
  BY <1>1 DEF Truthful
<1>4. ASSUME UNCHANGED <<requests, joins, member, issued, lastApproved>>,
             \A k \in Collectors : collect'[k] # None /\ collect'[k].step # "calling" =>
                /\ collect[k] # None /\ collect[k].step # "calling"
                /\ collect'[k].join = collect[k].join
                /\ collect'[k].result = collect[k].result
      PROVE  Truthful'
  BY <1>1, <1>4 DEF Truthful, TrueOf
<1>5. ASSUME UNCHANGED <<requests, joins, begin, member, auth, carried, collect, issued,
                         lastApproved, overlap, mixed>>
      PROVE  Facts'
  BY <1>1, <1>4, <1>5, IssuedKept, MarkedKept DEF Facts
<1>6. ASSUME NEW k \in Collectors, NEW j \in 1..Len(joins), CollectOutbound(k, j)
      PROVE  Facts'
  <2>1. /\ collect' = [collect EXCEPT ![k] = [step |-> "calling", join |-> j]]
        /\ Overlaps(begin # None \/ \E l \in Collectors : collect[l] # None)
        /\ UNCHANGED <<requests, joins, begin, member, auth, carried, issued, lastApproved>>
    BY <1>6 DEF CollectOutbound, pairing, tables, peers
  <2>2. Truthful'
    BY <1>4, <2>1 DEF TypeOK
  <2>3. Marked'
    BY <1>1, <2>1, MarkedStep
  <2> QED
    BY <1>1, <2>1, <2>2, <2>3, IssuedKept DEF Facts
<1>7. ASSUME NEW k \in Collectors, CollectFails(k) PROVE Facts'
  <2>1. /\ collect' = [collect EXCEPT ![k] = None]
        /\ UNCHANGED <<requests, joins, begin, member, auth, carried, issued, lastApproved,
                       overlap, mixed>>
    BY <1>7 DEF CollectFails, pairing, tables, peers, history, overlaps
  <2>2. Truthful'
    BY <1>4, <2>1 DEF TypeOK
  <2> QED
    BY <1>1, <2>1, <2>2, IssuedKept, MarkedKept DEF Facts
<1>8. ASSUME NEW k \in Collectors, CollectFinish(k) PROVE Facts'
  <2>1. /\ collect[k] # None /\ collect[k].step # "calling"
        /\ collect' = [collect EXCEPT ![k] = None]
        /\ Len(joins') = Len(joins)
        /\ \A j \in 1..Len(joins) :
             /\ joins'[j].req = joins[j].req /\ joins'[j].cred = joins[j].cred
             /\ j # collect[k].join => joins'[j] = joins[j]
        /\ joins'[collect[k].join].state = collect[k].result.state
    BY <1>8, CollectFinishEffect
  <2>2. UNCHANGED <<requests, begin, member, auth, carried, issued, lastApproved,
                    overlap, mixed>>
    BY <1>8 DEF CollectFinish, peers, history, overlaps
  <2>3. \A j \in 1..Len(joins') :
              \/ joins'[j].state = joins[j].state
              \/ TrueOf(joins[j].req, joins'[j].state)
    <3>1. TrueOf(joins[collect[k].join].req, collect[k].result.state)
      BY <1>1, <2>1 DEF Truthful
    <3> QED
      BY <2>1, <3>1
  <2>4. \A x \in Id : requests[x] # None => \A s : TrueOf(x, s) => TrueOf(x, s)'
    BY <2>2 DEF TrueOf
  <2>5. \A l \in Collectors : collect'[l] # None => collect'[l] = collect[l]
    BY <2>1 DEF TypeOK
  <2>6. Truthful'
    BY <1>1, <1>3, <2>1, <2>2, <2>3, <2>4, <2>5, TruthfulStep
  <2> QED
    BY <1>1, <2>1, <2>2, <2>6, IssuedKept, MarkedKept DEF Facts
<1>9. ASSUME NEW k \in Collectors, AcceptRemote(k) PROVE Facts'
  <2>1. PICK c \in Collect : /\ collect' = [collect EXCEPT ![k] = c]
                             /\ c.join = collect[k].join /\ c.result = collect[k].result
    BY <1>9, AcceptRemoteEffect
  <2>2. PICK r \in Member :
          /\ member' = [member EXCEPT !["joiner"] = r]
          /\ r.outbound = collect[k].result.cred
          /\ member["joiner"] = None => r.pending = None /\ r.live = FALSE
          /\ member["joiner"] # None => /\ r.pending = member["joiner"].pending
                                        /\ r.live = member["joiner"].live
    BY <1>9, AcceptRemoteEffect
  <2>3. /\ collect[k] # None /\ collect[k].step = "answered"
        /\ collect[k].result.state = "approved"
        /\ UNCHANGED <<requests, joins, begin, auth, carried, issued, lastApproved,
                       overlap, mixed>>
    BY <1>9 DEF AcceptRemote, pairing, tables, peers, history, overlaps
  <2>4. member'["joiner"] = r /\ member'["host"] = member["host"] /\ r # None
    BY <1>1, <2>2, RowReplaced, Peers, NoneAssumption
  <2>5. \A l \in Collectors : /\ l # k => collect'[l] = collect[l]
                              /\ collect'[k] = c
    BY <2>1 DEF TypeOK
  <2>6. \A x \in Id : requests[x] # None => \A s : TrueOf(x, s) => TrueOf(x, s)'
    BY <2>3 DEF TrueOf
  <2>7. Truthful'
    BY <1>1, <1>3, <2>1, <2>3, <2>4, <2>5, <2>6, TruthfulStep
  <2>8. collect[k].result.cred <= issued
    BY <1>1, <2>3 DEF Truthful
  <2>9. Issued'
    <3>1. \A n \in Node : member'[n] # None =>
            /\ member'[n].outbound <= issued
            /\ member'[n].pending # None => member'[n].pending <= issued
            /\ member'[n].live => member'[n].pending # None
      BY <1>1, <2>2, <2>4, <2>8 DEF Issued, Node
    <3>2. \A i \in Id : requests[i] # None => requests[i].cred # None
      BY NoneAssumption DEF TypeOK, Request
    <3>3. \A i \in Id : requests[i] # None => member'["joiner"].pending # requests[i].cred
      BY <1>1, <2>2, <2>4, <3>2 DEF Issued
    <3> QED
      BY <1>1, <2>3, <3>1, <3>3 DEF Issued
  <2> QED
    BY <1>1, <2>3, <2>7, <2>9, MarkedKept DEF Facts
<1>10. ASSUME NEW k \in Collectors, Poll(k) PROVE Facts'
  <2> DEFINE i == joins[collect[k].join].req
  <2>1. /\ i \in Id /\ requests[i] \in Request /\ requests[i] # None
        /\ collect[k] # None /\ collect[k].step = "calling"
        /\ Told(k, i) \/ Failed(k) \/ Given(k, i)
    BY <1>10, PollEffect, NoneAssumption
  <2>2. UNCHANGED <<joins, begin, auth, carried, lastApproved, overlap, mixed>>
    BY <1>10 DEF Poll, peers, overlaps
  <2>3. collect[k].join \in 1..Len(joins)
    BY <2>1, CollectRow
  <2>4. Marked'
    BY <1>1, <2>2, MarkedKept
  <2>5. CASE Failed(k)
    <3>1. Truthful'
      BY <1>4, <2>2, <2>5 DEF Failed, TypeOK
    <3> QED
      BY <1>1, <2>2, <2>4, <2>5, <3>1, IssuedKept DEF Facts, Failed
  <2>6. CASE Told(k, i)
    <3>1. PICK c \in Collect :
            /\ collect' = [collect EXCEPT ![k] = c]
            /\ c.join = collect[k].join /\ c.result.state # "approved"
            /\ c.result.state = "rejected" => requests[i].state = "rejected"
            /\ c.result.state = "expired" => requests[i].state = "pending" /\ ~requests[i].live
      BY <2>6 DEF Told
    <3>2. UNCHANGED <<requests, member, issued>>
      BY <2>6 DEF Told
    <3>3. \A l \in Collectors : /\ l # k => collect'[l] = collect[l]
                                /\ collect'[k] = c
      BY <3>1 DEF TypeOK
    <3>4. \A x \in Id : requests[x] # None => \A s : TrueOf(x, s) => TrueOf(x, s)'
      BY <3>2 DEF TrueOf
    <3>5. TrueOf(joins[collect[k].join].req, collect[k].result.state)'
      BY <2>2, <3>1, <3>2, <3>3 DEF TrueOf
    <3>6. Truthful'
      BY <1>1, <1>3, <2>2, <2>3, <3>1, <3>2, <3>3, <3>4, <3>5, TruthfulStep
    <3> QED
      BY <1>1, <2>2, <2>4, <3>2, <3>6, IssuedKept DEF Facts
  <2>7. CASE Given(k, i)
    <3>1. /\ issued' = issued + 1 /\ Fresh = issued + 1 /\ Fresh # None
          /\ requests[i].state \in {"approved", "consumed"}
      BY <1>1, <2>7, NoneAssumption DEF Given, Fresh
    <3>2. PICK c \in Collect :
            /\ collect' = [collect EXCEPT ![k] = c]
            /\ c.join = collect[k].join
            /\ c.result.state = "approved" /\ c.result.cred = Fresh
      BY <2>7 DEF Given
    <3>3. PICK q \in Request : /\ requests' = [requests EXCEPT ![i] = q]
                               /\ q.state = "consumed" /\ q.cred = requests[i].cred
      BY <2>7 DEF Given
    <3>4. /\ member'["joiner"] = member["joiner"]
          /\ member["host"] = None => member'["host"] = None
          /\ member["host"] # None =>
                /\ member'["host"].outbound = member["host"].outbound
                /\ member'["host"].pending = member["host"].pending
                /\ member'["host"].live = member["host"].live
      <4>1. CASE member["host"] = None
        BY <2>7, <4>1 DEF Given
      <4>2. CASE member["host"] # None
        <5>1. PICK r \in Member :
                /\ member' = [member EXCEPT !["host"] = r]
                /\ r.outbound = member["host"].outbound
                /\ r.pending = member["host"].pending /\ r.live = member["host"].live
          BY <2>7, <4>2 DEF Given
        <5>2. member'["host"] = r /\ member'["joiner"] = member["joiner"]
          BY <1>1, <5>1, RowReplaced, Peers
        <5> QED
          BY <4>2, <5>1, <5>2
      <4> QED
        BY <4>1, <4>2
    <3>5. requests'[i] = q /\ \A x \in Id : x # i => requests'[x] = requests[x]
      BY <2>1, <3>3 DEF TypeOK
    <3>6. q # None
      BY NoneAssumption
    <3>7. \A l \in Collectors : /\ l # k => collect'[l] = collect[l]
                                /\ collect'[k] = c
      BY <3>2 DEF TypeOK
    <3> HIDE DEF i
    <3>8. \A x \in Id : requests[x] # None => \A s : TrueOf(x, s) => TrueOf(x, s)'
      BY <3>1, <3>3, <3>5 DEF TrueOf
    <3>9. TrueOf(joins[collect[k].join].req, collect[k].result.state)'
      <4>1. joins'[collect'[k].join].req = i
        BY <2>2, <3>2, <3>7 DEF i
      <4> QED
        BY <3>2, <3>3, <3>5, <3>7, <4>1 DEF TrueOf
    <3>10. lastApproved' # 0 =>
              /\ requests'[lastApproved'] # None
              /\ requests'[lastApproved'].state \in {"approved", "consumed"}
      BY <1>3, <2>2, <3>3, <3>5, <3>6 DEF TypeOK
    <3>11. /\ issued' \in Nat /\ issued <= issued'
           /\ member'["host"] # None => member'["host"].pending # Fresh
      BY <1>1, <1>2, <3>1, <3>4
    <3>12. Truthful'
      <4>1. member'["host"] # None =>
              member["host"] # None /\ member'["host"].pending = member["host"].pending
        BY <3>4
      <4>2. \A l \in Collectors : collect'[l] # None /\ collect'[l].step # "calling" =>
              \/ /\ collect[l] # None /\ collect[l].step # "calling"
                 /\ collect'[l].join = collect[l].join
                 /\ collect'[l].result = collect[l].result
              \/ /\ collect'[l].join \in 1..Len(joins)
                 /\ TrueOf(joins[collect[l].join].req, collect[l].result.state)'
                 /\ collect'[l].result.state = "approved" =>
                       /\ collect'[l].result.cred <= issued'
                       /\ member'["host"] # None =>
                             member'["host"].pending # collect'[l].result.cred
        BY <1>1, <2>3, <3>1, <3>2, <3>7, <3>9, <3>11
      <4> QED
        BY <1>1, <2>2, <3>8, <3>10, <3>11, <4>1, <4>2, TruthfulStep
    <3>13. Issued'
      <4>1. \A n \in Node : member'[n] # None =>
              /\ member'[n].outbound <= issued'
              /\ member'[n].pending # None => member'[n].pending <= issued'
              /\ member'[n].live => member'[n].pending # None
        BY <1>1, <1>2, <3>1, <3>4 DEF Issued, Node
      <4>2. \A n \in Node : /\ auth[n] # None => auth[n].cred <= issued'
                            /\ carried[n] # None => carried[n] <= issued'
        BY <1>1, <1>2, <3>1
      <4>3. \A x \in Id : requests'[x] # None /\ member["joiner"] # None
                     => member["joiner"].pending # requests'[x].cred
        BY <1>1, <2>1, <3>3, <3>5 DEF Issued, i
      <4> QED
        BY <2>2, <3>4, <4>1, <4>2, <4>3 DEF Issued
    <3> QED
      BY <2>4, <3>12, <3>13 DEF Facts
  <2> QED
    BY <2>1, <2>5, <2>6, <2>7
<1>11. ASSUME PruneNonces PROVE Facts'
  BY <1>5, <1>11 DEF PruneNonces, pairing, tables, overlaps
<1>12. ASSUME UNCHANGED vars PROVE Facts'
  BY <1>5, <1>12 DEF vars, pairing, tables, peers, history, overlaps
<1> QED
  BY <1>6, <1>7, <1>8, <1>9, <1>10, <1>11, <1>12

LEMMA NextFacts == ASSUME TypeOK, Rows, Facts, [Next]_vars PROVE Facts'
<1>1. CASE PairingCommand
  BY <1>1, PairingFacts, CollectFacts DEF PairingCommand
<1>2. CASE MemberCommand
  BY <1>2, MembersFacts DEF MemberCommand
<1>3. CASE Handler
  BY <1>3, PairingFacts, CollectFacts, MembersFacts DEF Handler
<1>4. CASE Fault
  BY <1>4, PairingFacts, CollectFacts, MembersFacts DEF Fault
<1> QED
  BY <1>1, <1>2, <1>3, <1>4, CollectFacts DEF Next

LEMMA InitFacts == Init => Facts
  BY DEF Init, Facts, Truthful, Issued, Marked

----------------------------------------------------------------------------
(* Without an overlap: the steps that change members                       *)

Exchange == OnNewest /\ Replacements /\ Quiet /\ HandedOver /\ Paired

\* The parts of HandedOver.
Calls == \/ Used
         \/ auth["host"] # None /\ auth["host"].cred = member["host"].inbound
Begins == begin # None /\ begin.step = "answered" /\ Handing(begin.inv)
          => member["host"].outbound = begin.cred
Pends == joins # <<>> /\ Newest.state = "pending" /\ Handing(Newest.req)
         => member["host"].outbound = Newest.cred
Called == /\ joins # <<>> /\ Newest.state = "pending" /\ Handing(Newest.req)
          /\ requests[Newest.req].state = "consumed" /\ member["joiner"] # None /\ Calls
          => member["joiner"].outbound = member["host"].inbound
Collects ==
    \A k \in Collectors :
       /\ collect[k] # None /\ collect[k].step # "calling"
       /\ collect[k].result.state = "approved" /\ Newest.req \notin mixed
       => /\ Handing(Newest.req) => member["host"].inbound = collect[k].result.cred
          /\ collect[k].step = "accepted" /\ member["joiner"] # None
             => /\ member["joiner"].inbound = Newest.cred
                /\ member["joiner"].outbound = collect[k].result.cred

LEMMA Parts == HandedOver <=> Begins /\ Pends /\ Called /\ Collects
  BY DEF HandedOver, Begins, Pends, Called, Calls, Collects

\* Member commands and authentication leave the tables of the pairing alone.
LEMMA KeepPairing ==
    ASSUME Exchange, UNCHANGED <<pairing, collect>>
    PROVE  OnNewest' /\ Pairing' = Pairing
<1>1. OnNewest'
  BY DEF Exchange, OnNewest, Newest, pairing, tables
<1>2. Pairing' = Pairing
  BY DEF Pairing, pairing, tables
<1> QED
  BY <1>1, <1>2

LEMMA KeepHandedOver ==
    ASSUME Exchange, UNCHANGED <<pairing, collect, lastApproved, mixed>>,
           \A m \in Node : member'[m] # None =>
              /\ member[m] # None /\ member'[m].inbound = member[m].inbound
              /\ member'[m].outbound = member[m].outbound,
           Pairing /\ member'["host"] # None /\ member'["joiner"] # None /\ Calls' =>
              Calls \/ member["joiner"].outbound = member["host"].inbound
    PROVE  HandedOver'
<1>1. "host" \in Node /\ "joiner" \in Node /\ Newest' = Newest
  BY DEF Node, Newest, pairing, tables
<1>2. Begins' /\ Pends'
  BY <1>1, Parts DEF Exchange, Begins, Pends, Handing, pairing, tables
<1>3. joins # <<>> /\ Newest.state = "pending" => Pairing
  BY DEF Pairing, Newest
<1>4. Called'
  BY <1>1, <1>3, Parts DEF Exchange, Called, Handing, pairing, tables
<1>5. Collects'
  BY <1>1, Parts DEF Exchange, Collects, Handing, pairing, tables
<1>6. (HandedOver <=> Begins /\ Pends /\ Called /\ Collects)'
  BY Parts, PTL
<1> QED
  BY <1>2, <1>4, <1>5, <1>6

\* Without a pairing nothing is being handed over.
LEMMA NotHandingOver == ASSUME Rows, OnNewest, ~Pairing PROVE HandedOver
<1>1. \A k \in Collectors : collect[k] = None
  BY DEF Rows, OnNewest, Pairing, Newest
<1> QED
  BY <1>1 DEF HandedOver, Pairing, Newest

LEMMA KeepQuiet ==
    ASSUME Exchange, UNCHANGED pairing,
           Pairing => \A m \in Node :
              /\ carried'[m] = None
              /\ member'[m] # None =>
                    /\ member[m] # None /\ member'[m].outbound = member[m].outbound
                    /\ member'[m].live => /\ member[m].live
                                          /\ member'[m].pending = member[m].pending
    PROVE  Quiet'
<1>1. Pairing' = Pairing
  BY DEF Pairing, pairing, tables
<1> QED
  BY <1>1, Peers DEF Exchange, Quiet

LEMMA SetEnabledExchange ==
    ASSUME TypeOK, Rows, Facts, Exchange, ~overlap', mixed' = mixed,
           NEW n \in Node, NEW enabled \in BOOLEAN, SetEnabled(n, enabled)
    PROVE  Exchange'
<1>1. PICK r \in Member :
        /\ member' = [member EXCEPT ![n] = r]
        /\ r.inbound = member[n].inbound /\ r.outbound = member[n].outbound
        /\ r.pending = member[n].pending /\ r.live = member[n].live
  BY SetEnabledEffect
<1>2. /\ member[n] # None /\ member[n].state # "revoked" /\ r # None
      /\ UNCHANGED <<pairing, nonces, auth, carried, collect, issued, lastApproved, leftover>>
  BY NoneAssumption DEF SetEnabled, peers, history
<1>3. member'[n] = r /\ member'[Peer(n)] = member[Peer(n)]
  BY <1>1, RowReplaced
<1>4. \A m \in Node : /\ member'[m] = None <=> member[m] = None
                      /\ member[m] # None =>
                           /\ member'[m].inbound = member[m].inbound
                           /\ member'[m].outbound = member[m].outbound
                           /\ member'[m].pending = member[m].pending
                           /\ member'[m].live = member[m].live
                           /\ member'[m].state # "revoked" => member[m].state # "revoked"
  BY <1>1, <1>2, <1>3, Peers
<1>5. "host" \in Node /\ \A m \in Node : Peer(m) \in Node
  BY Peers DEF Node
<1>6. OnNewest' /\ Pairing' = Pairing
  BY <1>2, KeepPairing
<1>7. Replacements'
  BY <1>2, <1>4, <1>5, <1>6 DEF Exchange, Replacements
<1>8. Quiet'
  <2>1. Pairing => \A m \in Node : carried'[m] = None
    BY <1>2 DEF Exchange, Quiet
  <2> QED
    BY <1>2, <1>4, <2>1, KeepQuiet
<1>9. HandedOver'
  <2>1. member'["host"] # None /\ Calls' => Calls
    BY <1>2, <1>4, <1>5 DEF Calls, Used
  <2> QED
    BY <1>2, <1>4, <2>1, KeepHandedOver
<1>10. Paired'
  BY <1>2, <1>4, <1>5 DEF Exchange, Paired, Matched, Handing, Newest, pairing, tables
<1> QED
  BY <1>6, <1>7, <1>8, <1>9, <1>10 DEF Exchange

LEMMA RevokeExchange ==
    ASSUME TypeOK, Rows, Facts, Exchange, ~overlap', mixed' = mixed, NEW n \in Node, Revoke(n)
    PROVE  Exchange'
<1>1. PICK r \in Member :
        /\ member' = [member EXCEPT ![n] = r]
        /\ r.state = "revoked" /\ r.inbound = member[n].inbound
        /\ r.outbound = member[n].outbound /\ r.pending = None /\ r.live = FALSE
  BY RevokeEffect
<1>2. /\ member[n] # None /\ r # None
      /\ carried' = [carried EXCEPT ![n] = None]
      /\ UNCHANGED <<pairing, nonces, collect, auth, issued, lastApproved, leftover>>
  BY NoneAssumption DEF Revoke, history
<1>3. member'[n] = r /\ member'[Peer(n)] = member[Peer(n)]
  BY <1>1, RowReplaced
<1>4. carried'[n] = None /\ carried'[Peer(n)] = carried[Peer(n)]
  BY <1>2, Peers DEF TypeOK
<1>5. "host" \in Node
  BY DEF Node
<1>6. OnNewest' /\ Pairing' = Pairing
  BY <1>2, KeepPairing
<1>7. Replacements'
  BY <1>1, <1>2, <1>3, <1>4, <1>6, Peers DEF Exchange, Replacements
<1>8. Quiet'
  <2>1. Pairing => \A m \in Node : carried'[m] = None
    BY <1>4, Peers DEF Exchange, Quiet
  <2>2. \A m \in Node : member'[m] # None =>
                    /\ member[m] # None /\ member'[m].outbound = member[m].outbound
                    /\ member'[m].live => /\ member[m].live
                                          /\ member'[m].pending = member[m].pending
    BY <1>1, <1>2, <1>3, Peers
  <2> QED
    BY <1>2, <2>1, <2>2, KeepQuiet
<1>9. HandedOver'
  <2>1. \A m \in Node : member'[m] # None =>
           /\ member[m] # None /\ member'[m].inbound = member[m].inbound
           /\ member'[m].outbound = member[m].outbound
    BY <1>1, <1>2, <1>3, Peers
  <2>2. member'["host"] # None /\ Calls' => Calls
    BY <1>2, <1>5, <2>1 DEF Calls, Used
  <2> QED
    BY <1>2, <2>1, <2>2, KeepHandedOver
<1>10. Paired'
  BY <1>1, <1>3 DEF Paired
<1> QED
  BY <1>6, <1>7, <1>8, <1>9, <1>10 DEF Exchange

LEMMA RemoveExchange ==
    ASSUME TypeOK, Rows, Facts, Exchange, ~overlap', mixed' = mixed, NEW n \in Node, Remove(n)
    PROVE  Exchange'
<1>1. member'[n] = None /\ member'[Peer(n)] = member[Peer(n)]
  BY Peers DEF Remove, TypeOK
<1>2. UNCHANGED <<pairing, collect, auth, issued, lastApproved>>
  BY DEF Remove
<1>3. carried'[n] = None /\ carried'[Peer(n)] = carried[Peer(n)]
  BY Peers DEF Remove, TypeOK
<1>4. "host" \in Node
  BY DEF Node
<1>5. \A m \in Node : member'[m] # None => member[m] # None /\ member'[m] = member[m]
  BY <1>1, Peers
<1>6. OnNewest' /\ Pairing' = Pairing
  BY <1>2, KeepPairing
<1>7. Replacements'
  BY <1>1, <1>2, <1>3, <1>6, Peers DEF Exchange, Replacements
<1>8. Quiet'
  <2>1. Pairing => \A m \in Node : carried'[m] = None
    BY <1>3, Peers DEF Exchange, Quiet
  <2> QED
    BY <1>2, <1>5, <2>1, KeepQuiet
<1>9. HandedOver'
  <2>1. ~(member'["host"] # None /\ member'["joiner"] # None)
    BY <1>1 DEF Node
  <2> QED
    BY <1>2, <1>5, <2>1, KeepHandedOver
<1>10. Paired'
  BY <1>1 DEF Paired
<1> QED
  BY <1>6, <1>7, <1>8, <1>9, <1>10 DEF Exchange

LEMMA RotateInboundExchange ==
    ASSUME TypeOK, Rows, Facts, Exchange, ~overlap', mixed' = mixed,
           NEW n \in Node, RotateInbound(n)
    PROVE  Exchange'
<1>1. PICK r \in Member :
        /\ member' = [member EXCEPT ![n] = r]
        /\ r.state = member[n].state
        /\ r.inbound = member[n].inbound /\ r.outbound = member[n].outbound
        /\ r.pending = Fresh /\ r.live = TRUE
  BY RotateInboundEffect
<1>2. /\ member[n] # None /\ r # None /\ ~Pairing
      /\ carried[n] = None /\ ~(auth[n] # None /\ auth[n].promote)
      /\ ~(/\ member[n].live /\ member[Peer(n)] # None
           /\ member[Peer(n)].outbound = member[n].pending)
      /\ issued' = Fresh /\ Fresh \in Credential
      /\ carried' = [carried EXCEPT ![n] = Fresh]
      /\ UNCHANGED <<pairing, nonces, collect, auth, lastApproved, leftover>>
  BY NoneAssumption, RotateInboundEffect DEF RotateInbound, Rotating, Overlaps
<1>3. member'[n] = r /\ member'[Peer(n)] = member[Peer(n)]
  BY <1>1, RowReplaced
<1>4. carried'[n] = Fresh /\ carried'[Peer(n)] = carried[Peer(n)]
  BY <1>2, Peers DEF TypeOK
<1>11. /\ issued \in Nat /\ Fresh = issued + 1 /\ Fresh # None
  BY <1>2, Typed, NoneAssumption DEF Fresh
<1>6. OnNewest' /\ Pairing' = Pairing
  BY <1>2, KeepPairing
<1>7. Replacements'
  <2>1. \A m \in Node : member[m] # None =>
          member[m].outbound \in Nat /\ member[m].outbound <= issued
    BY Typed DEF Facts, Issued
  <2>3. \A m \in Node : carried'[m] # None =>
          /\ member'[m] # None /\ member'[m].live /\ member'[m].pending = carried'[m]
          /\ member'[Peer(m)] # None => member'[Peer(m)].outbound # carried'[m]
    BY <1>1, <1>2, <1>3, <1>4, <1>11, <2>1, Peers DEF Exchange, Replacements
  <2>4. \A m \in Node : auth'[m] # None /\ auth'[m].promote =>
          /\ carried'[m] = None /\ ~Pairing'
          /\ member'[m] # None /\ member'[m].pending # None /\ member'[Peer(m)] # None =>
                member'[Peer(m)].outbound = member'[m].pending
    BY <1>1, <1>2, <1>3, <1>4, <1>6, Peers DEF Exchange, Replacements
  <2> QED
    BY <2>3, <2>4 DEF Replacements
<1>8. Quiet'
  BY <1>2, KeepQuiet
<1>9. HandedOver'
  <2>1. ~Pairing' /\ OnNewest'
    BY <1>2, <1>6
  <2>2. Rows'
    BY NextRows DEF Next, MemberCommand
  <2> QED
    BY <2>1, <2>2, NotHandingOver, PTL
<1>10. Paired'
  <2> SUFFICES ASSUME joins # <<>>, Newest.state = "approved", Handing(Newest.req)',
                      \A m \in Node : member'[m] # None /\ member'[m].state # "revoked"
               PROVE  \A m \in Node : Matched(m)'
    BY <1>2 DEF Paired, Newest, pairing, tables
  <2>1. \A m \in Node : member[m] # None /\ member[m].state # "revoked"
    BY <1>1, <1>2, <1>3, Peers
  <2>2. Handing(Newest.req)
    BY <1>2, <2>1 DEF Handing, Newest, pairing, tables, Node
  <2>3. Matched(n) /\ Matched(Peer(n))
    BY <2>1, <2>2, Peers DEF Exchange, Paired
  <2>4. member[Peer(n)].outbound = member[n].inbound
    BY <1>2, <2>1, <2>3, Peers DEF Matched
  <2> QED
    BY <1>1, <1>3, <1>4, <2>3, <2>4, Peers DEF Matched
<1> QED
  BY <1>6, <1>7, <1>8, <1>9, <1>10 DEF Exchange

LEMMA SetOutboundExchange ==
    ASSUME TypeOK, Rows, Facts, Exchange, ~overlap', mixed' = mixed,
           NEW n \in Node, SetOutboundCredential(n)
    PROVE  Exchange'
<1>1. PICK r \in Member :
        /\ member' = [member EXCEPT ![n] = r]
        /\ r.state = member[n].state
        /\ r.inbound = member[n].inbound /\ r.outbound = carried[Peer(n)]
        /\ r.pending = member[n].pending /\ r.live = member[n].live
  BY SetOutboundEffect
<1> DEFINE p == Peer(n)
<1>2. /\ member[n] # None /\ r # None /\ carried[p] # None
      /\ carried' = [carried EXCEPT ![p] = None]
      /\ UNCHANGED <<pairing, nonces, collect, auth, issued, lastApproved, leftover>>
  BY NoneAssumption DEF SetOutboundCredential, history
<1>3. member'[n] = r /\ member'[p] = member[p]
  BY <1>1, RowReplaced
<1>4. carried'[p] = None /\ carried'[n] = carried[n]
  BY <1>2, Peers DEF TypeOK
<1>5. "host" \in Node /\ p \in Node
  BY Peers DEF Node
<1>11. /\ member[p] # None /\ member[p].live /\ member[p].pending = carried[p]
       /\ ~Pairing
  BY <1>2, <1>5 DEF Exchange, Replacements, Quiet
<1>6. OnNewest' /\ Pairing' = Pairing
  BY <1>2, KeepPairing
<1>7. Replacements'
  <2>3. \A m \in Node : carried'[m] # None =>
          /\ member'[m] # None /\ member'[m].live /\ member'[m].pending = carried'[m]
          /\ member'[Peer(m)] # None => member'[Peer(m)].outbound # carried'[m]
    BY <1>1, <1>2, <1>3, <1>4, <1>11, Peers DEF Exchange, Replacements
  <2>4. \A m \in Node : auth'[m] # None /\ auth'[m].promote =>
          /\ carried'[m] = None /\ ~Pairing'
          /\ member'[m] # None /\ member'[m].pending # None /\ member'[Peer(m)] # None =>
                member'[Peer(m)].outbound = member'[m].pending
    BY <1>1, <1>2, <1>3, <1>4, <1>6, <1>11, Peers DEF Exchange, Replacements
  <2> QED
    BY <2>3, <2>4 DEF Replacements
<1>8. Quiet'
  BY <1>2, <1>11, KeepQuiet
<1>9. HandedOver'
  <2>1. ~Pairing' /\ OnNewest'
    BY <1>2, <1>6, <1>11
  <2>2. Rows'
    BY NextRows DEF Next, MemberCommand
  <2> QED
    BY <2>1, <2>2, NotHandingOver, PTL
<1>10. Paired'
  <2> SUFFICES ASSUME joins # <<>>, Newest.state = "approved", Handing(Newest.req)',
                      \A m \in Node : member'[m] # None /\ member'[m].state # "revoked"
               PROVE  \A m \in Node : Matched(m)'
    BY <1>2 DEF Paired, Newest, pairing, tables
  <2>1. \A m \in Node : member[m] # None /\ member[m].state # "revoked"
    BY <1>1, <1>2, <1>3, Peers
  <2>2. Handing(Newest.req)
    BY <1>2, <2>1 DEF Handing, Newest, pairing, tables, Node
  <2>3. Matched(n)
    BY <2>1, <2>2, Peers DEF Exchange, Paired
  <2> QED
    BY <1>1, <1>3, <1>4, <1>11, <2>3, Peers DEF Matched
<1> QED
  BY <1>6, <1>7, <1>8, <1>9, <1>10 DEF Exchange

LEMMA RotationExpiresExchange ==
    ASSUME TypeOK, Rows, Facts, Exchange, ~overlap', mixed' = mixed,
           NEW n \in Node, RotationExpires(n)
    PROVE  Exchange'
<1>1. PICK r \in Member :
        /\ member' = [member EXCEPT ![n] = r]
        /\ r.state = member[n].state
        /\ r.inbound = member[n].inbound /\ r.outbound = member[n].outbound
        /\ r.pending = member[n].pending /\ r.live = FALSE
  BY RotationExpiresEffect
<1>2. /\ member[n] # None /\ r # None
      /\ member[Peer(n)] # None => member[Peer(n)].outbound # member[n].pending
      /\ carried' = [carried EXCEPT ![n] = None]
      /\ UNCHANGED <<pairing, nonces, collect, auth, issued, lastApproved, leftover>>
  BY NoneAssumption DEF RotationExpires, Overlaps
<1>3. member'[n] = r /\ member'[Peer(n)] = member[Peer(n)]
  BY <1>1, RowReplaced
<1>4. carried'[n] = None /\ carried'[Peer(n)] = carried[Peer(n)]
  BY <1>2, Peers DEF TypeOK
<1>5. "host" \in Node
  BY DEF Node
<1>6. OnNewest' /\ Pairing' = Pairing
  BY <1>2, KeepPairing
<1>7. Replacements'
  BY <1>1, <1>2, <1>3, <1>4, <1>6, Peers DEF Exchange, Replacements
<1>8. Quiet'
  <2>1. Pairing => \A m \in Node : carried'[m] = None
    BY <1>4, Peers DEF Exchange, Quiet
  <2>2. \A m \in Node : member'[m] # None =>
                    /\ member[m] # None /\ member'[m].outbound = member[m].outbound
                    /\ member'[m].live => /\ member[m].live
                                          /\ member'[m].pending = member[m].pending
    BY <1>1, <1>2, <1>3, Peers
  <2> QED
    BY <1>2, <2>1, <2>2, KeepQuiet
<1>9. HandedOver'
  <2>1. \A m \in Node : member'[m] # None =>
           /\ member[m] # None /\ member'[m].inbound = member[m].inbound
           /\ member'[m].outbound = member[m].outbound
    BY <1>1, <1>2, <1>3, Peers
  <2>2. member'["host"] # None /\ Calls' => Calls
    BY <1>2, <1>5, <2>1 DEF Calls, Used
  <2> QED
    BY <1>2, <2>1, <2>2, KeepHandedOver
<1>10. Paired'
  <2> SUFFICES ASSUME joins # <<>>, Newest.state = "approved", Handing(Newest.req)',
                      \A m \in Node : member'[m] # None /\ member'[m].state # "revoked"
               PROVE  \A m \in Node : Matched(m)'
    BY <1>2 DEF Paired, Newest, pairing, tables
  <2>1. \A m \in Node : member[m] # None /\ member[m].state # "revoked"
    BY <1>1, <1>2, <1>3, Peers
  <2>2. Handing(Newest.req)
    BY <1>2, <2>1 DEF Handing, Newest, pairing, tables, Node
  <2>3. Matched(n) /\ Matched(Peer(n))
    BY <2>1, <2>2, Peers DEF Exchange, Paired
  <2> QED
    BY <1>1, <1>2, <1>3, <1>4, <2>1, <2>3, Peers DEF Matched
<1> QED
  BY <1>6, <1>7, <1>8, <1>9, <1>10 DEF Exchange

LEMMA VerifiedExchange ==
    ASSUME TypeOK, Rows, Facts, Exchange, ~overlap', mixed' = mixed, NEW n \in Node,
           Authenticate(n) \/ AcceptHandshake(n) \/ VerifyPeer(n)
    PROVE  Exchange'
<1>1. PICK a \in Auth :
        /\ auth' = [auth EXCEPT ![n] = a]
        /\ a.cred = member[Peer(n)].outbound
        /\ a.promote => /\ member[n].live
                        /\ member[Peer(n)].outbound = member[n].pending
  BY VerifiedEffect
<1>2. /\ member[n] \in Member /\ member[Peer(n)] \in Member /\ auth[n] = None
      /\ UNCHANGED <<pairing, member, nonces, collect, carried, issued, lastApproved, leftover>>
  BY VerifiedEffect DEF history
<1>3. auth'[n] = a /\ auth'[Peer(n)] = auth[Peer(n)]
  BY <1>1, Peers DEF TypeOK
<1>4. member[n] # None /\ member[Peer(n)] # None
  BY <1>2, NoneAssumption
<1>5. a.promote => carried[n] = None /\ ~Pairing
  <2>1. a.promote => ~Pairing
    BY <1>1, <1>4 DEF Exchange, Quiet
  <2>2. a.promote => carried[n] = None
    BY <1>1, <1>4 DEF Exchange, Replacements
  <2> QED
    BY <2>1, <2>2
<1>6. OnNewest' /\ Pairing' = Pairing
  BY <1>2, KeepPairing
<1>7. Replacements'
  BY <1>1, <1>2, <1>3, <1>4, <1>5, <1>6, Peers DEF Exchange, Replacements
<1>8. Quiet'
  BY <1>2, <1>6 DEF Exchange, Quiet, pairing, tables
<1>9. HandedOver'
  <2>1. Calls' => Calls \/ member["joiner"].outbound = member["host"].inbound
    <3>1. CASE n = "host"
      BY <1>1, <1>2, <1>3, <3>1, Peers DEF Calls, Used
    <3>2. CASE n # "host"
      BY <1>2, <1>3, <3>2, Peers DEF Calls, Used, Node
    <3> QED
      BY <3>1, <3>2
  <2> QED
    BY <1>2, <2>1, KeepHandedOver
<1>10. Paired'
  BY <1>2 DEF Exchange, Paired, Matched, Handing, Newest, pairing, tables
<1> QED
  BY <1>6, <1>7, <1>8, <1>9, <1>10 DEF Exchange

LEMMA AuthenticatedExchange ==
    ASSUME TypeOK, Rows, Facts, Exchange, ~overlap', mixed' = mixed,
           NEW n \in Node, Authenticated(n)
    PROVE  Exchange'
<1>1. auth[n] # None /\ auth'[n] = None /\ auth'[Peer(n)] = auth[Peer(n)]
  <2>1. auth[n] # None /\ auth' = [auth EXCEPT ![n] = None]
    BY AuthenticatedEffect
  <2> QED
    BY <2>1, Peers DEF TypeOK
<1>2. UNCHANGED <<pairing, collect, carried, issued, lastApproved>>
  BY DEF Authenticated
<1>3. issued \in Nat /\ "host" \in Node
  BY Typed DEF Node
<1>4. CASE UNCHANGED member
  <2>1. OnNewest' /\ Pairing' = Pairing
    BY <1>2, KeepPairing
  <2>2. Replacements'
    BY <1>1, <1>2, <1>4, <2>1, Peers DEF Exchange, Replacements
  <2>3. Quiet'
    BY <1>2, <1>4, <2>1 DEF Exchange, Quiet, pairing, tables
  <2>4. Pairing /\ Calls' => Calls
    <3> SUFFICES ASSUME Pairing, Calls' PROVE Calls
      OBVIOUS
    <3>1. ~auth[n].promote
      BY <1>1 DEF Exchange, Replacements
    <3>2. CASE n = "host"
      <4>1. Used'
        BY <1>1, <1>4, <3>2 DEF Calls
      <4>2. /\ nonces' = (nonces \/ member[n] # None)
            /\ leftover' = (leftover \/ (member[n] # None /\ auth[n].cred # member[n].inbound))
        BY <3>1, <3>2 DEF Authenticated, PromotionFails
      <4> QED
        BY <1>1, <3>2, <4>1, <4>2 DEF Calls, Used
    <3>3. CASE n # "host"
      <4>1. nonces' = nonces /\ leftover' = leftover
        BY <3>3 DEF Authenticated, TypeOK
      <4>2. auth'["host"] = auth["host"]
        BY <1>1, <3>3, Peers DEF Node
      <4> QED
        BY <1>4, <4>1, <4>2 DEF Calls, Used
    <3> QED
      BY <3>2, <3>3
  <2>5. HandedOver'
    BY <1>2, <1>4, <2>4, KeepHandedOver
  <2>6. Paired'
    BY <1>2, <1>4 DEF Exchange, Paired, Matched, Handing, Newest, pairing, tables
  <2> QED
    BY <2>1, <2>2, <2>3, <2>5, <2>6 DEF Exchange
<1>5. CASE /\ auth[n].promote /\ member[n] \in Member /\ member[n].pending # None
           /\ \E r \in Member :
                /\ member' = [member EXCEPT ![n] = r] /\ r.state = member[n].state
                /\ r.inbound = member[n].pending /\ r.outbound = member[n].outbound
                /\ r.pending = None /\ r.live = FALSE
  <2>1. PICK r \in Member :
                /\ member' = [member EXCEPT ![n] = r] /\ r.state = member[n].state
                /\ r.inbound = member[n].pending /\ r.outbound = member[n].outbound
                /\ r.pending = None /\ r.live = FALSE
    BY <1>5
  <2>2. member'[n] = r /\ member'[Peer(n)] = member[Peer(n)]
    BY <2>1, RowReplaced
  <2>3. /\ member[n] # None /\ r # None /\ carried[n] = None /\ ~Pairing
        /\ member[Peer(n)] # None => member[Peer(n)].outbound = member[n].pending
    BY <1>1, <1>5, NoneAssumption DEF Exchange, Replacements
  <2>4. OnNewest' /\ Pairing' = Pairing
    BY <1>2, KeepPairing
  <2>5. Replacements'
    BY <1>1, <1>2, <2>1, <2>2, <2>3, <2>4, Peers DEF Exchange, Replacements
  <2>6. Quiet'
    BY <1>2, <2>3, KeepQuiet
  <2>7. HandedOver'
    <3>1. ~Pairing' /\ OnNewest'
      BY <2>3, <2>4
    <3>2. Rows'
      BY NextRows DEF Next, Handler
    <3> QED
      BY <3>1, <3>2, NotHandingOver, PTL
  <2>8. Paired'
    <3> SUFFICES ASSUME joins # <<>>, Newest.state = "approved", Handing(Newest.req)',
                        \A m \in Node : member'[m] # None /\ member'[m].state # "revoked"
                 PROVE  \A m \in Node : Matched(m)'
      BY <1>2 DEF Paired, Newest, pairing, tables
    <3>1. \A m \in Node : member[m] # None /\ member[m].state # "revoked"
      BY <2>1, <2>2, <2>3, Peers
    <3>2. Handing(Newest.req)
      BY <1>2, <3>1 DEF Handing, Newest, pairing, tables, Node
    <3>3. Matched(Peer(n))
      BY <3>1, <3>2, Peers DEF Exchange, Paired
    <3> QED
      BY <1>2, <2>1, <2>2, <2>3, <3>1, <3>3, Peers DEF Matched
  <2> QED
    BY <2>4, <2>5, <2>6, <2>7, <2>8 DEF Exchange
<1> QED
  BY <1>4, <1>5, AuthenticatedEffect

----------------------------------------------------------------------------
(* Without an overlap: the steps of a pairing                              *)

\* HandedOver of the next state, from its parts.
LEMMA PartsNext ==
    ASSUME Begins', Pends', Called', Collects' PROVE HandedOver'
<1>1. (HandedOver <=> Begins /\ Pends /\ Called /\ Collects)'
  BY Parts, PTL
<1> QED
  BY <1>1

\* Steps that change invitations only, prune nonces or change nothing.
LEMMA SameExchange ==
    ASSUME Exchange, mixed' = mixed, Used' => Used,
           UNCHANGED <<requests, joins, begin, member, collect, auth, carried, lastApproved>>
    PROVE  Exchange'
<1>1. OnNewest' /\ Pairing' = Pairing
  BY DEF Exchange, OnNewest, Newest, Pairing
<1>2. Replacements'
  BY <1>1 DEF Exchange, Replacements
<1>3. Quiet'
  BY <1>1 DEF Exchange, Quiet
<1>4. HandedOver'
  <2>1. Calls' => Calls
    BY DEF Calls
  <2> QED
    BY <2>1, Parts, PartsNext DEF Exchange, Begins, Pends, Called, Collects, Handing, Newest
<1>5. Paired'
  BY DEF Exchange, Paired, Matched, Handing, Newest
<1> QED
  BY <1>1, <1>2, <1>3, <1>4, <1>5 DEF Exchange

\* Steps that leave members alone and start no pairing.
LEMMA KeepReplacements ==
    ASSUME Exchange, UNCHANGED <<member, auth, carried>>, Pairing' => Pairing
    PROVE  Replacements'
  BY DEF Exchange, Replacements

\* A pairing that begins alone, whatever overlapped before it.
LEMMA BeginOutboundExchange ==
    ASSUME HandedOver, Paired, ~overlap', mixed' = mixed, NEW i \in Id, BeginOutbound(i)
    PROVE  Exchange'
<1>1. /\ \A k \in Collectors : collect[k] = None
      /\ \A n \in Node : ~Rotating(n)
      /\ begin' = [step |-> "calling", inv |-> i]
      /\ UNCHANGED <<requests, joins, member, nonces, auth, carried, collect, lastApproved,
                     leftover>>
  BY DEF BeginOutbound, Alone, tables, peers
<1>2. \A n \in Node :
        /\ carried[n] = None /\ ~(auth[n] # None /\ auth[n].promote)
        /\ ~(/\ member[n] # None /\ member[n].live
             /\ member[Peer(n)] # None /\ member[Peer(n)].outbound = member[n].pending)
  BY <1>1 DEF Rotating
<1>3. OnNewest'
  BY <1>1 DEF OnNewest
<1>4. Replacements'
  BY <1>1, <1>2 DEF Replacements
<1>5. Quiet'
  BY <1>1, <1>2 DEF Quiet
<1>6. HandedOver'
  BY <1>1, Parts, PartsNext DEF Begins, Pends, Called, Calls, Used, Collects, Handing, Newest
<1>7. Paired'
  BY <1>1 DEF Paired, Matched, Handing, Newest
<1> QED
  BY <1>3, <1>4, <1>5, <1>6, <1>7 DEF Exchange

LEMMA SubmitJoinExchange ==
    ASSUME TypeOK, Rows, Facts, Exchange, ~overlap', mixed' = mixed, SubmitJoin
    PROVE  Exchange'
<1>1. PICK i \in Id, c \in Credential :
        /\ i = begin.inv /\ c = Fresh /\ issued' = c
        /\ invitations[i].state = "pending"
        /\ requests' = [requests EXCEPT
                          ![i] = [state |-> "pending", live |-> TRUE, cred |-> c]]
        /\ begin' = [step |-> "answered", inv |-> i, cred |-> c]
        /\ UNCHANGED <<joins, member, nonces, auth, carried, collect, lastApproved, leftover>>
  BY SubmitJoinEffect DEF history
<1>2. /\ begin # None /\ Pairing /\ requests[i] = None
  BY <1>1 DEF SubmitJoin, Pairing, Rows
<1>3. \A x \in Id : x # i => requests'[x] = requests[x]
  BY <1>1 DEF TypeOK
<1>4. \A k \in Collectors : collect[k] = None
  BY <1>2 DEF Exchange, OnNewest
<1>5. lastApproved # i /\ Newest' = Newest /\ joins' = joins
  BY <1>1, <1>2, NotApproved DEF Facts, Newest
<1>6. joins # <<>> => Newest.req \in Id /\ Newest.req # i
  BY <1>2, Typed
<1>7. OnNewest'
  BY <1>1, <1>4 DEF OnNewest
<1>8. Replacements'
  BY <1>1, <1>2, KeepReplacements
<1>9. Quiet'
  BY <1>1, <1>2 DEF Exchange, Quiet
<1>10. HandedOver'
  <2>1. Begins'
    BY <1>1, <1>5 DEF Begins, Handing
  <2>2. Pends'
    BY <1>1, <1>5, Parts DEF Exchange, Pends, Handing
  <2>3. Called'
    BY <1>1, <1>3, <1>5, <1>6, Parts DEF Exchange, Called, Calls, Used, Handing
  <2>4. Collects'
    BY <1>1, <1>4 DEF Collects
  <2> QED
    BY <2>1, <2>2, <2>3, <2>4, PartsNext
<1>11. Paired'
  BY <1>1, <1>5 DEF Exchange, Paired, Matched, Handing
<1> QED
  BY <1>7, <1>8, <1>9, <1>10, <1>11 DEF Exchange

LEMMA RecordJoinExchange ==
    ASSUME TypeOK, Rows, Facts, Exchange, ~overlap', mixed' = mixed, RecordJoin
    PROVE  Exchange'
<1>1. PICK r \in Join :
        /\ r.req = begin.inv /\ r.cred = begin.cred /\ r.state = "pending"
        /\ Len(joins') = Len(joins) + 1 /\ Len(joins) \in Nat
        /\ joins'[Len(joins')] = r
  BY RecordJoinEffect
<1>2. /\ begin # None /\ begin.step = "answered" /\ begin' = None
      /\ UNCHANGED <<requests, collect, member, nonces, auth, carried, lastApproved, leftover>>
  BY DEF RecordJoin, peers, history
<1>3. /\ Pairing /\ \A k \in Collectors : collect[k] = None
  BY <1>2 DEF Pairing, Exchange, OnNewest
<1>4. Newest' = r
  BY <1>1 DEF Newest
<1>5. OnNewest'
  BY <1>2, <1>3 DEF OnNewest
<1>6. Replacements'
  BY <1>2, <1>3, KeepReplacements
<1>7. Quiet'
  BY <1>2, <1>3 DEF Exchange, Quiet
<1>8. HandedOver'
  <2>1. Begins' /\ Collects'
    BY <1>2, <1>3 DEF Begins, Collects
  <2>2. Pends'
    BY <1>1, <1>2, <1>4, Parts DEF Exchange, Begins, Pends, Handing
  <2>3. Called'
    BY <1>1, <1>2, <1>4 DEF Called, Rows
  <2> QED
    BY <2>1, <2>2, <2>3, PartsNext
<1>9. Paired'
  BY <1>1, <1>4 DEF Paired
<1> QED
  BY <1>5, <1>6, <1>7, <1>8, <1>9 DEF Exchange

LEMMA BeginFailsExchange ==
    ASSUME TypeOK, Rows, Facts, Exchange, ~overlap', mixed' = mixed, BeginFails
    PROVE  Exchange'
<1>1. /\ begin' = None
      /\ UNCHANGED <<requests, joins, collect, member, nonces, auth, carried, lastApproved,
                     leftover>>
  BY DEF BeginFails, tables, peers, history
<1>2. Pairing' => Pairing
  BY <1>1 DEF Pairing
<1>3. OnNewest'
  BY <1>1 DEF Exchange, OnNewest, Newest
<1>4. Replacements'
  BY <1>1, <1>2, KeepReplacements
<1>5. Quiet'
  BY <1>1, <1>2 DEF Exchange, Quiet
<1>6. HandedOver'
  BY <1>1, Parts, PartsNext
     DEF Exchange, Begins, Pends, Called, Calls, Used, Collects, Handing, Newest
<1>7. Paired'
  BY <1>1 DEF Exchange, Paired, Matched, Handing, Newest
<1> QED
  BY <1>3, <1>4, <1>5, <1>6, <1>7 DEF Exchange

\* A pending request that is refused or whose lifetime ends.
LEMMA EndedExchange ==
    ASSUME TypeOK, Rows, Facts, Exchange, ~overlap', mixed' = mixed,
           NEW i \in Id, NEW q \in Request,
           requests[i] \in Request, requests[i].state = "pending", requests[i].live,
           requests' = [requests EXCEPT ![i] = q],
           q.state = "rejected" \/ (q.state = "pending" /\ q.live = FALSE),
           UNCHANGED <<joins, begin, member, collect, nonces, auth, carried, lastApproved,
                       leftover>>
    PROVE  Exchange'
<1>1. requests'[i] = q /\ \A x \in Id : x # i => requests'[x] = requests[x]
  BY DEF TypeOK
<1>2. requests[i] # None
  BY NoneAssumption
<1>3. Pairing' => Pairing
  BY <1>1, <1>2 DEF Pairing
<1>4. Newest' = Newest
  BY DEF Newest
<1>5. joins # <<>> => Newest.req \in Id
  BY Typed
<1>6. OnNewest'
  BY <1>4 DEF Exchange, OnNewest
<1>7. Replacements'
  BY <1>3, KeepReplacements
<1>8. Quiet'
  BY <1>3 DEF Exchange, Quiet
<1>9. HandedOver'
  <2>1. Begins' /\ Pends'
    BY <1>4, Parts DEF Exchange, Begins, Pends, Handing
  <2>2. Called'
    BY <1>1, <1>4, <1>5, Parts DEF Exchange, Called, Calls, Used, Handing
  <2>3. Collects'
    BY <1>4, Parts DEF Exchange, Collects, Handing
  <2> QED
    BY <2>1, <2>2, <2>3, PartsNext
<1>10. Paired'
  BY <1>4 DEF Exchange, Paired, Matched, Handing
<1> QED
  BY <1>6, <1>7, <1>8, <1>9, <1>10 DEF Exchange

LEMMA RejectExchange ==
    ASSUME TypeOK, Rows, Facts, Exchange, ~overlap', mixed' = mixed,
           NEW i \in Id, Decide(i, FALSE)
    PROVE  Exchange'
<1>1. PICK q \in Request : requests' = [requests EXCEPT ![i] = q] /\ q.state = "rejected"
  BY DecideEffect
<1>2. /\ requests[i] \in Request /\ requests[i].state = "pending" /\ requests[i].live
      /\ UNCHANGED <<member, lastApproved>>
  BY DecideEffect
<1>3. UNCHANGED <<joins, begin, member, collect, nonces, auth, carried, lastApproved, leftover>>
  BY <1>2 DEF Decide, peers
<1> QED
  BY <1>1, <1>2, <1>3, EndedExchange

LEMMA ExpireExchange ==
    ASSUME TypeOK, Rows, Facts, Exchange, ~overlap', mixed' = mixed, NEW i \in Id, Expire(i)
    PROVE  Exchange'
<1>1. UNCHANGED <<joins, begin, member, collect, nonces, auth, carried, lastApproved, leftover>>
  BY DEF Expire, peers, history
<1>2. CASE UNCHANGED requests
  BY <1>1, <1>2, SameExchange DEF Used
<1>3. CASE /\ requests[i] \in Request /\ requests[i].state = "pending"
           /\ requests[i].live
           /\ \E q \in Request : /\ requests' = [requests EXCEPT ![i] = q]
                                 /\ q.state = "pending" /\ q.live = FALSE
  BY <1>1, <1>3, EndedExchange
<1> QED
  BY <1>2, <1>3, ExpireEffect

LEMMA ApproveExchange ==
    ASSUME TypeOK, Rows, Facts, Exchange, ~overlap', mixed' = mixed,
           NEW i \in Id, Decide(i, TRUE)
    PROVE  Exchange'
<1>1. PICK q \in Request : /\ requests' = [requests EXCEPT ![i] = q]
                           /\ q.state = "approved" /\ q.cred = requests[i].cred
  BY DecideEffect
<1>2. /\ requests[i] \in Request /\ requests[i].state = "pending" /\ requests[i].live
      /\ lastApproved' = i
  BY DecideEffect
<1>3. PICK r \in Member :
        /\ member' = [member EXCEPT !["host"] = r]
        /\ r.outbound = requests[i].cred
        /\ member["host"] = None => r.pending = None /\ r.live = FALSE
        /\ member["host"] # None => /\ r.pending = member["host"].pending
                                    /\ r.live = member["host"].live
  BY DecideEffect
<1>4. UNCHANGED <<joins, begin, collect, auth, carried, issued>>
  BY DEF Decide, peers
<1>5. /\ requests[i] # None /\ q # None /\ Pairing
      /\ \A n \in Node : carried[n] = None /\ ~(auth[n] # None /\ auth[n].promote)
  <2>1. requests[i] # None /\ q # None
    BY <1>2, NoneAssumption
  <2>2. Pairing
    BY <1>2, <2>1 DEF Pairing
  <2> QED
    BY <2>1, <2>2 DEF Exchange, Quiet, Replacements
<1>6. requests'[i] = q /\ \A x \in Id : x # i => requests'[x] = requests[x]
  BY <1>1 DEF TypeOK
<1>7. /\ "joiner" \in Node /\ "host" \in Node /\ r # None
      /\ member'["host"] = r /\ member'["joiner"] = member["joiner"]
  <2>1. "joiner" \in Node /\ "host" \in Node
    BY DEF Node
  <2> QED
    BY <1>3, <2>1, RowReplaced, Peers, NoneAssumption
<1>8. Newest' = Newest
  BY <1>4 DEF Newest
<1>9. OnNewest'
  BY <1>4, <1>8 DEF Exchange, OnNewest
<1>10. Replacements'
  BY <1>4, <1>5 DEF Replacements
<1>11. Quiet'
  <2>1. ~(/\ member'["host"].live /\ member'["joiner"] # None
          /\ member'["joiner"].outbound = member'["host"].pending)
    <3>1. member["host"] # None /\ member["host"].live /\ member["joiner"] # None
          => member["joiner"].outbound # member["host"].pending
      BY <1>5, <1>7, Peers DEF Exchange, Quiet
    <3> QED
      BY <1>3, <1>7, <3>1
  <2>2. ~(/\ member'["joiner"] # None /\ member'["joiner"].live
          /\ member'["host"].outbound = member'["joiner"].pending)
    BY <1>3, <1>5, <1>7 DEF Facts, Issued
  <2>3. \A n \in Node :
          /\ carried'[n] = None
          /\ ~(/\ member'[n] # None /\ member'[n].live /\ member'[Peer(n)] # None
               /\ member'[Peer(n)].outbound = member'[n].pending)
    BY <1>4, <1>5, <2>1, <2>2, Peers DEF Node
  <2> QED
    BY <2>3 DEF Quiet
<1>12. HandedOver'
  <2>1. Begins'
    BY <1>2, <1>3, <1>4, <1>7 DEF Begins, Handing, Rows
  <2>2. Pends'
    BY <1>2, <1>3, <1>4, <1>7, <1>8, Typed DEF Pends, Handing
  <2>3. Called'
    BY <1>1, <1>2, <1>6, <1>8 DEF Called, Handing
  <2>4. Collects'
    <3> SUFFICES ASSUME NEW k \in Collectors, collect[k] # None, collect[k].step # "calling",
                        collect[k].result.state = "approved", Newest.req \notin mixed
                 PROVE  /\ i # Newest.req
                        /\ collect[k].step = "accepted" /\ member["joiner"] # None
                           => /\ member["joiner"].inbound = Newest.cred
                              /\ member["joiner"].outbound = collect[k].result.cred
      BY <1>2, <1>4, <1>7, <1>8 DEF Collects, Handing
    <3>1. TrueOf(Newest.req, "approved")
      BY DEF Facts, Truthful, Exchange, OnNewest, Newest
    <3>2. i # Newest.req
      BY <1>2, <3>1 DEF TrueOf
    <3> QED
      BY <3>2, Parts DEF Exchange, Collects
  <2> QED
    BY <2>1, <2>2, <2>3, <2>4, PartsNext
<1>13. Paired'
  <2>1. joins # <<>> /\ Newest.state = "approved" => i # Newest.req
    <3> SUFFICES ASSUME joins # <<>>, Newest.state = "approved"
                 PROVE  i # Newest.req
      OBVIOUS
    <3>1. TrueOf(Newest.req, Newest.state)
      BY Typed DEF Facts, Truthful, Newest
    <3> QED
      BY <1>2, <3>1 DEF TrueOf
  <2> QED
    BY <1>2, <1>4, <1>8, <2>1 DEF Paired, Handing
<1> QED
  BY <1>9, <1>10, <1>11, <1>12, <1>13 DEF Exchange

\* The only collector takes a step.
LEMMA OneCollector ==
    ASSUME TypeOK, Exchange, NEW k \in Collectors, NEW c,
           collect[k] # None \/ \A l \in Collectors : collect[l] = None,
           collect' = [collect EXCEPT ![k] = c]
    PROVE  collect'[k] = c /\ \A l \in Collectors : l # k => collect'[l] = None
  BY DEF TypeOK, Exchange, OnNewest

\* While a collector works its join is the newest, and pending.
LEMMA Collecting ==
    ASSUME TypeOK, Rows, Exchange, NEW k \in Collectors, collect[k] # None
    PROVE  /\ begin = None /\ collect[k].join = Len(joins) /\ joins # <<>>
           /\ joins[collect[k].join] = Newest /\ Newest.state = "pending"
           /\ Newest.req \in Id /\ Pairing
           /\ \A n \in Node : /\ carried[n] = None
                              /\ ~(auth[n] # None /\ auth[n].promote)
<1>1. begin = None /\ collect[k].join = Len(joins) /\ Newest.state = "pending"
  BY DEF Exchange, OnNewest
<1>2. joins # <<>> /\ joins[collect[k].join] = Newest /\ Newest.req \in Id
  <2>1. collect[k].join \in 1..Len(joins) /\ joins[collect[k].join].req \in Id
    BY CollectRow
  <2> QED
    BY <1>1, <2>1 DEF Newest
<1>3. Pairing
  BY <1>1, <1>2 DEF Pairing, Newest
<1>4. \A n \in Node : carried[n] = None
  BY <1>3 DEF Exchange, Quiet
<1>5. \A n \in Node : ~(auth[n] # None /\ auth[n].promote)
  BY <1>3 DEF Exchange, Replacements
<1> QED
  BY <1>1, <1>2, <1>3, <1>4, <1>5

\* A collector starts, is told that nothing is handed over, or gives up.
LEMMA CollectExchange ==
    ASSUME TypeOK, Rows, Facts, Exchange, ~overlap', mixed' = mixed,
           NEW k \in Collectors, NEW c,
           collect[k] # None \/ \A l \in Collectors : collect[l] = None,
           collect' = [collect EXCEPT ![k] = c],
           UNCHANGED <<requests, joins, begin, member, nonces, auth, carried, lastApproved,
                       leftover>>,
           c # None => /\ begin = None /\ c.join = Len(joins)
                       /\ Newest.state = "pending",
           c # None /\ c.step # "calling" => c.result.state # "approved"
    PROVE  Exchange'
<1>1. collect'[k] = c /\ \A l \in Collectors : l # k => collect'[l] = None
  BY OneCollector
<1>2. Pairing' = Pairing /\ Newest' = Newest
  BY DEF Pairing, Newest
<1>3. OnNewest'
  BY <1>1, <1>2 DEF OnNewest
<1>4. Replacements'
  BY <1>2, KeepReplacements
<1>5. Quiet'
  BY <1>2 DEF Exchange, Quiet
<1>6. HandedOver'
  <2>1. Begins' /\ Pends' /\ Called'
    BY <1>2, Parts DEF Exchange, Begins, Pends, Called, Calls, Used, Handing
  <2>2. Collects'
    BY <1>1 DEF Collects
  <2> QED
    BY <2>1, <2>2, PartsNext
<1>7. Paired'
  BY <1>2 DEF Exchange, Paired, Matched, Handing
<1> QED
  BY <1>3, <1>4, <1>5, <1>6, <1>7 DEF Exchange

LEMMA CollectOutboundExchange ==
    ASSUME TypeOK, Rows, Facts, Exchange, ~overlap', mixed' = mixed, NEW k \in Collectors,
           NEW j \in 1..Len(joins), CollectOutbound(k, j)
    PROVE  Exchange'
<1> DEFINE c == [step |-> "calling", join |-> j]
<1>1. /\ collect' = [collect EXCEPT ![k] = c]
      /\ UNCHANGED <<requests, joins, begin, member, nonces, auth, carried, lastApproved,
                     leftover>>
      /\ begin = None /\ j = Len(joins) /\ joins[j].state = "pending"
      /\ \A l \in Collectors : collect[l] = None
  BY DEF CollectOutbound, EnsureCurrentOutbound, Overlaps, pairing, tables, peers
<1>2. c.join = j /\ c.step = "calling"
  OBVIOUS
<1> HIDE DEF c
<1> QED
  BY <1>1, <1>2, CollectExchange DEF Newest

LEMMA CollectFailsExchange ==
    ASSUME TypeOK, Rows, Facts, Exchange, ~overlap', mixed' = mixed,
           NEW k \in Collectors, CollectFails(k)
    PROVE  Exchange'
<1>1. /\ collect[k] # None /\ collect' = [collect EXCEPT ![k] = None]
      /\ UNCHANGED <<requests, joins, begin, member, nonces, auth, carried, lastApproved,
                     leftover>>
  BY DEF CollectFails, pairing, tables, peers, history
<1> QED
  BY <1>1, CollectExchange

\* Poll hands out a credential.
LEMMA GivenExchange ==
    ASSUME TypeOK, Rows, Facts, Exchange, ~overlap', mixed' = mixed,
           NEW k \in Collectors, collect[k] # None,
           NEW i, i = joins[collect[k].join].req, requests[i] \in Request, Given(k, i),
           UNCHANGED <<joins, begin, nonces, auth, carried, lastApproved>>
    PROVE  Exchange'
<1>1. /\ begin = None /\ collect[k].join = Len(joins) /\ Newest.state = "pending"
      /\ joins # <<>> /\ i = Newest.req /\ i \in Id /\ Pairing
      /\ \A n \in Node : carried[n] = None /\ ~(auth[n] # None /\ auth[n].promote)
  BY Collecting
<1>2. PICK c \in Collect :
        /\ collect' = [collect EXCEPT ![k] = c]
        /\ c.step = "answered" /\ c.join = collect[k].join
        /\ c.result.state = "approved" /\ c.result.cred = Fresh
  BY DEF Given
<1>3. collect'[k] = c /\ \A l \in Collectors : l # k => collect'[l] = None
  BY <1>2, OneCollector
<1>5. /\ issued \in Nat /\ Fresh = issued + 1 /\ Fresh # None /\ leftover' = nonces
  BY Typed, NoneAssumption DEF Given, Fresh
<1>6. /\ member'["host"] = None <=> member["host"] = None
      /\ member["host"] # None =>
            /\ member'["host"].inbound = Fresh
            /\ member'["host"].outbound = member["host"].outbound
            /\ member'["host"].pending = member["host"].pending
            /\ member'["host"].live = member["host"].live
      /\ member'["joiner"] = member["joiner"]
  <2>1. CASE member["host"] = None
    BY <2>1 DEF Given
  <2>2. CASE member["host"] # None
    <3>1. PICK r \in Member :
            /\ member' = [member EXCEPT !["host"] = r]
            /\ r.inbound = Fresh /\ r.outbound = member["host"].outbound
            /\ r.pending = member["host"].pending /\ r.live = member["host"].live
      BY <2>2 DEF Given
    <3>2. "host" \in Node /\ r # None
      BY NoneAssumption DEF Node
    <3>3. member'["host"] = r /\ member'["joiner"] = member["joiner"]
      BY <3>1, <3>2, RowReplaced, Peers
    <3> QED
      BY <2>2, <3>1, <3>2, <3>3
  <2> QED
    BY <2>1, <2>2
<1>7. \A n \in Node : /\ member'[n] = None <=> member[n] = None
                      /\ member[n] # None =>
                           /\ member'[n].outbound = member[n].outbound
                           /\ member'[n].pending = member[n].pending
                           /\ member'[n].live = member[n].live
  BY <1>6 DEF Node
<1>9. Newest' = Newest
  BY DEF Newest
<1>10. OnNewest'
  BY <1>1, <1>2, <1>3, <1>9 DEF OnNewest
<1>12. Replacements'
  BY <1>1 DEF Replacements
<1>13. Quiet'
  BY <1>1, <1>7, Peers DEF Exchange, Quiet
<1>14. HandedOver'
  <2>1. Begins'
    BY <1>1 DEF Begins
  <2>2. Pends'
    BY <1>1, <1>6, <1>9, Parts DEF Exchange, Pends, Handing
  <2>3. member'["host"] # None => ~Calls'
    <3>1. "host" \in Node /\ \A n \in Node : auth[n] # None => auth[n] \in Auth
      BY DEF TypeOK, Node
    <3>2. auth["host"] # None => auth["host"].cred \in Nat /\ auth["host"].cred <= issued
      BY <3>1 DEF Facts, Issued, Auth, Credential
    <3>3. ~Used'
      BY <1>5 DEF Used
    <3> QED
      BY <1>5, <1>6, <3>2, <3>3 DEF Calls
  <2>4. Called'
    BY <2>3 DEF Called, Handing
  <2>5. Collects'
    BY <1>1, <1>2, <1>3, <1>6, <1>9 DEF Collects, Handing
  <2> QED
    BY <2>1, <2>2, <2>4, <2>5, PartsNext
<1>15. Paired'
  BY <1>1, <1>9 DEF Paired
<1> QED
  BY <1>10, <1>12, <1>13, <1>14, <1>15 DEF Exchange

LEMMA PollExchange ==
    ASSUME TypeOK, Rows, Facts, Exchange, ~overlap', mixed' = mixed,
           NEW k \in Collectors, Poll(k)
    PROVE  Exchange'
<1> DEFINE i == joins[collect[k].join].req
<1>1. /\ requests[i] \in Request /\ collect[k] # None
      /\ Told(k, i) \/ Failed(k) \/ Given(k, i)
  BY PollEffect
<1>2. UNCHANGED <<joins, begin, nonces, auth, carried, lastApproved>>
  BY DEF Poll, peers
<1>3. /\ begin = None /\ collect[k].join = Len(joins) /\ Newest.state = "pending"
  BY <1>1, Collecting
<1>4. i = joins[collect[k].join].req
  OBVIOUS
<1> HIDE DEF i
<1>5. CASE Given(k, i)
  BY <1>1, <1>2, <1>4, <1>5, GivenExchange
<1>6. CASE Failed(k)
  BY <1>1, <1>2, <1>6, CollectExchange DEF Failed
<1>7. CASE Told(k, i)
  <2>1. PICK c \in Collect :
          /\ collect' = [collect EXCEPT ![k] = c]
          /\ c.join = collect[k].join /\ c.result.state # "approved"
          /\ UNCHANGED <<requests, member, issued, leftover>>
    BY <1>7 DEF Told
  <2> QED
    BY <1>1, <1>2, <1>3, <2>1, CollectExchange
<1> QED
  BY <1>1, <1>5, <1>6, <1>7

LEMMA AcceptRemoteExchange ==
    ASSUME TypeOK, Rows, Facts, Exchange, ~overlap', mixed' = mixed,
           NEW k \in Collectors, AcceptRemote(k)
    PROVE  Exchange'
<1>1. /\ collect[k] # None /\ collect[k].step = "answered"
      /\ collect[k].result.state = "approved"
  BY AcceptRemoteEffect
<1>2. PICK c \in Collect :
        /\ collect' = [collect EXCEPT ![k] = c]
        /\ c.step = "accepted" /\ c.join = collect[k].join
        /\ c.result = collect[k].result
  BY AcceptRemoteEffect
<1>3. PICK r \in Member :
        /\ member' = [member EXCEPT !["joiner"] = r]
        /\ r.inbound = joins[collect[k].join].cred
        /\ r.outbound = collect[k].result.cred
        /\ member["joiner"] = None => r.pending = None /\ r.live = FALSE
        /\ member["joiner"] # None => /\ r.pending = member["joiner"].pending
                                      /\ r.live = member["joiner"].live
  BY AcceptRemoteEffect
<1>4. /\ begin = None /\ collect[k].join = Len(joins) /\ Newest.state = "pending"
      /\ r.inbound = Newest.cred /\ Pairing
      /\ \A n \in Node : carried[n] = None /\ ~(auth[n] # None /\ auth[n].promote)
  BY <1>1, <1>3, Collecting
<1>5. UNCHANGED <<requests, joins, begin, nonces, auth, carried, lastApproved, leftover>>
  BY DEF AcceptRemote, pairing, tables, peers, history
<1>6. collect'[k] = c /\ \A l \in Collectors : l # k => collect'[l] = None
  BY <1>1, <1>2, OneCollector
<1>7. /\ "joiner" \in Node /\ "host" \in Node /\ r # None
      /\ member'["joiner"] = r /\ member'["host"] = member["host"]
  <2>1. "joiner" \in Node /\ "host" \in Node
    BY DEF Node
  <2> QED
    BY <1>3, <2>1, RowReplaced, Peers, NoneAssumption
<1>8. Newest' = Newest /\ Pairing' = Pairing
  BY <1>5 DEF Newest, Pairing
<1>9. member["host"] # None => member["host"].pending # collect[k].result.cred
  BY <1>1 DEF Facts, Truthful
<1>10. OnNewest'
  BY <1>2, <1>4, <1>5, <1>6, <1>8 DEF OnNewest
<1>11. Replacements'
  BY <1>4, <1>5 DEF Replacements
<1>12. Quiet'
  <2>1. ~(/\ member'["host"] # None /\ member'["host"].live
          /\ member'["joiner"].outbound = member'["host"].pending)
    BY <1>3, <1>7, <1>9
  <2>2. ~(/\ member'["joiner"].live /\ member'["host"] # None
          /\ member'["host"].outbound = member'["joiner"].pending)
    <3>1. member["joiner"] # None /\ member["joiner"].live /\ member["host"] # None
          => member["host"].outbound # member["joiner"].pending
      BY <1>4, <1>7, Peers DEF Exchange, Quiet
    <3> QED
      BY <1>3, <1>7, <3>1
  <2>3. \A n \in Node :
          /\ carried'[n] = None
          /\ ~(/\ member'[n] # None /\ member'[n].live /\ member'[Peer(n)] # None
               /\ member'[Peer(n)].outbound = member'[n].pending)
    BY <1>4, <1>5, <2>1, <2>2, Peers DEF Node
  <2> QED
    BY <2>3 DEF Quiet
<1>13. Handing(Newest.req) => member["host"].inbound = collect[k].result.cred
  BY <1>1, Parts DEF Exchange, Collects, Handing
<1>14. HandedOver'
  <2>1. Begins'
    BY <1>4, <1>5 DEF Begins
  <2>2. Pends'
    BY <1>5, <1>7, <1>8, Parts DEF Exchange, Pends, Handing
  <2>3. Called'
    BY <1>3, <1>5, <1>7, <1>8, <1>13 DEF Called, Handing
  <2>4. Collects'
    BY <1>2, <1>3, <1>4, <1>5, <1>6, <1>7, <1>8, <1>13 DEF Collects, Handing
  <2> QED
    BY <2>1, <2>2, <2>3, <2>4, PartsNext
<1>15. Paired'
  BY <1>4, <1>8 DEF Paired
<1> QED
  BY <1>10, <1>11, <1>12, <1>14, <1>15 DEF Exchange

LEMMA CollectFinishExchange ==
    ASSUME TypeOK, Rows, Facts, Exchange, ~overlap', mixed' = mixed,
           NEW k \in Collectors, CollectFinish(k)
    PROVE  Exchange'
<1>1. /\ collect[k] # None /\ collect[k].step # "calling"
      /\ collect[k].result.state = "approved" => collect[k].step = "accepted"
      /\ collect' = [collect EXCEPT ![k] = None]
      /\ Len(joins') = Len(joins)
      /\ \A j \in 1..Len(joins) :
           /\ joins'[j].req = joins[j].req /\ joins'[j].cred = joins[j].cred
           /\ j # collect[k].join => joins'[j] = joins[j]
      /\ joins'[collect[k].join].state = collect[k].result.state
  BY CollectFinishEffect
<1>2. UNCHANGED <<requests, begin, member, nonces, auth, carried, lastApproved, leftover>>
  BY DEF CollectFinish, peers, history
<1>3. /\ begin = None /\ collect[k].join = Len(joins) /\ Newest.state = "pending"
      /\ joins # <<>> /\ Pairing
  BY <1>1, Collecting
<1>4. \A l \in Collectors : collect'[l] = None
  <2>1. collect'[k] = None /\ \A l \in Collectors : l # k => collect'[l] = None
    BY <1>1, OneCollector
  <2> QED
    BY <2>1
<1>5. /\ Newest'.req = Newest.req /\ Newest'.cred = Newest.cred
      /\ Newest'.state = collect[k].result.state
      /\ Len(joins) \in 1..Len(joins)
  BY <1>1, <1>3, Typed DEF Newest
<1>6. OnNewest'
  BY <1>4 DEF OnNewest
<1>7. Replacements'
  BY <1>2, <1>3, KeepReplacements
<1>8. Quiet'
  BY <1>2, <1>3 DEF Exchange, Quiet
<1>9. HandedOver'
  <2>1. Begins' /\ Collects'
    BY <1>2, <1>3, <1>4 DEF Begins, Collects
  <2>2. Pends'
    BY <1>2, <1>3, <1>5, Parts DEF Exchange, Pends, Handing
  <2>3. Called'
    BY <1>2, <1>3, <1>5, Parts DEF Exchange, Called, Calls, Used, Handing
  <2> QED
    BY <2>1, <2>2, <2>3, PartsNext
<1>10. Paired'
  <2> SUFFICES ASSUME Newest'.state = "approved", Handing(Newest.req),
                      \A n \in Node : member[n] # None /\ member[n].state # "revoked"
               PROVE  \A n \in Node : Matched(n)'
    BY <1>2, <1>5 DEF Paired, Handing
  <2>1. "host" \in Node /\ "joiner" \in Node
    BY DEF Node
  <2>2. member["host"].outbound = Newest.cred
    BY <1>3, Parts DEF Exchange, Pends
  <2>3. /\ member["host"].inbound = collect[k].result.cred
        /\ member["joiner"].inbound = Newest.cred
        /\ member["joiner"].outbound = collect[k].result.cred
    BY <1>1, <1>5, <2>1, Parts DEF Exchange, Collects, Handing
  <2> QED
    BY <1>2, <2>2, <2>3, Peers DEF Matched, Node
<1> QED
  BY <1>6, <1>7, <1>8, <1>9, <1>10 DEF Exchange

----------------------------------------------------------------------------
(* The invariant, and what follows from it                                 *)

LEMMA InitExchange == Init => Exchange
<1> SUFFICES ASSUME Init PROVE Exchange
  OBVIOUS
<1>1. OnNewest
  BY DEF Init, OnNewest
<1>2. Replacements /\ Quiet
  BY DEF Init, Replacements, Quiet
<1>3. HandedOver /\ Paired
  BY DEF Init, HandedOver, Paired
<1> QED
  BY <1>1, <1>2, <1>3 DEF Exchange

\* A step that leaves what is under way without an overlap marks no request.
LEMMA Unmarked == ASSUME [Next]_vars, ~overlap' PROVE mixed' = mixed
<1>1. ASSUME NEW so \in BOOLEAN, Overlaps(so) PROVE mixed' = mixed
  BY <1>1 DEF Overlaps
<1>2. ASSUME UNCHANGED history PROVE mixed' = mixed
  BY <1>2 DEF history, overlaps
<1>3. ASSUME UNCHANGED overlaps PROVE mixed' = mixed
  BY <1>3 DEF overlaps
<1>4. CASE PairingCommand
  BY <1>1, <1>2, <1>3, <1>4
     DEF PairingCommand, Invite, BeginOutbound, Decide, CollectOutbound
<1>5. CASE MemberCommand
  BY <1>1, <1>2, <1>3, <1>5
     DEF MemberCommand, SetEnabled, Revoke, Remove, RotateInbound, SetOutboundCredential
<1>6. CASE Handler
  BY <1>2, <1>3, <1>6
     DEF Handler, SubmitJoin, RecordJoin, Poll, AcceptRemote, CollectFinish,
         Authenticate, AcceptHandshake, VerifyPeer, Verified, Authenticated
<1>7. CASE Fault
  BY <1>1, <1>2, <1>3, <1>7
     DEF Fault, BeginFails, PruneNonces, CollectFails, Expire, RotationExpires
<1>8. CASE UNCHANGED vars
  BY <1>8 DEF vars, history, overlaps
<1> QED
  BY <1>4, <1>5, <1>6, <1>7, <1>8 DEF Next

LEMMA NextExchange ==
    ASSUME TypeOK, Rows, Facts, Exchange, [Next]_vars, ~overlap', mixed' = mixed
    PROVE  Exchange'
<1>1. CASE PairingCommand
  <2>1. ASSUME NEW i \in Id, Invite(i) PROVE Exchange'
    <3>1. UNCHANGED <<requests, joins, begin, member, collect, nonces, auth, carried,
                      lastApproved, leftover>>
      BY <2>1 DEF Invite, peers, history
    <3> QED
      BY <3>1, SameExchange DEF Used
  <2>2. ASSUME NEW i \in Id, NEW approve \in BOOLEAN, Decide(i, approve)
        PROVE  Exchange'
    <3>1. CASE approve = TRUE
      BY <2>2, <3>1, ApproveExchange
    <3>2. CASE approve = FALSE
      BY <2>2, <3>2, RejectExchange
    <3> QED
      BY <3>1, <3>2
  <2>3. ASSUME NEW i \in Id, BeginOutbound(i) PROVE Exchange'
    BY <2>3, BeginOutboundExchange DEF Exchange
  <2> QED
    BY <1>1, <2>1, <2>2, <2>3, CollectOutboundExchange DEF PairingCommand
<1>2. CASE MemberCommand
  BY <1>2, SetEnabledExchange, RevokeExchange, RemoveExchange, RotateInboundExchange,
     SetOutboundExchange DEF MemberCommand
<1>3. CASE Handler
  BY <1>3, SubmitJoinExchange, RecordJoinExchange, PollExchange, AcceptRemoteExchange,
     CollectFinishExchange, VerifiedExchange, AuthenticatedExchange DEF Handler
<1>4. CASE Fault
  <2>1. CASE PruneNonces
    <3>1. /\ nonces' = FALSE
          /\ UNCHANGED <<requests, joins, begin, member, collect, auth, carried, lastApproved>>
      BY <2>1 DEF PruneNonces, pairing, tables
    <3> QED
      BY <3>1, SameExchange DEF Used
  <2> QED
    BY <1>4, <2>1, BeginFailsExchange, CollectFailsExchange, ExpireExchange,
       RotationExpiresExchange DEF Fault
<1>5. CASE UNCHANGED vars
  <2>1. UNCHANGED <<requests, joins, begin, member, collect, nonces, auth, carried,
                    lastApproved, leftover>>
    BY <1>5 DEF vars, pairing, tables, peers, history
  <2> QED
    BY <2>1, SameExchange DEF Used
<1> QED
  BY <1>1, <1>2, <1>3, <1>4, <1>5 DEF Next

\* In an overlap nothing is said of a hand-off.
LEMMA Overlapping == ASSUME TypeOK, Rows, Marked, overlap PROVE HandedOver /\ Paired
<1>1. joins # <<>> => Newest.req \in mixed
  BY Typed DEF Marked, Newest
<1>2. \A k \in Collectors : collect[k] # None => joins # <<>>
  BY Typed DEF Rows
<1>3. begin # None => begin.inv \in mixed
  BY DEF Marked
<1>4. HandedOver
  BY <1>1, <1>2, <1>3, Parts DEF Begins, Pends, Called, Collects, Handing
<1> QED
  BY <1>1, <1>4 DEF Paired, Handing

LEMMA NextIInv == IInv /\ [Next]_vars => IInv'
<1> SUFFICES ASSUME IInv, [Next]_vars PROVE IInv'
  OBVIOUS
<1>1. TypeOK /\ Rows /\ Facts /\ HandedOver /\ Paired
  BY DEF IInv, Facts
<1>2. TypeOK' /\ Rows' /\ Facts'
  BY <1>1, NextRows, NextFacts
<1>3. CASE overlap'
  <2>1. HandedOver' /\ Paired'
    BY <1>2, <1>3, Overlapping, PTL DEF Facts
  <2> QED
    BY <1>2, <1>3, <2>1 DEF IInv, Facts
<1>4. CASE ~overlap'
  <2>1. mixed' = mixed
    BY <1>4, Unmarked
  <2>2. CASE ~overlap
    <3>1. Exchange
      BY <2>2 DEF IInv, Exchange
    <3>2. Exchange'
      BY <1>1, <1>4, <2>1, <3>1, NextExchange
    <3> QED
      BY <1>2, <3>2 DEF IInv, Facts, Exchange
  <2>3. CASE overlap
    <3>1. PICK i \in Id : BeginOutbound(i)
      <4>1. ASSUME NEW so \in BOOLEAN, Overlaps(so) PROVE FALSE
        BY <1>4, <2>3, <4>1 DEF Overlaps
      <4>2. ASSUME UNCHANGED history PROVE FALSE
        BY <1>4, <2>3, <4>2 DEF history, overlaps
      <4>3. ASSUME UNCHANGED overlaps PROVE FALSE
        BY <1>4, <2>3, <4>3 DEF overlaps
      <4>4. CASE PairingCommand
        BY <4>1, <4>2, <4>3, <4>4 DEF PairingCommand, Invite, Decide, CollectOutbound
      <4>5. CASE MemberCommand
        BY <4>1, <4>2, <4>3, <4>5
           DEF MemberCommand, SetEnabled, Revoke, Remove, RotateInbound,
               SetOutboundCredential
      <4>6. CASE Handler
        BY <4>2, <4>3, <4>6
           DEF Handler, SubmitJoin, RecordJoin, Poll, AcceptRemote, CollectFinish,
               Authenticate, AcceptHandshake, VerifyPeer, Verified, Authenticated
      <4>7. CASE Fault
        BY <4>1, <4>2, <4>3, <4>7
           DEF Fault, BeginFails, PruneNonces, CollectFails, Expire, RotationExpires
      <4>8. CASE UNCHANGED vars
        BY <1>4, <2>3, <4>8 DEF vars, history, overlaps
      <4> QED
        BY <4>4, <4>5, <4>6, <4>7, <4>8 DEF Next
    <3>2. Exchange'
      BY <1>1, <1>4, <2>1, <3>1, BeginOutboundExchange
    <3> QED
      BY <1>2, <3>2 DEF IInv, Facts, Exchange
  <2> QED
    BY <2>2, <2>3
<1> QED
  BY <1>3, <1>4

\* The inductive invariant, whatever operators and collectors do and in
\* whatever order: exchanges may overlap, and the history says which have.
THEOREM Inductive == Spec => []IInv
<1>1. Init => IInv
  BY InitRows, InitFacts, InitExchange DEF IInv, Facts, Exchange
<1> QED
  BY <1>1, NextIInv, PTL DEF Spec

\* The host accepts what the joiner holds, or will hand out a credential: the
\* order of AcceptRemote and the update of the join in CollectOutbound, with
\* the "Recoverable handoff" of Poll, loses no approved pairing whose exchange
\* overlapped no other, nonces of an earlier membership aside.
THEOREM Handoff == Spec => []HandoffRecoverable
<1>1. IInv => HandoffRecoverable
  <2> SUFFICES ASSUME IInv, Settled(Len(joins)), ~Collectable(Len(joins)),
                      ~(/\ member["joiner"] = None
                        /\ Newest.state # "pending" \/ Used)
               PROVE  Reachable("host")
    BY DEF HandoffRecoverable, Newest
  <2>1. /\ joins # <<>> /\ Newest.req = lastApproved /\ Handing(Newest.req)
        /\ TrueOf(Newest.req, Newest.state)
        /\ \A n \in Node : member[n] # None => member[n].state # "revoked"
        /\ Newest.state \in {"pending", "approved", "rejected", "expired"}
    <3>1. /\ Len(joins) > 0 /\ Newest.req = lastApproved /\ lastApproved \notin mixed
          /\ member["host"] # None
          /\ \A n \in Node : member[n] # None => member[n].state # "revoked"
      BY DEF Settled, Newest
    <3>2. joins # <<>> /\ Len(joins) \in 1..Len(joins) /\ Newest \in Join
      BY <3>1, Typed DEF IInv
    <3>3. TrueOf(Newest.req, Newest.state)
      BY <3>2 DEF IInv, Truthful, Newest
    <3> QED
      BY <3>1, <3>2, <3>3 DEF Join, Handing
  <2>2. requests[Newest.req].state \in {"approved", "consumed"}
    <3>1. Newest.req # 0
      BY <2>1, Typed, BoundsAssumption DEF IInv, Id
    <3> QED
      BY <2>1, <3>1 DEF IInv, Truthful
  <2>3. CASE Newest.state = "pending"
    <3>1. requests[Newest.req].state = "consumed" /\ Used
      BY <2>2, <2>3 DEF Collectable, Newest
    <3>2. member["joiner"] # None
      BY <3>1
    <3>3. member["joiner"].outbound = member["host"].inbound
      BY <2>1, <2>3, <3>1, <3>2, Parts DEF IInv, Called, Calls
    <3> QED
      BY <3>2, <3>3, Peers DEF Reachable, Accepted
  <2>4. CASE Newest.state # "pending"
    <3>1. Newest.state = "approved"
      BY <2>1, <2>2, <2>4 DEF TrueOf
    <3>2. member["joiner"] # None
      BY <2>4
    <3>3. Matched("host")
      BY <2>1, <3>1, <3>2 DEF IInv, Paired, Handing, Node
    <3> QED
      BY <3>2, <3>3, Peers DEF Matched, Reachable, Accepted
  <2> QED
    BY <2>3, <2>4
<1> QED
  BY <1>1, Inductive, PTL

\* Once its join is collected the joiner accepts what the host presents, at
\* every moment of a rotation: BeginOutbound, Decide and AcceptRemote store the
\* two halves of one pair, RotateInbound, SetOutboundCredential and the
\* promotion keep them so, of every exchange that overlapped no other.
THEOREM Agree == Spec => []PeersAgree
<1>1. IInv => PeersAgree
  <2> SUFFICES ASSUME IInv, Settled(Len(joins)), Newest.state = "approved",
                      member["joiner"] # None
               PROVE  Reachable("joiner")
    BY DEF PeersAgree, Newest
  <2>1. /\ joins # <<>> /\ Handing(Newest.req)
        /\ \A n \in Node : member[n] # None => member[n].state # "revoked"
    BY Typed DEF Settled, Newest, IInv, Handing
  <2>2. Matched("joiner")
    BY <2>1 DEF IInv, Paired, Handing, Node
  <2> QED
    BY <2>1, <2>2, Peers DEF Matched, Reachable, Accepted, Handing
<1> QED
  BY <1>1, Inductive, PTL

=============================================================================
