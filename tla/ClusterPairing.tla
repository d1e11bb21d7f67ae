--------------------------- MODULE ClusterPairing ---------------------------
(***************************************************************************)
(* How two Watchpost nodes become members of one cluster and stay so:      *)
(* invitations, join requests and the hand-off of credentials              *)
(* (internal/cluster/pairing.go), the members an operator enables, revokes,*)
(* removes and gives new credentials (members.go), and the check of a      *)
(* peer's credential (transport.go, replicated/authenticator.go).          *)
(*                                                                         *)
(* The host invites, the joiner joins. Each node has one row for the other *)
(* in cluster_members. A transaction or a single statement is one step;    *)
(* what a handler does before and after an HTTP call are steps apart, and  *)
(* the handler may stop between any two of them.                           *)
(*                                                                         *)
(* A stored hash is modelled by the credential it recognises. The          *)
(* credential that approval makes is stored only as a hash and told to     *)
(* nobody: it is Unknown.                                                  *)
(***************************************************************************)
EXTENDS Integers, Sequences, FiniteSets

CONSTANTS Collectors,    \* handlers and CLI processes that collect a join
          MaxInvitation, \* bound: invitations, hence join requests
          MaxCredential, \* bound: credentials issued
          None           \* no row, nothing in progress

ASSUME BoundsAssumption == MaxInvitation \in Nat /\ MaxCredential \in Nat

Node == {"host", "joiner"}
Peer(n) == CHOOSE m \in Node : m # n
Id == 1..MaxInvitation
Credential == 1..MaxCredential
Unknown == 0

\* A row of cluster_members; live: pending_inbound_expires_at lies ahead.
Member == [state : {"active", "disabled", "revoked"},
           inbound : Credential \cup {Unknown}, outbound : Credential,
           pending : Credential \cup {None}, live : BOOLEAN]

\* Rows of cluster_invitations and of cluster_join_requests. The request made
\* with invitation i is request i; cred: credential_for_local.
Invitation == [state : {"pending", "consumed"}, live : BOOLEAN]
Request == [state : {"pending", "approved", "rejected", "consumed"},
            live : BOOLEAN, cred : Credential]

\* A row of cluster_outbound_joins; cred: local_inbound_credential.
Join == [req : Id, cred : Credential,
         state : {"pending", "approved", "rejected", "expired"}]

\* A CollectOutbound in progress: join is the row's place in joins.
Result == [state : {"pending", "approved", "rejected", "expired"},
           cred : Credential \cup {None}]
Collect == [step : {"calling"}, join : Nat]
           \cup [step : {"answered", "accepted"}, join : Nat, result : Result]

\* A BeginOutbound in progress, and a request whose sender a node has verified.
BeginStep == [step : {"calling"}, inv : Id]
             \cup [step : {"answered"}, inv : Id, cred : Credential]
Auth == [cred : Credential, promote : BOOLEAN]

ASSUME NoneAssumption ==
    None \notin Member \cup Invitation \cup Request \cup Collect
              \cup Result \cup BeginStep \cup Auth \cup Credential \cup {Unknown}

VARIABLES invitations, requests,  \* the host's tables
          joins,      \* the joiner's cluster_outbound_joins by created_at
          member,     \* at each node the row of the other, or None
          nonces,     \* does the host's cluster_nonces hold a row of the joiner
          begin,      \* the BeginOutbound in progress
          collect,    \* for each collector the CollectOutbound in progress
          auth,       \* at each node the request it has verified, if any
          carried,    \* the replacement an operator has taken from the node
          issued,     \* number of credentials issued
          lastApproved, \* history: the request approved last, 0 if none
          leftover,   \* history: has the host a nonce of the joiner from before
                      \* the credential it handed out last
          overlap,    \* history: has what is under way overlapped
          mixed       \* history: the requests begun before or in an overlap

tables == <<invitations, requests, joins>>
pairing == <<tables, begin>>
peers == <<nonces, auth, carried>>
overlaps == <<overlap, mixed>>
history == <<lastApproved, leftover, overlaps>>
vars == <<pairing, collect, member, peers, issued, history>>

TypeOK ==
    /\ invitations \in [Id -> Invitation \cup {None}]
    /\ requests \in [Id -> Request \cup {None}]
    /\ joins \in Seq(Join)
    /\ member \in [Node -> Member \cup {None}]
    /\ nonces \in BOOLEAN
    /\ begin \in BeginStep \cup {None}
    /\ collect \in [Collectors -> Collect \cup {None}]
    /\ auth \in [Node -> Auth \cup {None}]
    /\ carried \in [Node -> Credential \cup {None}]
    /\ issued \in 0..MaxCredential
    /\ lastApproved \in Id \cup {0} /\ leftover \in BOOLEAN
    /\ overlap \in BOOLEAN /\ mixed \in SUBSET Id

Init ==
    /\ invitations = [i \in Id |-> None] /\ requests = [i \in Id |-> None]
    /\ joins = <<>> /\ member = [n \in Node |-> None]
    /\ nonces = FALSE /\ begin = None
    /\ collect = [k \in Collectors |-> None] /\ auth = [n \in Node |-> None]
    /\ carried = [n \in Node |-> None] /\ issued = 0
    /\ lastApproved = 0 /\ leftover = FALSE /\ overlap = FALSE /\ mixed = {}

Fresh == issued + 1
Issue == issued < MaxCredential /\ issued' = Fresh

\* A pairing, or the rotation of n's inbound credential, is under way.
Pairing == \/ begin # None
           \/ joins # <<>> /\ joins[Len(joins)].state = "pending"
           \/ \E i \in Id : /\ requests[i] # None
                            /\ requests[i].state = "pending" /\ requests[i].live
Rotating(n) ==
    \/ carried[n] # None \/ (auth[n] # None /\ auth[n].promote)
    \/ /\ member[n] # None /\ member[n].live
       /\ member[Peer(n)] # None /\ member[Peer(n)].outbound = member[n].pending

\* Nothing in the code keeps one exchange from beginning while another is under
\* way. Where one does, the history says so of every request begun by then.
Begun == {i \in Id : requests[i] # None}
         \cup IF begin = None THEN {} ELSE {begin.inv}
Overlaps(so) == /\ overlap' = (overlap \/ so)
                /\ mixed' = IF so THEN mixed \cup Begun ELSE mixed

----------------------------------------------------------------------------
(* Invitation and join request                                             *)

\* PairingService.Invite.
Invite(i) ==
    /\ invitations[i] = None /\ \A j \in 1..(i - 1) : invitations[j] # None
    /\ invitations' = [invitations EXCEPT
                          ![i] = [state |-> "pending", live |-> TRUE]]
    /\ UNCHANGED <<requests, joins, begin, collect, member, peers, issued,
                   history>>

\* Nobody collects a join and no credential is being replaced.
Alone == /\ \A k \in Collectors : collect[k] = None
         /\ \A n \in Node : ~Rotating(n)

\* PairingService.BeginOutbound up to the call. A pairing that begins alone
\* begins afresh.
BeginOutbound(i) ==
    /\ begin = None /\ invitations[i] # None
    /\ begin' = [step |-> "calling", inv |-> i]
    /\ overlap' = ~Alone
    /\ mixed' = IF Alone THEN mixed ELSE mixed \cup Begun \cup {i}
    /\ UNCHANGED <<tables, member, peers, collect, issued, lastApproved, leftover>>

\* PairingService.SubmitJoin, one transaction. The joiner has made the
\* credential it will accept from the host; the request keeps it.
SubmitJoin ==
    /\ begin # None /\ begin.step = "calling"
    /\ LET i == begin.inv
       IN  /\ invitations[i].state = "pending" /\ invitations[i].live
           /\ Issue
           /\ requests' = [requests EXCEPT ![i] =
                 [state |-> "pending", live |-> TRUE, cred |-> Fresh]]
           /\ invitations' = [invitations EXCEPT ![i].state = "consumed"]
           /\ begin' = [step |-> "answered", inv |-> i, cred |-> Fresh]
    /\ UNCHANGED <<joins, member, peers, collect, history>>

\* BeginOutbound after the answer: the join is recorded.
RecordJoin ==
    /\ begin # None /\ begin.step = "answered"
    /\ joins' = Append(joins, [req |-> begin.inv, cred |-> begin.cred,
                               state |-> "pending"])
    /\ begin' = None
    /\ UNCHANGED <<invitations, requests, collect, member, peers, issued,
                   history>>

\* The host refuses (an invitation that is consumed or expired stays as it is:
\* the update to 'expired' is rolled back), or the receipt is lost.
BeginFails ==
    /\ begin # None /\ begin' = None
    /\ UNCHANGED <<tables, member, peers, collect, issued, history>>

UpsertedDefect(n, in, out) ==
    IF member[n] = None
    THEN [state |-> "active", inbound |-> in, outbound |-> out,
          pending |-> None, live |-> FALSE]
    ELSE [member[n] EXCEPT !.state = "active", !.outbound = out]

\* The row that Decide and AcceptRemote upsert; ON CONFLICT leaves a pending
\* replacement as it is.
Upserted(n, in, out) ==
    IF member[n] = None
    THEN [state |-> "active", inbound |-> in, outbound |-> out,
          pending |-> None, live |-> FALSE]
    ELSE [member[n] EXCEPT !.state = "active", !.inbound = in, !.outbound = out]

\* PairingService.Decide.
Decide(i, approve) ==
    /\ requests[i] # None
    /\ requests[i].state = "pending" /\ requests[i].live
    /\ requests' = [requests EXCEPT
                      ![i].state = IF approve THEN "approved" ELSE "rejected"]
    /\ IF approve
       THEN /\ member' = [member EXCEPT
                            !["host"] = Upserted("host", Unknown,
                                                 requests[i].cred)]
            /\ lastApproved' = i
       ELSE UNCHANGED <<member, lastApproved>>
    /\ UNCHANGED <<invitations, joins, peers, begin, collect, issued, leftover,
                   overlaps>>

\* The lifetime of an invitation or of a join request ends; it is read only
\* while the row is pending.
Expire(i) ==
    /\ \/ /\ invitations[i] # None /\ invitations[i].live
          /\ invitations[i].state = "pending"
          /\ invitations' = [invitations EXCEPT ![i].live = FALSE]
          /\ UNCHANGED requests
       \/ /\ requests[i] # None /\ requests[i].live
          /\ requests[i].state = "pending"
          /\ requests' = [requests EXCEPT ![i].live = FALSE]
          /\ UNCHANGED invitations
    /\ UNCHANGED <<joins, member, peers, begin, collect, issued, history>>

----------------------------------------------------------------------------
(* Collecting the result                                                   *)

\* PairingService.ensureCurrentOutbound.
EnsureCurrentOutbound(j) == j = Len(joins)

\* PairingService.CollectOutbound up to the call; a join that is no longer
\* pending is returned as it is.
CollectOutbound(k, j) ==
    /\ collect[k] = None
    /\ EnsureCurrentOutbound(j) /\ joins[j].state = "pending"
    /\ collect' = [collect EXCEPT ![k] = [step |-> "calling", join |-> j]]
    /\ Overlaps(begin # None \/ \E l \in Collectors : collect[l] # None)
    /\ UNCHANGED <<pairing, member, peers, issued, lastApproved, leftover>>

\* What a collector is told, or None when the host answers with an error.
Answered(k, result) ==
    collect' = [collect EXCEPT ![k] =
                  IF result = None THEN None
                  ELSE [step |-> "answered", join |-> @.join,
                        result |-> result]]

\* Poll hands out a new credential: the inbound hash is replaced.
Reissue ==
    /\ Issue /\ leftover' = nonces
    /\ member' = IF member["host"] = None THEN member
                 ELSE [member EXCEPT !["host"].inbound = Fresh]

\* PairingService.Poll, one transaction of the host.
Poll(k) ==
    /\ collect[k] # None /\ collect[k].step = "calling"
    /\ LET i == joins[collect[k].join].req
           r == requests[i]
           told(state) == [state |-> state, cred |-> None]
           given == [state |-> "approved", cred |-> Fresh]
       IN  \/ /\ r.state \in {"pending", "rejected"}
              /\ Answered(k, told(IF r.state = "pending" /\ ~r.live
                                  THEN "expired" ELSE r.state))
              /\ UNCHANGED <<requests, member, issued, leftover>>
           \/ /\ r.state = "consumed" /\ ~nonces
              /\ Reissue /\ Answered(k, given) /\ UNCHANGED requests
           \/ /\ \/ r.state = "consumed" /\ nonces
                 \/ r.state = "approved" /\ member["host"] = None
              /\ Answered(k, None)
              /\ UNCHANGED <<requests, member, issued, leftover>>
           \/ /\ r.state = "approved" /\ member["host"] # None
              /\ Reissue /\ Answered(k, given)
              /\ requests' = [requests EXCEPT ![i].state = "consumed"]
    /\ UNCHANGED <<invitations, joins, peers, begin, lastApproved, overlaps>>

\* CollectOutbound, case "approved": PairingService.AcceptRemote.
AcceptRemote(k) ==
    /\ collect[k] # None /\ collect[k].step = "answered"
    /\ collect[k].result.state = "approved"
    /\ member' = [member EXCEPT !["joiner"] =
                    Upserted("joiner", joins[collect[k].join].cred,
                             collect[k].result.cred)]
    /\ collect' = [collect EXCEPT ![k].step = "accepted"]
    /\ UNCHANGED <<pairing, peers, issued, history>>

\* AcceptRemote has been done, if it had to be.
DoneDefect(c) == c.step \in {"answered", "accepted"}
Done(c) == \/ c.step = "accepted"
           \/ c.step = "answered" /\ c.result.state # "approved"

\* The last statement of CollectOutbound.
CollectFinish(k) ==
    /\ collect[k] # None /\ Done(collect[k])
    /\ joins' = [joins EXCEPT
                   ![collect[k].join].state = collect[k].result.state]
    /\ collect' = [collect EXCEPT ![k] = None]
    /\ UNCHANGED <<invitations, requests, begin, member, peers, issued,
                   history>>

\* The answer is lost, a statement fails or the process stops.
CollectFails(k) ==
    /\ collect[k] # None /\ collect' = [collect EXCEPT ![k] = None]
    /\ UNCHANGED <<pairing, member, peers, issued, history>>

----------------------------------------------------------------------------
(* Members                                                                 *)

\* MemberService.SetEnabled.
SetEnabled(n, enabled) ==
    /\ member[n] # None /\ member[n].state # "revoked"
    /\ member' = [member EXCEPT
                    ![n].state = IF enabled THEN "active" ELSE "disabled"]
    /\ UNCHANGED <<pairing, peers, collect, issued, history>>

\* MemberService.Revoke: a pending replacement goes too.
Revoke(n) ==
    /\ member[n] # None /\ member[n].state # "revoked"
    /\ member' = [member EXCEPT ![n].state = "revoked", ![n].pending = None,
                                ![n].live = FALSE]
    /\ carried' = [carried EXCEPT ![n] = None]
    /\ UNCHANGED <<pairing, nonces, collect, auth, issued, history>>

\* MemberService.Remove; the member's nonces go with it (ON DELETE CASCADE).
Remove(n) ==
    /\ member[n] # None /\ member[n].state # "active"
    /\ member' = [member EXCEPT ![n] = None]
    /\ nonces' = (nonces /\ n # "host")
    /\ carried' = [carried EXCEPT ![n] = None]
    /\ leftover' = (leftover /\ n # "host")
    /\ UNCHANGED <<pairing, collect, auth, issued, lastApproved, overlaps>>

\* MemberService.RotateInbound; an operator takes the replacement away.
RotateInbound(n) ==
    /\ member[n] # None /\ member[n].state = "active" /\ Issue
    /\ member' = [member EXCEPT ![n].pending = Fresh, ![n].live = TRUE]
    /\ carried' = [carried EXCEPT ![n] = Fresh]
    /\ Overlaps(Pairing \/ Rotating(n))
    /\ UNCHANGED <<pairing, nonces, collect, auth, lastApproved, leftover>>

\* MemberService.SetOutboundCredential at n, of the replacement its peer made.
SetOutboundCredential(n) ==
    /\ carried[Peer(n)] # None
    /\ member[n] # None /\ member[n].state = "active"
    /\ member' = [member EXCEPT ![n].outbound = carried[Peer(n)]]
    /\ carried' = [carried EXCEPT ![Peer(n)] = None]
    /\ UNCHANGED <<pairing, nonces, collect, auth, issued, history>>

\* RotationLifetime ends: before the replacement is put in place, or after that
\* but before the peer has called with it, which is an overlap too.
RotationExpires(n) ==
    /\ member[n] # None /\ member[n].live
    /\ member' = [member EXCEPT ![n].live = FALSE]
    /\ carried' = [carried EXCEPT ![n] = None]
    /\ Overlaps(member[Peer(n)] # None /\ member[Peer(n)].outbound = member[n].pending)
    /\ UNCHANGED <<pairing, nonces, collect, auth, issued, lastApproved, leftover>>

----------------------------------------------------------------------------
(* Authentication of a peer                                                *)

\* The credentials row m accepts (VerifyIncoming, and the same switch in
\* WatchpostAuthenticator).
Accepted(m) == {m.inbound} \cup IF m.live THEN {m.pending} ELSE {}

Verified(n, c) ==
    /\ auth[n] = None
    /\ member[n] # None /\ member[n].state = "active"
    /\ c \in Accepted(member[n])
    /\ auth' = [auth EXCEPT ![n] = [cred |-> c,
                                    promote |-> c # member[n].inbound]]
    /\ UNCHANGED <<pairing, member, nonces, collect, carried, issued, history>>

\* Transport.Do at the peer and Transport.Authenticate at n up to the
\* verification: the row as it is read decides.
Authenticate(n) ==
    LET m == member[Peer(n)]
    IN  m # None /\ m.state = "active" /\ Verified(n, m.outbound)

\* The replication handshake. The peer presents OutboundCredential, whatever
\* the state of its row.
OutboundCredential(n) == member[n].outbound

\* WatchpostAuthenticator.Authenticate at the node that accepts a connection,
\* and VerifyPeer at the node that dials.
AcceptHandshake(n) ==
    member[Peer(n)] # None /\ Verified(n, OutboundCredential(Peer(n)))
VerifyPeer(n) ==
    member[Peer(n)] # None /\ Verified(n, OutboundCredential(Peer(n)))

\* The promotion, by node_id only, fails when the replacement is gone:
\* inbound_secret_hash is NOT NULL.
PromotionFails(n) == auth[n].promote /\ member[n].pending = None

\* The rest of Authenticate: promotion, then the nonce. With the row gone the
\* nonce is refused (it refers to the row).
Authenticated(n) ==
    /\ auth[n] # None
    /\ auth' = [auth EXCEPT ![n] = None]
    /\ LET m == member[n]
           ok == m # None /\ ~PromotionFails(n)
       IN  /\ member' = IF ok /\ auth[n].promote
                        THEN [member EXCEPT ![n].inbound = m.pending,
                                            ![n].pending = None,
                                            ![n].live = FALSE]
                        ELSE member
           /\ nonces' = (nonces \/ (ok /\ n = "host"))
           /\ leftover' = \/ leftover
                          \/ /\ ok /\ n = "host"
                             /\ auth[n].cred # IF auth[n].promote THEN m.pending
                                              ELSE m.inbound
    /\ UNCHANGED <<pairing, collect, carried, issued, lastApproved, overlaps>>

\* consumeNonce of another member's request, if there is one: expired rows go.
PruneNonces ==
    /\ nonces
    /\ nonces' = FALSE /\ leftover' = FALSE
    /\ UNCHANGED <<pairing, member, collect, auth, carried, issued, lastApproved,
                   overlaps>>

----------------------------------------------------------------------------
\* What an operator does about pairings ("watchpost cluster", or the console).
PairingCommand ==
    \/ \E i \in Id : Invite(i) \/ BeginOutbound(i)
    \/ \E i \in Id, approve \in BOOLEAN : Decide(i, approve)
    \/ \E k \in Collectors, j \in 1..Len(joins) : CollectOutbound(k, j)

\* What an operator does about members.
MemberCommand ==
    \/ \E n \in Node, enabled \in BOOLEAN : SetEnabled(n, enabled)
    \/ \E n \in Node : \/ Revoke(n) \/ Remove(n) \/ RotateInbound(n)
                       \/ SetOutboundCredential(n)

\* What a node does with a call it has received or an answer it waits for.
Handler ==
    \/ SubmitJoin \/ RecordJoin
    \/ \E k \in Collectors : Poll(k) \/ AcceptRemote(k) \/ CollectFinish(k)
    \/ \E n \in Node : \/ Authenticate(n) \/ AcceptHandshake(n)
                       \/ VerifyPeer(n) \/ Authenticated(n)

Fault ==
    \/ BeginFails \/ PruneNonces
    \/ \E k \in Collectors : CollectFails(k)
    \/ \E i \in Id : Expire(i)
    \/ \E n \in Node : RotationExpires(n)

Next == PairingCommand \/ MemberCommand \/ Handler \/ Fault
Spec == Init /\ [][Next]_vars

----------------------------------------------------------------------------
(* Properties                                                              *)

\* The joiner's newest join is the one the host approved last, its exchange has
\* overlapped no other, and nothing of it is on its way; neither node has
\* revoked the other.
Settled(j) ==
    /\ j > 0 /\ joins[j].req = lastApproved /\ lastApproved \notin mixed
    /\ \A n \in Node : member[n] # None => member[n].state # "revoked"
    /\ member["host"] # None
    /\ begin = None /\ \A k \in Collectors : collect[k] = None

\* n accepts the credential its peer has for it.
Reachable(n) == member[Peer(n)] # None
                /\ member[Peer(n)].outbound \in Accepted(member[n])

\* The joiner has called the host with the credential handed out last.
Used == nonces /\ ~leftover

\* Poll will hand out a credential for join j. A nonce from before the last
\* hand-out is excused: the host then refuses until another member's request
\* prunes it, which in a cluster of two never happens.
Collectable(j) ==
    /\ joins[j].state = "pending"
    /\ \/ requests[joins[j].req].state = "approved"
       \/ requests[joins[j].req].state = "consumed" /\ ~Used

\* An approved hand-off is never lost, whatever answer, statement or process
\* failed: the host accepts the credential the joiner holds, at every moment of
\* a rotation too, or the joiner can collect one ("Recoverable handoff" in
\* Poll, with the order of AcceptRemote and the update of the join in
\* CollectOutbound), unless an operator has removed the row since. Not covered
\* are a request whose exchange overlapped another (mixed), and the nonces of
\* an earlier membership (leftover).
HandoffRecoverable ==
    LET j == Len(joins)
    IN  Settled(j) => \/ Reachable("host")
                      \/ Collectable(j)
                      \/ /\ member["joiner"] = None
                         /\ joins[j].state # "pending" \/ Used

\* Once the join is collected the joiner accepts what the host presents: the
\* credential the joiner made when it began that very join, or the replacement
\* an operator has put in place (BeginOutbound, Decide, AcceptRemote,
\* RotateInbound, SetOutboundCredential and the promotion).
PeersAgree ==
    LET j == Len(joins)
    IN  Settled(j) /\ joins[j].state = "approved" /\ member["joiner"] # None
        => Reachable("joiner")

----------------------------------------------------------------------------
(* Inductive invariants                                                    *)

\* What is under way belongs together: a request was made with an invitation;
\* a join, and the BeginOutbound before it, have the credential of the request;
\* what a collector was told is approved has a credential.
Rows ==
    /\ \A i \in Id : requests[i] # None => /\ invitations[i] # None
                                           /\ invitations[i].state = "consumed"
                                           /\ requests[i].cred <= issued
    /\ begin # None => /\ invitations[begin.inv] # None
                       /\ begin.step = "answered" =>
                             /\ requests[begin.inv] # None
                             /\ requests[begin.inv].cred = begin.cred
                             /\ requests[begin.inv].state # "consumed"
                             /\ \A j \in 1..Len(joins) : joins[j].req # begin.inv
    /\ \A j \in 1..Len(joins) : /\ requests[joins[j].req] # None
                                /\ requests[joins[j].req].cred = joins[j].cred
    /\ \A k \in Collectors : collect[k] # None =>
          /\ collect[k].join \in 1..Len(joins)
          /\ collect[k].step # "calling" /\ collect[k].result.state = "approved"
             => collect[k].result.cred # None
          /\ collect[k].step = "accepted" => collect[k].result.state = "approved"

Newest == joins[Len(joins)]

\* An overlap is remembered of every request it can concern.
Marked ==
    overlap => /\ \A j \in 1..Len(joins) : joins[j].req \in mixed
               /\ begin # None => begin.inv \in mixed

\* Without an overlap one collector works at a time, on the newest join while
\* that is pending.
OnNewest ==
    \A k \in Collectors : collect[k] # None =>
       /\ begin = None /\ collect[k].join = Len(joins) /\ Newest.state = "pending"
       /\ \A l \in Collectors : collect[l] # None => l = k

\* What a join or an answer says of request i; once true it stays true.
TrueOf(i, state) ==
    /\ state = "approved" => requests[i].state = "consumed"
    /\ state = "rejected" => requests[i].state = "rejected"
    /\ state = "expired"  => requests[i].state = "pending" /\ ~requests[i].live
Truthful ==
    /\ \A j \in 1..Len(joins) : TrueOf(joins[j].req, joins[j].state)
    /\ \A k \in Collectors : collect[k] # None /\ collect[k].step # "calling" =>
          LET result == collect[k].result
          IN  /\ TrueOf(joins[collect[k].join].req, result.state)
              /\ result.state = "approved" =>
                    /\ result.cred <= issued
                    /\ member["host"] # None => member["host"].pending # result.cred
    /\ lastApproved # 0 =>
          /\ requests[lastApproved] # None
          /\ requests[lastApproved].state \in {"approved", "consumed"}

\* Credentials have been issued, and no replacement came with a request.
Issued ==
    /\ \A n \in Node : member[n] # None =>
          /\ member[n].outbound <= issued
          /\ member[n].pending # None => member[n].pending <= issued
          /\ member[n].live => member[n].pending # None
    /\ \A n \in Node : /\ auth[n] # None => auth[n].cred <= issued
                       /\ carried[n] # None => carried[n] <= issued
    /\ \A i \in Id : requests[i] # None /\ member["joiner"] # None
                     => member["joiner"].pending # requests[i].cred

\* Without an overlap, a replacement an operator has in hand is the one the row
\* will accept, and the peer does not present it yet. A request about to be
\* promoted was made with the replacement, which nobody has in hand any more.
Replacements ==
    \A n \in Node :
       LET m == member[n]
           p == member[Peer(n)]
       IN  /\ carried[n] # None => /\ m # None /\ m.live /\ m.pending = carried[n]
                                   /\ p # None => p.outbound # carried[n]
           /\ auth[n] # None /\ auth[n].promote =>
                 /\ carried[n] = None /\ ~Pairing
                 /\ m # None /\ m.pending # None /\ p # None =>
                       p.outbound = m.pending

\* No rotation is under way during a pairing.
Quiet ==
    Pairing => \A n \in Node :
       /\ carried[n] = None
       /\ ~(/\ member[n] # None /\ member[n].live /\ member[Peer(n)] # None
            /\ member[Peer(n)].outbound = member[n].pending)

\* The hand-off of the request that was approved last, step by step: the host
\* presents the credential that came with the request; it accepts what it
\* handed out; the joiner has stored both, and calls only after that.
Handing(i) == lastApproved = i /\ i \notin mixed /\ member["host"] # None
HandedOver ==
    LET host == member["host"]
        joiner == member["joiner"]
    IN  /\ begin # None /\ begin.step = "answered" /\ Handing(begin.inv)
           => host.outbound = begin.cred
        /\ joins # <<>> /\ Newest.state = "pending" /\ Handing(Newest.req) =>
              /\ host.outbound = Newest.cred
              /\ requests[Newest.req].state = "consumed" /\ joiner # None
                 /\ (Used \/ (auth["host"] # None /\ auth["host"].cred = host.inbound))
                 => joiner.outbound = host.inbound
        /\ \A k \in Collectors :
              /\ collect[k] # None /\ collect[k].step # "calling"
              /\ collect[k].result.state = "approved" /\ Newest.req \notin mixed
              => /\ Handing(Newest.req) => host.inbound = collect[k].result.cred
                 /\ collect[k].step = "accepted" /\ joiner # None
                    => /\ joiner.inbound = Newest.cred
                       /\ joiner.outbound = collect[k].result.cred

\* n accepts what its peer presents: its credential, or the replacement once an
\* operator has put it in place.
Matched(n) ==
    LET m == member[n]
        p == member[Peer(n)]
    IN  \/ p.outbound = m.inbound
        \/ carried[n] = None /\ m.live /\ p.outbound = m.pending

\* After the hand-off both nodes match until one of them revokes or removes
\* the other, or another request is approved.
Paired ==
    (/\ joins # <<>> /\ Newest.state = "approved" /\ Handing(Newest.req)
     /\ \A n \in Node : member[n] # None /\ member[n].state # "revoked")
    => \A n \in Node : Matched(n)

IInv == /\ TypeOK /\ Rows /\ Marked /\ Truthful /\ Issued
        /\ ~overlap => OnNewest /\ Replacements /\ Quiet
        /\ HandedOver /\ Paired

=============================================================================
