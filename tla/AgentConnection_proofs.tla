---------------------- MODULE AgentConnection_proofs ----------------------
(***************************************************************************)
(* Proofs about AgentConnection for any number of pairings, credentials,   *)
(* samples and calls in flight: what is stored is what one pairing sent,   *)
(* what is acknowledged is stored, and no lost answer bricks the agent.    *)
(***************************************************************************)
EXTENDS AgentConnection, TLAPS

----------------------------------------------------------------------------
(* Calls *)

LEMMA CallFacts ==
    ASSUME NEW c \in Call
    PROVE  /\ c.op \in {"poll", "rotate", "unpair", "batch"} /\ c.late \in BOOLEAN
           /\ c.op = "poll" => c.req \in RequestId
           /\ c.op # "poll" => c.cred \in Credential /\ c.cred \in Nat
           /\ c.op = "batch" => /\ c.batch \in Sample /\ c.batch[1] \in RequestId
                                /\ c.batch[2] \in 1..MaxSample /\ c.batch[2] \in Nat
                                /\ c.batch = <<c.batch[1], c.batch[2]>>
<1>1. CASE c \in [op : {"poll"}, req : RequestId, late : BOOLEAN]
  BY <1>1
<1>2. CASE c \in [op : {"rotate", "unpair"}, cred : Credential, late : BOOLEAN]
  BY <1>2, BoundsAssumption DEF Credential
<1>3. CASE c \in [op : {"batch"}, cred : Credential, batch : Sample, late : BOOLEAN]
  BY <1>3, BoundsAssumption DEF Credential, Sample
<1> QED
  BY <1>1, <1>2, <1>3 DEF Call

\* A call that is late is the call it was.
LEMMA LateFacts ==
    ASSUME NEW c \in Call, NEW l \in BOOLEAN, NEW d, d = [c EXCEPT !.late = l]
    PROVE  /\ d \in Call /\ d.op = c.op
           /\ c.op = "poll" => d.req = c.req
           /\ c.op # "poll" => d.cred = c.cred
           /\ c.op = "batch" => d.batch = c.batch
<1>1. CASE c \in [op : {"poll"}, req : RequestId, late : BOOLEAN]
  BY <1>1 DEF Call
<1>2. CASE c \in [op : {"rotate", "unpair"}, cred : Credential, late : BOOLEAN]
  BY <1>2 DEF Call
<1>3. CASE c \in [op : {"batch"}, cred : Credential, batch : Sample, late : BOOLEAN]
  BY <1>3 DEF Call
<1> QED
  BY <1>1, <1>2, <1>3 DEF Call

\* The calls of a set are, but for lateness, calls of another.
Alike(S, T) ==
    \A d \in S : \E c \in T :
        /\ d.op = c.op
        /\ c.op = "poll" => d.req = c.req
        /\ c.op # "poll" => d.cred = c.cred
        /\ c.op = "batch" => d.batch = c.batch

LEMMA AbandonedFacts ==
    ASSUME TypeOK
    PROVE  Abandoned \subseteq Call /\ Alike(Abandoned, calls)
<1>1. ASSUME NEW d \in Abandoned
      PROVE  /\ d \in Call
             /\ \E c \in calls :
                   /\ d.op = c.op
                   /\ c.op = "poll" => d.req = c.req
                   /\ c.op # "poll" => d.cred = c.cred
                   /\ c.op = "batch" => d.batch = c.batch
  <2> PICK c \in calls : d = [c EXCEPT !.late = @ \/ c = agent.waiting]
    BY DEF Abandoned
  <2>1. c \in Call /\ c.late \in BOOLEAN
    BY CallFacts DEF TypeOK
  <2> PICK l : l = (c.late \/ c = agent.waiting)
    OBVIOUS
  <2>2. l \in BOOLEAN /\ d = [c EXCEPT !.late = l]
    BY <2>1
  <2>3. /\ d \in Call /\ d.op = c.op
        /\ c.op = "poll" => d.req = c.req
        /\ c.op # "poll" => d.cred = c.cred
        /\ c.op = "batch" => d.batch = c.batch
    BY <2>1, <2>2, LateFacts
  <2> QED
    BY <2>3
<1> QED
  BY <1>1 DEF Alike, Abandoned

LEMMA HandledFacts ==
    ASSUME TypeOK, NEW c \in calls, NEW status \in {"ok", "unauthorized", "refused"},
           NEW cred \in Credential \cup {None}, Handled(c, status, cred)
    PROVE  /\ calls' \subseteq calls /\ calls' \subseteq Call /\ agent' = agent
           /\ \/ reply' = reply
              \/ /\ reply' = [to |-> c, status |-> status, cred |-> cred]
                 /\ reply' \in Reply /\ reply'.to = c /\ reply'.status = status
                 /\ reply'.cred = cred /\ agent.waiting = c
           /\ reply' \in Reply \cup {None}
<1>1. c \in Call
  BY DEF TypeOK
<1>2. [to |-> c, status |-> status, cred |-> cred] \in Reply
  BY <1>1 DEF Reply
<1> QED
  BY <1>2 DEF Handled, TypeOK

----------------------------------------------------------------------------
(* The key, the requests and the agent *)

LEMMA KeyFacts ==
    ASSUME NEW k \in Key
    PROVE  /\ k.secret \in Credential /\ k.secret \in Nat
           /\ k.pending \in Credential \cup {None}
           /\ k.pending # None => k.pending \in Nat
           /\ k.live \in BOOLEAN /\ k.revoked \in BOOLEAN /\ k.seen \in BOOLEAN
           /\ k.last \in Nat /\ k.batch \in Sample \cup {None} /\ k # None
  BY NoneAssumption, BoundsAssumption DEF Key, Credential

\* Agents keep asking in the order of their requests.
LEMMA AgentFacts ==
    ASSUME TypeOK
    PROVE  /\ agent.req \in RequestId \cup {0} /\ agent.req \in Nat
           /\ agent.held \in Credential \cup {None}
           /\ agent.held # None => agent.held \in Nat
           /\ agent.next \in Credential \cup {None}
           /\ agent.next # None => agent.next \in Nat
           /\ agent.acked \in 0..MaxSample /\ agent.acked \in Nat
           /\ agent.aged \in BOOLEAN /\ agent.waiting \in Call \cup {None}
           /\ issued \in Nat /\ calls \subseteq Call
  BY BoundsAssumption DEF TypeOK, Agent, Credential, RequestId

LEMMA ReplyFacts ==
    ASSUME NEW r \in Reply
    PROVE  /\ r.to \in Call /\ r.status \in {"ok", "unauthorized", "refused"}
           /\ r.cred \in Credential \cup {None} /\ (r.cred # None => r.cred \in Nat)
  BY BoundsAssumption DEF Reply, Credential

\* What happens to the tables of requests: their state may change, but no
\* request comes, goes, or is consumed.
RequestsKept ==
    /\ requests' \in [RequestId -> Request \cup {None}]
    /\ \A j \in RequestId :
          /\ requests'[j] = None <=> requests[j] = None
          /\ requests'[j] = "consumed" <=> requests[j] = "consumed"

LEMMA RequestFacts ==
    ASSUME TypeOK, NEW i \in RequestId
    PROVE  /\ Decide(i) => RequestsKept
           /\ UNCHANGED requests => RequestsKept
  BY NoneAssumption DEF TypeOK, Decide, RequestsKept, Request

\* The key changes only in that it may be revoked or its replacement expire.
KeyWeaker ==
    \/ key' = key
    \/ /\ key \in Key /\ key' \in Key
       /\ key'.secret = key.secret /\ key'.pending = key.pending
       /\ key'.last = key.last /\ key'.seen = key.seen /\ key'.batch = key.batch
       /\ key'.live => key.live
       /\ key.revoked => key'.revoked

\* A step in which the server gives nothing away: no credential is issued and
\* nothing is stored, and an answer is of one of these kinds.
Minor ==
    /\ RequestsKept /\ KeyWeaker
    /\ UNCHANGED <<stored, issued, agent, crossed>>
    /\ connection' \in {None, "active", "revoked"}
    /\ connection' = "active" => connection = "active"
    /\ calls' \subseteq calls /\ rate' \in 0..RateLimit
    /\ reply' \in Reply \cup {None}
    /\ \/ reply' = reply
       \/ /\ reply' \in Reply /\ agent.waiting \in calls
          /\ reply'.to = agent.waiting /\ reply'.cred = None
          /\ reply'.to.op \in {"poll", "rotate"} => reply'.status # "ok"
          /\ reply'.to.op = "batch" /\ reply'.status = "ok" =>
                /\ key # None /\ key.batch = reply'.to.batch /\ ~key.revoked
                /\ reply'.to.cred \in {key.secret, unpromoted'}
          /\ reply'.to.op = "batch" /\ reply'.status = "unauthorized" =>
                key = None \/ ~Alive(reply'.to.cred)
    /\ \/ unpromoted' = unpromoted
       \/ /\ reply' \in Reply /\ agent.waiting \in calls /\ reply'.to = agent.waiting
          /\ agent.waiting.op = "batch" /\ unpromoted' = agent.waiting.cred
          /\ key # None /\ key.pending = unpromoted' /\ key.live

LEMMA AcceptedFacts ==
    ASSUME NEW c, key # None
    PROVE  (IsActive(c) \/ IsPending(c)) <=> Alive(c.cred)
  BY DEF IsActive, IsPending, Alive

LEMMA KeyRevoked ==
    ASSUME key \in Key
    PROVE  /\ key' = [key EXCEPT !.revoked = TRUE] => KeyWeaker
           /\ key.live /\ key' = [key EXCEPT !.live = FALSE] => KeyWeaker
<1>1. CASE key' = [key EXCEPT !.revoked = TRUE]
  BY <1>1 DEF Key, KeyWeaker
<1>2. CASE key' = [key EXCEPT !.live = FALSE]
  BY <1>2 DEF Key, KeyWeaker
<1> QED
  BY <1>1, <1>2

LEMMA MinorFacts ==
    ASSUME TypeOK, TableInv,
           \/ \E i \in RequestId : Decide(i)
           \/ Revoke \/ ExpirePending \/ NewMinute
           \/ \E c \in calls :
                 \/ CallLost(c) \/ PollRefused(c) \/ Unpair(c)
                 \/ CredentialRejected(c) \/ BatchReplayed(c)
                 \/ BatchUnauthorized(c) \/ BatchRefused(c)
    PROVE  Minor
<1>0. /\ reply \in Reply \cup {None} /\ rate \in 0..RateLimit
      /\ connection \in {None, "active", "revoked"} /\ key \in Key \cup {None}
      /\ requests \in [RequestId -> Request \cup {None}]
      /\ UNCHANGED requests => RequestsKept
      /\ UNCHANGED key => KeyWeaker
  BY DEF TypeOK, KeyWeaker, RequestsKept
<1>1. CASE \E i \in RequestId : Decide(i)
  BY <1>0, <1>1, RequestFacts DEF Minor, Decide, history
<1>2. CASE Revoke
  BY <1>0, <1>2, KeyRevoked DEF Minor, Revoke, TableInv, history
<1>3. CASE ExpirePending
  BY <1>0, <1>3, KeyRevoked DEF Minor, ExpirePending, history
<1>4. CASE NewMinute
  BY <1>0, <1>4, BoundsAssumption DEF Minor, NewMinute, history
<1>5. CASE \E c \in calls : CallLost(c)
  BY <1>0, <1>5 DEF Minor, CallLost, server, history
<1>6. ASSUME NEW c \in calls, NEW status \in {"ok", "unauthorized", "refused"},
             Handled(c, status, None),
             c.op \in {"poll", "rotate"} => status # "ok",
             c.op = "batch" => status # "ok",
             c.op = "batch" /\ status = "unauthorized" =>
                key = None \/ ~Alive(c.cred),
             UNCHANGED <<requests, stored, issued, history>>, KeyWeaker,
             rate' \in 0..RateLimit,
             connection' \in {None, "active", "revoked"},
             connection' = "active" => connection = "active"
      PROVE  Minor
  <2>1. /\ calls' \subseteq calls /\ agent' = agent /\ reply' \in Reply \cup {None}
        /\ \/ reply' = reply
           \/ /\ reply' \in Reply /\ reply'.to = c /\ reply'.status = status
              /\ reply'.cred = None /\ agent.waiting = c
    BY <1>6, HandledFacts
  <2> QED
    BY <1>0, <1>6, <2>1 DEF Minor, history
<1>7. ASSUME NEW c \in calls, PollRefused(c) PROVE Minor
  BY <1>0, <1>6, <1>7 DEF PollRefused, server, history
<1>8. ASSUME NEW c \in calls, Unpair(c) PROVE Minor
  <2>1. KeyWeaker
    BY <1>0, <1>8, KeyRevoked DEF Unpair, IsActive
  <2> QED
    BY <1>0, <1>6, <1>8, <2>1 DEF Unpair
<1>9. ASSUME NEW c \in calls, CredentialRejected(c) PROVE Minor
  BY <1>0, <1>6, <1>9 DEF CredentialRejected, server, history
<1>10. ASSUME NEW c \in calls, BatchReplayed(c) PROVE Minor
  <2>1. /\ key # None /\ ~key.revoked /\ key.batch = c.batch /\ c.op = "batch"
        /\ IsPending(c) => key.pending = c.cred /\ key.live
        /\ ~IsPending(c) => key.secret = c.cred
    BY <1>10 DEF BatchReplayed, IsActive, IsPending, Replayed
  <2>2. /\ UNCHANGED <<requests, connection, key, stored, rate, issued, crossed>>
        /\ unpromoted' = IF IsPending(c) /\ c = agent.waiting THEN c.cred
                         ELSE unpromoted
        /\ Handled(c, "ok", None)
    BY <1>10 DEF BatchReplayed, server
  <2>3. /\ calls' \subseteq calls /\ agent' = agent /\ reply' \in Reply \cup {None}
        /\ reply' = IF agent.waiting = c
                    THEN [to |-> c, status |-> "ok", cred |-> None] ELSE reply
    BY <2>2, HandledFacts DEF Handled
  <2>4. CASE agent.waiting = c
    <3>1. /\ reply' \in Reply /\ reply'.to = c /\ reply'.cred = None
      <4>1. c \in Call
        BY DEF TypeOK
      <4>2. [to |-> c, status |-> "ok", cred |-> None] \in Reply
        BY <4>1 DEF Reply
      <4>3. Handled(c, "ok", None) /\ reply' = [to |-> c, status |-> "ok", cred |-> None]
        BY <2>2, <2>3, <2>4
      <4> QED
        BY <4>2, <4>3
    <3> QED
      BY <1>0, <2>1, <2>2, <2>3, <2>4, <3>1 DEF Minor
  <2>5. CASE agent.waiting # c
    BY <1>0, <2>2, <2>3, <2>5 DEF Minor
  <2> QED
    BY <2>4, <2>5
<1>11. ASSUME NEW c \in calls, BatchUnauthorized(c) PROVE Minor
  <2>1. key = None \/ ~Alive(c.cred)
    BY <1>11, AcceptedFacts DEF BatchUnauthorized
  <2> QED
    BY <1>0, <1>6, <1>11, <2>1 DEF BatchUnauthorized, server, history
<1>12. ASSUME NEW c \in calls, BatchRefused(c) PROVE Minor
  <2>1. rate' \in 0..RateLimit
    BY <1>0, <1>12, BoundsAssumption DEF BatchRefused, WithinRate
  <2> QED
    BY <1>0, <1>6, <1>12, <2>1 DEF BatchRefused
<1> QED
  BY <1>1, <1>2, <1>3, <1>4, <1>5, <1>7, <1>8, <1>9, <1>10, <1>11, <1>12

\* A credential is issued: call c is answered with it.
Issues(c) ==
    /\ issued + 1 \in Credential /\ issued' = issued + 1
    /\ calls' \subseteq calls /\ agent' = agent /\ rate' = rate
    /\ reply' \in Reply \cup {None}
    /\ \/ reply' = reply
       \/ /\ reply' \in Reply /\ reply'.to = c /\ agent.waiting = c
          /\ reply'.status = "ok" /\ reply'.cred = issued + 1

LEMMA ApprovedFacts ==
    ASSUME TypeOK, TableInv, NEW c \in calls, PollApproved(c)
    PROVE  /\ c \in Call /\ c.op = "poll" /\ c.req \in RequestId
           /\ requests[c.req] # None /\ requests[c.req] = "approved"
           /\ requests' \in [RequestId -> Request \cup {None}]
           /\ requests'[c.req] # None /\ requests'[c.req] = "consumed"
           /\ \A j \in RequestId \ {c.req} : requests'[j] = requests[j]
           /\ stored' = <<>> /\ connection' = "active"
           /\ key' \in Key /\ key'.secret = issued + 1 /\ ~key'.revoked
           /\ key'.last = 0 /\ ~key'.seen
           /\ key = None => key'.pending = None /\ key'.batch = None
           /\ key # None => /\ key'.pending = key.pending /\ key'.live = key.live
                            /\ key'.batch = key.batch
           /\ crossed' = Superseded(c.req) /\ unpromoted' = unpromoted
           /\ Issues(c)
<1>1. c \in Call /\ c.op = "poll" /\ c.req \in RequestId /\ requests[c.req] # None
      /\ requests[c.req] = "approved" /\ issued + 1 \in Credential
  BY CallFacts, NoneAssumption DEF TypeOK, TableInv, PollApproved, NextCredential
<1>2. requests \in [RequestId -> Request \cup {None}]
      /\ key \in Key \cup {None}
  BY <1>1 DEF TypeOK
<1>3. Issues(c)
  <2>1. Handled(c, "ok", issued + 1) /\ issued' = issued + 1 /\ rate' = rate
    BY DEF PollApproved, NextCredential
  <2> QED
    BY <1>1, <2>1, HandledFacts DEF Issues
<1>5. /\ requests' \in [RequestId -> Request \cup {None}]
      /\ requests'[c.req] # None /\ requests'[c.req] = "consumed"
      /\ \A j \in RequestId \ {c.req} : requests'[j] = requests[j]
  BY <1>1, <1>2, NoneAssumption DEF PollApproved, Request
<1>6. /\ key' \in Key /\ key'.secret = issued + 1 /\ ~key'.revoked
      /\ key'.last = 0 /\ ~key'.seen
      /\ key = None => key'.pending = None /\ key'.batch = None
      /\ key # None => /\ key'.pending = key.pending /\ key'.live = key.live
                       /\ key'.batch = key.batch
  <2>1. CASE key = None
    BY <1>1, <2>1 DEF PollApproved, PairedKey, NextCredential, Key
  <2>2. CASE key # None
    <3>1. key \in Key /\ key' = [key EXCEPT !.secret = issued + 1, !.revoked = FALSE,
                                            !.last = 0, !.seen = FALSE]
      BY <1>2, <2>2 DEF PollApproved, PairedKey, NextCredential
    <3> QED
      BY <1>1, <2>2, <3>1 DEF Key
  <2> QED
    BY <2>1, <2>2
<1> QED
  BY <1>1, <1>3, <1>5, <1>6 DEF PollApproved

LEMMA ConsumedFacts ==
    ASSUME TypeOK, NEW c \in calls, PollConsumed(c)
    PROVE  /\ c \in Call /\ c.op = "poll" /\ c.req \in RequestId
           /\ requests[c.req] = "consumed"
           /\ UNCHANGED <<requests, connection, stored>>
           /\ key \in Key /\ key' \in Key /\ ~key.seen /\ key.last = 0
           /\ key'.secret = issued + 1 /\ key'.pending = key.pending
           /\ key'.live = key.live /\ key'.revoked = key.revoked
           /\ key'.last = 0 /\ ~key'.seen /\ key'.batch = key.batch
           /\ crossed' = (crossed \/ Superseded(c.req)) /\ unpromoted' = unpromoted
           /\ Issues(c)
<1>1. /\ c \in Call /\ c.op = "poll" /\ c.req \in RequestId
      /\ issued + 1 \in Credential /\ key \in Key
  BY CallFacts DEF TypeOK, PollConsumed, NextCredential
<1>2. Issues(c)
  <2>1. Handled(c, "ok", issued + 1) /\ issued' = issued + 1 /\ rate' = rate
    BY DEF PollConsumed, NextCredential
  <2> QED
    BY <1>1, <2>1, HandledFacts DEF Issues
<1>3. key' = [key EXCEPT !.secret = issued + 1, !.last = 0, !.seen = FALSE]
      /\ ~key.seen /\ key.last = 0
  BY DEF PollConsumed, NextCredential, Unused
<1>4. /\ key' \in Key /\ key'.secret = issued + 1 /\ key'.pending = key.pending
      /\ key'.live = key.live /\ key'.revoked = key.revoked
      /\ key'.last = 0 /\ ~key'.seen /\ key'.batch = key.batch
  BY <1>1, <1>3 DEF Key
<1> QED
  BY <1>1, <1>2, <1>3, <1>4 DEF PollConsumed

LEMMA RotateFacts ==
    ASSUME TypeOK, NEW c \in calls, Rotate(c)
    PROVE  /\ c \in Call /\ c.op = "rotate" /\ c.cred = key.secret /\ ~key.revoked
           /\ UNCHANGED <<requests, connection, stored>>
           /\ key \in Key /\ key' \in Key
           /\ key'.secret = key.secret /\ key'.pending = issued + 1
           /\ key'.live /\ key'.revoked = key.revoked
           /\ key'.last = key.last /\ key'.seen = key.seen /\ key'.batch = key.batch
           /\ UNCHANGED <<crossed, unpromoted>>
           /\ Issues(c)
<1>1. /\ c \in Call /\ c.op = "rotate" /\ issued + 1 \in Credential /\ key \in Key
  BY DEF TypeOK, Rotate, NextCredential, IsActive
<1>2. Issues(c)
  <2>1. Handled(c, "ok", issued + 1) /\ issued' = issued + 1 /\ rate' = rate
    BY DEF Rotate, NextCredential
  <2> QED
    BY <1>1, <2>1, HandledFacts DEF Issues
<1>3. key' = [key EXCEPT !.pending = issued + 1, !.live = TRUE]
  BY DEF Rotate, RotatedKey, NextCredential
<1>4. /\ key' \in Key /\ key'.secret = key.secret /\ key'.pending = issued + 1
      /\ key'.live /\ key'.revoked = key.revoked
      /\ key'.last = key.last /\ key'.seen = key.seen /\ key'.batch = key.batch
  BY <1>1, <1>3 DEF Key
<1> QED
  BY <1>1, <1>2, <1>4 DEF Rotate, IsActive, history

LEMMA StoredFacts ==
    ASSUME TypeOK, NEW c \in calls, BatchStored(c)
    PROVE  /\ c \in Call /\ c.op = "batch" /\ key \in Key /\ key' \in Key
           /\ c.batch[2] = key.last + 1 /\ Alive(c.cred) /\ ~key.revoked
           /\ UNCHANGED <<requests, connection, issued, agent>>
           /\ stored' = Append(stored, c.batch) /\ rate' \in 0..RateLimit
           /\ key'.last = key.last + 1 /\ key'.seen /\ key'.batch = c.batch
           /\ ~key'.revoked
           /\ \/ /\ c.cred = key.secret /\ key'.secret = key.secret
                 /\ key'.pending = key.pending /\ key'.live = key.live
              \/ /\ c.cred = key.pending /\ key.live
                 /\ key'.secret = c.cred /\ key'.pending = None /\ ~key'.live
           /\ crossed' = (crossed \/ Superseded(c.batch[1]))
           /\ unpromoted' = IF unpromoted = c.cred THEN None ELSE unpromoted
           /\ calls' \subseteq calls /\ reply' \in Reply \cup {None}
           /\ \/ reply' = reply
              \/ /\ reply' \in Reply /\ reply'.to = c /\ agent.waiting = c
                 /\ reply'.status \in {"ok", "refused"} /\ reply'.cred = None
<1>1. c \in Call /\ c.op = "batch" /\ key \in Key /\ c.batch \in Sample
      /\ c.cred \in Credential /\ key.last + 1 \in Nat
  BY CallFacts DEF TypeOK, BatchStored, IsActive, IsPending, Key
<1>2. /\ calls' \subseteq calls /\ reply' \in Reply \cup {None} /\ agent' = agent
      /\ \/ reply' = reply
         \/ /\ reply' \in Reply /\ reply'.to = c /\ agent.waiting = c
            /\ reply'.status \in {"ok", "refused"} /\ reply'.cred = None
  <2> PICK status \in {"ok", "refused"} : Handled(c, status, None)
    BY DEF BatchStored
  <2> QED
    BY HandledFacts
<1>3. rate' \in 0..RateLimit
  BY BoundsAssumption DEF BatchStored, WithinRate, TypeOK
<1>4. c.batch[2] = key.last + 1
  BY DEF BatchStored, Contiguous, Sequence
<1> DEFINE k == [key EXCEPT !.last = c.batch[2], !.seen = TRUE, !.batch = c.batch]
<1>5. /\ k \in Key /\ k.last = key.last + 1 /\ k.seen /\ k.batch = c.batch
      /\ k.secret = key.secret /\ k.pending = key.pending /\ k.live = key.live
      /\ k.revoked = key.revoked
  BY <1>1, <1>4 DEF Key
<1>6. key' = IF IsPending(c)
             THEN [k EXCEPT !.secret = c.cred, !.pending = None, !.live = FALSE] ELSE k
  BY DEF BatchStored, StoredKey, Sequence
<1>7. ~key.revoked /\ (IsActive(c) \/ IsPending(c))
  BY DEF BatchStored, IsActive, IsPending
<1> HIDE DEF k
<1>8. /\ key' \in Key /\ key'.last = key.last + 1 /\ key'.seen /\ key'.batch = c.batch
      /\ ~key'.revoked
      /\ \/ /\ c.cred = key.secret /\ key'.secret = key.secret
            /\ key'.pending = key.pending /\ key'.live = key.live
         \/ /\ c.cred = key.pending /\ key.live
            /\ key'.secret = c.cred /\ key'.pending = None /\ ~key'.live
  <2>1. CASE IsPending(c)
    <3>1. key' = [k EXCEPT !.secret = c.cred, !.pending = None, !.live = FALSE]
      BY <1>6, <2>1
    <3>2. /\ key' \in Key /\ key'.last = k.last /\ key'.seen = k.seen
          /\ key'.batch = k.batch /\ key'.revoked = k.revoked
          /\ key'.secret = c.cred /\ key'.pending = None /\ ~key'.live
      BY <1>1, <1>5, <3>1 DEF Key
    <3> QED
      BY <1>5, <1>7, <2>1, <3>2 DEF IsPending
  <2>2. CASE ~IsPending(c)
    BY <1>5, <1>6, <1>7, <2>2 DEF IsActive
  <2> QED
    BY <2>1, <2>2
<1> QED
  BY <1>1, <1>2, <1>3, <1>4, <1>7, <1>8, AcceptedFacts, KeyFacts DEF BatchStored

LEMMA UnpairedFacts ==
    ASSUME NEW i \in RequestId \cup {0}, NEW a,
           a = [Unpaired EXCEPT !.req = i] \/ (i = 0 /\ a = Unpaired)
    PROVE  /\ a \in Agent /\ a.req = i /\ a.held = None /\ a.next = None
           /\ a.acked = 0 /\ a.waiting = None
<1>1. 0 \in 0..MaxSample
  BY BoundsAssumption
<1>2. a = [req |-> i, held |-> None, next |-> None, acked |-> 0,
           aged |-> FALSE, waiting |-> None]
  BY DEF Unpaired
<1>3. a \in Agent
  <2>1. None \in Credential \cup {None} /\ None \in Call \cup {None} /\ FALSE \in BOOLEAN
    OBVIOUS
  <2>2. [req |-> i, held |-> None, next |-> None, acked |-> 0,
         aged |-> FALSE, waiting |-> None] \in Agent
    BY <1>1, <2>1, Zenon DEF Agent
  <2> QED
    BY <1>2, <2>2
<1> QED
  BY <1>2, <1>3

LEMMA CreateFacts ==
    ASSUME TypeOK, NEW i \in RequestId, Create(i)
    PROVE  /\ requests[i] = None /\ \A j \in 1..(i - 1) : requests[j] # None
           /\ crossed' = crossed /\ unpromoted' = None
           /\ requests' \in [RequestId -> Request \cup {None}]
           /\ requests'[i] # None /\ requests'[i] = "pending"
           /\ \A j \in RequestId \ {i} : requests'[j] = requests[j]
           /\ UNCHANGED <<connection, key, stored, rate, issued>>
           /\ agent' \in Agent /\ agent'.req = i
           /\ agent'.held = None /\ agent'.next = None /\ agent'.acked = 0
           /\ agent'.waiting = None
           /\ calls' \subseteq Call /\ Alike(calls', calls) /\ reply' = None
<1>1. requests \in [RequestId -> Request \cup {None}]
  BY DEF TypeOK
<1>3. /\ requests' \in [RequestId -> Request \cup {None}]
      /\ requests'[i] # None /\ requests'[i] = "pending"
      /\ \A j \in RequestId \ {i} : requests'[j] = requests[j]
  BY <1>1, NoneAssumption DEF Create, Request
<1>4. /\ agent' \in Agent /\ agent'.req = i
      /\ agent'.held = None /\ agent'.next = None /\ agent'.acked = 0
      /\ agent'.waiting = None
  BY UnpairedFacts DEF Create
<1> QED
  BY <1>3, <1>4, AbandonedFacts DEF Create

\* The agent makes a call: c is on its way, and it waits for the answer.
Makes(c) ==
    /\ UNCHANGED <<requests, connection, key, stored, rate, issued, crossed,
                   unpromoted>>
    /\ agent.waiting = None /\ reply = None /\ reply' = None
    /\ c \in Call /\ calls' = calls \cup {c}
    /\ agent' \in Agent /\ agent'.waiting = c
    /\ agent'.req = agent.req /\ agent'.held = agent.held
    /\ agent'.next = agent.next /\ agent'.acked = agent.acked

LEMMA CallsFacts ==
    ASSUME TypeOK, AgentInv,
           \/ AgentPolls \/ AgentRotates \/ AgentUnpairs
           \/ AgentSends(agent.held) \/ AgentSends(agent.next)
    PROVE  \E c : Makes(c) /\ Outstanding(c)
<1>0. agent \in Agent /\ agent.req \in RequestId \cup {0}
      /\ agent.held \in Credential \cup {None} /\ agent.next \in Credential \cup {None}
      /\ agent.acked \in 0..MaxSample
  BY AgentFacts DEF TypeOK
<1>2. ASSUME NEW c \in Call, CallServer(c), agent' = [agent EXCEPT !.waiting = c]
      PROVE  Makes(c)
  BY <1>0, <1>2 DEF CallServer, server, history, Agent, Makes
<1>3. CASE AgentPolls
  <2> PICK c : c = [op |-> "poll", req |-> agent.req, late |-> FALSE]
    OBVIOUS
  <2>1. c \in Call /\ c.op = "poll" /\ c.req = agent.req
    BY <1>0, <1>3 DEF AgentPolls, Call
  <2> QED
    BY <1>2, <1>3, <2>1 DEF AgentPolls, Outstanding
<1>4. CASE AgentRotates
  <2> PICK c : c = [op |-> "rotate", cred |-> agent.held, late |-> FALSE]
    OBVIOUS
  <2>1. c \in Call /\ c.op = "rotate" /\ c.cred = agent.held
    BY <1>0, <1>4 DEF AgentRotates, Call
  <2> QED
    BY <1>2, <1>4, <2>1 DEF AgentRotates, Outstanding
<1>5. CASE AgentUnpairs
  <2> PICK c : c = [op |-> "unpair", cred |-> agent.held, late |-> FALSE]
    OBVIOUS
  <2>1. c \in Call /\ c.op = "unpair" /\ c.cred = agent.held
    BY <1>0, <1>5 DEF AgentUnpairs, Call
  <2> QED
    BY <1>2, <1>5, <2>1 DEF AgentUnpairs, Outstanding
<1>6. ASSUME NEW x \in {agent.held, agent.next}, AgentSends(x)
      PROVE  \E c : Makes(c) /\ Outstanding(c)
  <2> PICK c : c = [op |-> "batch", cred |-> x, batch |-> Oldest, late |-> FALSE]
    OBVIOUS
  <2>0. x # None /\ agent.held # None /\ agent.req # 0 /\ agent.acked < MaxSample
    BY <1>6 DEF AgentSends, AgentInv
  <2>1. Oldest \in Sample
    <3>1. agent.acked + 1 \in 1..MaxSample
      BY <1>0, <2>0, BoundsAssumption
    <3> QED
      BY <1>0, <2>0, <3>1 DEF Sample, Oldest
  <2>2. x \in Credential
    BY <1>0, <2>0
  <2>3. c \in Call /\ c.op = "batch" /\ c.cred = x /\ c.batch = Oldest
    BY <2>1, <2>2 DEF Call
  <2>4. CallServer(c) /\ agent' = [agent EXCEPT !.waiting = c]
    BY <1>6 DEF AgentSends
  <2> QED
    BY <1>2, <2>0, <2>3, <2>4 DEF Outstanding
<1> QED
  BY <1>3, <1>4, <1>5, <1>6

\* What the agent knows stays, but for these of its fields.
KeepsAllBut(fields) ==
    /\ "req" \notin fields => agent'.req = agent.req
    /\ "held" \notin fields => agent'.held = agent.held
    /\ "next" \notin fields => agent'.next = agent.next
    /\ "acked" \notin fields => agent'.acked = agent.acked

\* The kinds of answers, and what the agent makes of them.
ToldCredential ==
    /\ reply.to.op = "poll" /\ reply.status = "ok"
    /\ agent'.held = reply.cred /\ KeepsAllBut({"held"})
ToldReplacement ==
    /\ reply.to.op = "rotate" /\ reply.status = "ok"
    /\ agent'.next = reply.cred /\ KeepsAllBut({"next"})
ToldUnpaired ==
    /\ reply.to.op = "unpair" /\ reply.status = "ok"
    /\ agent'.req = 0 /\ agent'.held = None /\ agent'.next = None
    /\ agent'.acked = 0
ToldStored ==
    /\ reply.to.op = "batch" /\ reply.status = "ok"
    /\ agent'.acked = agent.acked + 1
    /\ \/ /\ reply.to.cred = agent.next /\ agent'.held = agent.next
          /\ agent'.next = None /\ agent'.req = agent.req
       \/ /\ reply.to.cred # agent.next /\ KeepsAllBut({"acked"})
ToldOutdated ==
    /\ reply.to.op = "batch" /\ reply.status = "unauthorized"
    /\ reply.to.cred = agent.next
    /\ agent'.next = None /\ KeepsAllBut({"next"})

LEMMA ToldFacts ==
    ASSUME TypeOK, AgentInv, AgentIsTold
    PROVE  /\ UNCHANGED <<requests, connection, key, stored, rate, issued, calls,
                         crossed, unpromoted>>
           /\ reply \in Reply /\ reply' = None
           /\ reply.to = agent.waiting /\ agent.waiting \in Call
           /\ Outstanding(agent.waiting)
           /\ agent' \in Agent /\ agent'.waiting = None
           /\ \/ ToldCredential \/ ToldReplacement \/ ToldUnpaired
              \/ ToldStored \/ ToldOutdated \/ KeepsAllBut({})
<1> USE DEF KeepsAllBut
<1>1. /\ reply \in Reply /\ reply.to = agent.waiting /\ agent.waiting \in Call
      /\ Outstanding(agent.waiting) /\ agent' = Told(reply)
      /\ UNCHANGED <<requests, connection, key, stored, rate, issued, calls, crossed,
                     unpromoted>>
      /\ reply' = None
  BY DEF AgentIsTold, AgentInv, TypeOK, Agent, server, history
<1>2. reply.cred \in Credential \cup {None} /\ agent \in Agent
      /\ reply.status \in {"ok", "unauthorized", "refused"}
      /\ reply.to.op \in {"poll", "rotate", "unpair", "batch"}
  BY <1>1, ReplyFacts, CallFacts DEF TypeOK
<1> DEFINE a == [agent EXCEPT !.waiting = None]
<1>3. /\ a \in Agent /\ a.waiting = None /\ a.req = agent.req /\ a.held = agent.held
      /\ a.next = agent.next /\ a.acked = agent.acked
      /\ agent.next \in Credential \cup {None}
  BY <1>2 DEF Agent
<1>4. CASE reply.to.op = "poll" /\ reply.status = "ok"
  <2>1. agent' = [a EXCEPT !.held = reply.cred]
    BY <1>1, <1>4 DEF Told
  <2> HIDE DEF a
  <2>2. /\ agent' \in Agent /\ agent'.waiting = None /\ agent'.held = reply.cred
        /\ agent'.req = a.req /\ agent'.next = a.next /\ agent'.acked = a.acked
    BY <1>2, <1>3, <2>1 DEF Agent
  <2> QED
    BY <1>1, <1>3, <1>4, <2>2 DEF ToldCredential
<1>5. CASE reply.to.op = "rotate" /\ reply.status = "ok"
  <2>1. agent' = [a EXCEPT !.next = reply.cred]
    BY <1>1, <1>5 DEF Told
  <2> HIDE DEF a
  <2>2. /\ agent' \in Agent /\ agent'.waiting = None /\ agent'.next = reply.cred
        /\ agent'.req = a.req /\ agent'.held = a.held /\ agent'.acked = a.acked
    BY <1>2, <1>3, <2>1 DEF Agent
  <2> QED
    BY <1>1, <1>3, <1>5, <2>2 DEF ToldReplacement
<1>6. CASE reply.to.op = "unpair" /\ reply.status = "ok"
  <2>1. agent' = Unpaired
    BY <1>1, <1>6 DEF Told
  <2> QED
    BY <1>1, <1>6, <2>1, UnpairedFacts DEF ToldUnpaired
<1>7. CASE reply.to.op = "batch" /\ reply.status = "ok"
  <2> DEFINE acknowledged == [a EXCEPT !.acked = a.acked + 1, !.aged = FALSE]
  <2>1. agent' = IF reply.to.cred = agent.next
                 THEN [acknowledged EXCEPT !.held = agent.next, !.next = None]
                 ELSE acknowledged
    BY <1>1, <1>3, <1>7 DEF Told
  <2>2. a.acked + 1 \in 0..MaxSample
    <3>1. /\ agent.waiting.batch = <<agent.req, agent.acked + 1>>
          /\ agent.waiting.batch[2] \in 1..MaxSample
      BY <1>1, <1>7, CallFacts DEF Outstanding, Oldest
    <3> QED
      BY <1>3, <3>1
  <2> HIDE DEF a
  <2>3. /\ acknowledged \in Agent /\ acknowledged.waiting = None
        /\ acknowledged.acked = a.acked + 1
        /\ acknowledged.req = a.req /\ acknowledged.held = a.held
        /\ acknowledged.next = a.next
    BY <1>3, <2>2 DEF Agent
  <2> HIDE DEF acknowledged
  <2>4. CASE reply.to.cred = agent.next
    <3>1. /\ agent' \in Agent /\ agent'.waiting = None /\ agent'.held = agent.next
          /\ agent'.next = None /\ agent'.acked = acknowledged.acked
          /\ agent'.req = acknowledged.req
      BY <1>3, <2>1, <2>3, <2>4 DEF Agent
    <3> QED
      BY <1>1, <1>3, <1>7, <2>3, <2>4, <3>1 DEF ToldStored
  <2>5. CASE reply.to.cred # agent.next
    BY <1>1, <1>3, <1>7, <2>1, <2>3, <2>5 DEF ToldStored
  <2> QED
    BY <2>4, <2>5
<1>8. CASE reply.to.op = "batch" /\ reply.status = "unauthorized"
           /\ reply.to.cred = agent.next
  <2>1. agent' = [a EXCEPT !.next = None]
    BY <1>1, <1>3, <1>8 DEF Told
  <2> HIDE DEF a
  <2>2. /\ agent' \in Agent /\ agent'.waiting = None /\ agent'.next = None
        /\ agent'.req = a.req /\ agent'.held = a.held /\ agent'.acked = a.acked
    BY <1>3, <2>1 DEF Agent
  <2> QED
    BY <1>1, <1>3, <1>8, <2>2 DEF ToldOutdated
<1>9. CASE ~(reply.status = "ok" \/ (/\ reply.to.op = "batch"
                                     /\ reply.status = "unauthorized"
                                     /\ reply.to.cred = agent.next))
  <2>1. agent' = a
    BY <1>1, <1>2, <1>3, <1>9 DEF Told
  <2> QED
    BY <1>1, <1>3, <2>1
<1> QED
  BY <1>2, <1>4, <1>5, <1>6, <1>7, <1>8, <1>9

LEMMA GivesUpFacts ==
    ASSUME TypeOK, AgentGivesUp
    PROVE  /\ UNCHANGED <<requests, connection, key, stored, rate, issued, crossed,
                         unpromoted>>
           /\ agent' \in Agent /\ agent'.waiting = None /\ KeepsAllBut({})
           /\ calls' \subseteq Call /\ Alike(calls', calls) /\ reply' = None
<1>1. agent \in Agent /\ agent' = [agent EXCEPT !.waiting = None]
  BY DEF TypeOK, AgentGivesUp
<1>2. agent' \in Agent /\ agent'.waiting = None /\ KeepsAllBut({})
  BY <1>1 DEF Agent, KeepsAllBut
<1> QED
  BY <1>2, AbandonedFacts DEF AgentGivesUp, server, history

LEMMA AgesFacts ==
    ASSUME TypeOK, SampleAges
    PROVE  /\ UNCHANGED <<requests, connection, key, stored, rate, issued, calls, reply,
                         crossed, unpromoted>>
           /\ agent' \in Agent /\ agent'.waiting = agent.waiting /\ KeepsAllBut({})
  BY DEF TypeOK, SampleAges, Agent, KeepsAllBut, server, history

----------------------------------------------------------------------------
(* Types, and what the agent waits for *)

LEMMA StepCases ==
    ASSUME TypeOK, TableInv, AgentInv, [Next]_vars
    PROVE  \/ Minor
           \/ \E i \in RequestId : Create(i)
           \/ \E c \in calls : \/ PollApproved(c) \/ PollConsumed(c)
                               \/ Rotate(c) \/ BatchStored(c)
           \/ \E c : Makes(c) /\ Outstanding(c)
           \/ AgentIsTold \/ AgentGivesUp \/ SampleAges
<1>1. CASE UNCHANGED vars
  BY <1>1 DEF vars, server, history, Minor, KeyWeaker, RequestsKept, TypeOK
<1>2. CASE Next
  BY <1>2, MinorFacts, CallsFacts DEF Next, Handle
<1> QED
  BY <1>1, <1>2

LEMMA InitType == Init => TypeOK /\ TableInv /\ AgentInv
<1> SUFFICES ASSUME Init PROVE TypeOK /\ TableInv /\ AgentInv
  OBVIOUS
<1>1. /\ agent \in Agent /\ agent.req = 0 /\ agent.held = None /\ agent.next = None
      /\ agent.acked = 0 /\ agent.waiting = None
  BY UnpairedFacts DEF Init
<1>2. requests \in [RequestId -> Request \cup {None}] /\ stored \in Seq(Sample)
      /\ rate \in 0..RateLimit /\ issued \in 0..MaxCredential
  BY BoundsAssumption DEF Init
<1>3. TypeOK
  <2>1. crossed \in BOOLEAN /\ unpromoted \in Credential \cup {None}
    BY DEF Init
  <2> QED
    BY <1>1, <1>2, <2>1 DEF Init, TypeOK
<1>4. TableInv /\ AgentInv
  BY <1>1, NoneAssumption DEF Init, TableInv, AgentInv
<1> QED
  BY <1>3, <1>4

LEMMA TypeStep ==
    TypeOK /\ TableInv /\ AgentInv /\ [Next]_vars => TypeOK'
<1> SUFFICES ASSUME TypeOK, TableInv, AgentInv, [Next]_vars PROVE TypeOK'
  OBVIOUS
<1>0. /\ requests \in [RequestId -> Request \cup {None}]
      /\ connection \in {None, "active", "revoked"} /\ key \in Key \cup {None}
      /\ stored \in Seq(Sample) /\ rate \in 0..RateLimit /\ issued \in 0..MaxCredential
      /\ agent \in Agent /\ calls \subseteq Call /\ reply \in Reply \cup {None}
      /\ crossed \in BOOLEAN /\ unpromoted \in Credential \cup {None}
  BY DEF TypeOK
<1>1. CASE Minor
  <2>1. agent.waiting \in calls /\ agent.waiting.op = "batch" =>
            agent.waiting.cred \in Credential
    BY <1>0, CallFacts
  <2>2. unpromoted' \in Credential \cup {None}
    BY <1>0, <1>1, <2>1 DEF Minor
  <2> QED
    BY <1>0, <1>1, <2>2 DEF Minor, RequestsKept, KeyWeaker, TypeOK
<1>2. ASSUME NEW i \in RequestId, Create(i) PROVE TypeOK'
  BY <1>0, <1>2, CreateFacts DEF TypeOK
<1>3. ASSUME NEW c \in calls, PollApproved(c) \/ PollConsumed(c) \/ Rotate(c) PROVE TypeOK'
  <2>1. CASE Issues(c)
    <3>1. issued' \in 0..MaxCredential
      BY <2>1, BoundsAssumption DEF Issues, Credential
    <3>2. /\ requests' \in [RequestId -> Request \cup {None}] /\ key' \in Key
          /\ connection' \in {None, "active", "revoked"} /\ stored' \in Seq(Sample)
      <4>1. CASE PollApproved(c)
        <5>1. <<>> \in Seq(Sample)
          OBVIOUS
        <5> QED
          BY <4>1, <5>1, ApprovedFacts
      <4>2. CASE PollConsumed(c) \/ Rotate(c)
        BY <1>0, <4>2, ConsumedFacts, RotateFacts
      <4> QED
        BY <1>3, <4>1, <4>2
    <3>3. crossed' \in BOOLEAN /\ unpromoted' = unpromoted
      BY <1>0, <1>3, ApprovedFacts, ConsumedFacts, RotateFacts DEF Superseded
    <3> QED
      BY <1>0, <2>1, <3>1, <3>2, <3>3 DEF TypeOK, Issues
  <2> QED
    BY <1>3, <2>1, ApprovedFacts, ConsumedFacts, RotateFacts
<1>4. ASSUME NEW c \in calls, BatchStored(c) PROVE TypeOK'
  <2>1. c.batch \in Sample
    BY <1>0, <1>4, StoredFacts, CallFacts
  <2>2. stored' \in Seq(Sample)
    BY <1>0, <1>4, <2>1, StoredFacts
  <2>3. crossed' \in BOOLEAN /\ unpromoted' \in Credential \cup {None}
    BY <1>0, <1>4, StoredFacts DEF Superseded
  <2> QED
    BY <1>0, <1>4, <2>2, <2>3, StoredFacts DEF TypeOK
<1>6. ASSUME NEW c, Makes(c) PROVE TypeOK'
  BY <1>0, <1>6 DEF Makes, TypeOK
<1>7. CASE AgentIsTold
  BY <1>0, <1>7, ToldFacts DEF TypeOK
<1>8. CASE AgentGivesUp
  BY <1>0, <1>8, GivesUpFacts DEF TypeOK
<1>9. CASE SampleAges
  BY <1>0, <1>9, AgesFacts DEF TypeOK
<1> QED
  BY <1>1, <1>2, <1>3, <1>4, <1>6, <1>7, <1>8, <1>9, StepCases

\* What holds of the calls on their way holds of them when they are late.
LEMMA TableStep ==
    TypeOK /\ TableInv /\ AgentInv /\ [Next]_vars => TableInv'
<1> SUFFICES ASSUME TypeOK, TableInv, AgentInv, [Next]_vars PROVE TableInv'
  OBVIOUS
<1>0. /\ calls \subseteq Call /\ agent.req \in RequestId \cup {0}
      /\ agent.req # 0 => requests[agent.req] # None
      /\ \A c \in calls : c.op = "poll" => c.req \in RequestId /\ requests[c.req] # None
  BY AgentFacts, CallFacts DEF TableInv
<1>1. CASE Minor
  <2>1. connection' = "active" => key' # None
    BY <1>1, KeyFacts DEF Minor, KeyWeaker, TableInv
  <2> QED
    BY <1>0, <1>1, <2>1 DEF Minor, RequestsKept, TableInv
<1>2. ASSUME NEW i \in RequestId, Create(i) PROVE TableInv'
  <2>1. \A j \in RequestId : requests[j] # None => requests'[j] # None
    BY <1>2, CreateFacts
  <2>2. \A d \in calls' : d.op = "poll" => requests'[d.req] # None
    BY <1>0, <1>2, <2>1, CreateFacts DEF Alike
  <2> QED
    BY <1>2, <2>2, CreateFacts DEF TableInv
<1>3. ASSUME NEW c \in calls, PollApproved(c) PROVE TableInv'
  <2>1. key' # None
    BY <1>3, ApprovedFacts, KeyFacts
  <2>2. \A j \in RequestId : requests[j] # None => requests'[j] # None
    BY <1>3, ApprovedFacts
  <2> QED
    BY <1>0, <1>3, <2>1, <2>2, ApprovedFacts DEF TableInv, Issues
<1>4. ASSUME NEW c \in calls, PollConsumed(c) \/ Rotate(c) \/ BatchStored(c)
      PROVE  TableInv'
  <2>1. /\ key' \in Key /\ UNCHANGED <<requests, connection, agent>>
        /\ calls' \subseteq calls
    BY <1>4, ConsumedFacts, RotateFacts, StoredFacts DEF Issues
  <2> QED
    BY <2>1, KeyFacts DEF TableInv
<1>6. ASSUME NEW c, Makes(c), Outstanding(c) PROVE TableInv'
  BY <1>0, <1>6 DEF Makes, Outstanding, TableInv
<1>7. CASE AgentIsTold
  <2>1. agent'.req = agent.req \/ agent'.req = 0
    BY <1>7, ToldFacts
    DEF ToldCredential, ToldReplacement, ToldUnpaired, ToldStored, ToldOutdated, KeepsAllBut
  <2> QED
    BY <1>7, <2>1, ToldFacts DEF TableInv
<1>8. CASE AgentGivesUp
  <2>1. \A d \in calls' : d.op = "poll" => requests'[d.req] # None
    BY <1>0, <1>8, GivesUpFacts DEF Alike
  <2> QED
    BY <1>8, <2>1, GivesUpFacts DEF TableInv, KeepsAllBut
<1>9. CASE SampleAges
  BY <1>9, AgesFacts DEF TableInv, KeepsAllBut
<1> QED
  BY <1>1, <1>2, <1>3, <1>4, <1>6, <1>7, <1>8, <1>9, StepCases

LEMMA AgentStep ==
    TypeOK /\ TableInv /\ AgentInv /\ [Next]_vars => AgentInv'
<1> SUFFICES ASSUME TypeOK, TableInv, AgentInv, [Next]_vars PROVE AgentInv'
  OBVIOUS
<1>0. \A c : Outstanding(c) /\ agent' = agent => Outstanding(c)'
  BY DEF Outstanding, Oldest
<1>1. ASSUME agent' = agent, reply' = reply \/ (reply' \in Reply /\ reply'.to = agent.waiting
                                               /\ agent.waiting \in calls)
      PROVE  AgentInv'
  <2>1. agent.waiting \in calls => agent.waiting # None
    BY NoneAssumption, AgentFacts
  <2> QED
    BY <1>0, <1>1, <2>1 DEF AgentInv, Outstanding
<1>2. CASE Minor
  BY <1>1, <1>2 DEF Minor
<1>3. ASSUME NEW i \in RequestId, Create(i) PROVE AgentInv'
  <2>1. i # 0
    BY BoundsAssumption DEF RequestId
  <2> QED
    BY <1>3, <2>1, CreateFacts DEF AgentInv
<1>4. ASSUME NEW c \in calls,
             PollApproved(c) \/ PollConsumed(c) \/ Rotate(c) \/ BatchStored(c)
      PROVE  AgentInv'
  BY <1>1, <1>4, ApprovedFacts, ConsumedFacts, RotateFacts, StoredFacts DEF Issues
<1>5. ASSUME NEW c, Makes(c), Outstanding(c) PROVE AgentInv'
  <2>1. Outstanding(c)'
    BY <1>5 DEF Makes, Outstanding, Oldest
  <2> QED
    BY <1>5, <2>1, NoneAssumption DEF Makes, AgentInv
<1>9. CASE AgentIsTold
  <2>0. reply.to.op = "batch" => reply.to.cred # None
    BY <1>9, ToldFacts, CallFacts, NoneAssumption
  <2>1. /\ agent'.held # None => agent'.req # 0
        /\ agent'.held = None => agent'.next = None /\ agent'.acked = 0
    BY <1>9, <2>0, ToldFacts
    DEF ToldCredential, ToldReplacement, ToldUnpaired, ToldStored, ToldOutdated,
        KeepsAllBut, AgentInv, Outstanding
  <2> QED
    BY <1>9, <2>1, ToldFacts DEF AgentInv
<1>10. CASE AgentGivesUp
  BY <1>10, GivesUpFacts DEF AgentInv, KeepsAllBut
<1>11. CASE SampleAges
  BY <1>11, AgesFacts DEF AgentInv, KeepsAllBut, Outstanding, Oldest
<1> QED
  BY <1>2, <1>3, <1>4, <1>5, <1>9, <1>10, <1>11, StepCases

----------------------------------------------------------------------------
(* Pairings *)

\* No request is consumed in the step.
ConsumedSame == \A g \in RequestId : Consumed(g)' <=> Consumed(g)

LEMMA SameFacts ==
    ASSUME ConsumedSame, NEW g \in RequestId
    PROVE  /\ Consumed(g)' <=> Consumed(g)
           /\ Superseded(g)' <=> Superseded(g)
           /\ Current(g)' <=> Current(g)
<1>1. \A h \in RequestId : requests'[h] = "consumed" <=> requests[h] = "consumed"
  BY DEF ConsumedSame, Consumed
<1> QED
  BY <1>1 DEF Consumed, Superseded, Current

LEMMA CurrentUnique ==
    ASSUME NEW g \in RequestId, NEW h \in RequestId, Current(g), Current(h)
    PROVE  g = h
<1>1. g \in Nat /\ h \in Nat
  BY BoundsAssumption DEF RequestId
<1>2. ~(g > h) /\ ~(h > g)
  BY DEF Current, Superseded, Consumed
<1> QED
  BY <1>1, <1>2

\* The agent's request is the newest.
LEMMA AgentCurrent ==
    ASSUME TypeOK, PairingInv, agent.req # 0, Consumed(agent.req)
    PROVE  agent.req \in RequestId /\ Current(agent.req)
<1>1. agent.req \in RequestId
  BY AgentFacts
<1>2. \A h \in RequestId : Consumed(h) => h <= agent.req
  BY NoneAssumption DEF PairingInv, Consumed, Request
<1>3. \A h \in RequestId : h \in Nat
  BY BoundsAssumption DEF RequestId
<1>4. ~Superseded(agent.req)
  BY <1>1, <1>2, <1>3 DEF Superseded, Consumed
<1> QED
  BY <1>1, <1>4 DEF Current

\* A poll that is approved and not superseded is of the agent's request, or of
\* one before it that the agent has not heard of; either way it has nothing.
LEMMA ApprovedFirst ==
    ASSUME TypeOK, TableInv, AgentInv, PairingInv, NEW c \in calls, PollApproved(c),
           ~crossed'
    PROVE  /\ agent.held = None
           /\ agent.req # 0 => ~Consumed(agent.req)
           /\ Current(c.req)'
<1>1. /\ c.req \in RequestId /\ requests[c.req] = "approved" /\ ~Superseded(c.req)
      /\ requests'[c.req] = "consumed"
      /\ \A j \in RequestId \ {c.req} : requests'[j] = requests[j]
  BY ApprovedFacts
<1>2. agent.req # 0 => ~Consumed(agent.req)
  <2> SUFFICES ASSUME agent.req # 0, Consumed(agent.req) PROVE FALSE
    OBVIOUS
  <2>1. agent.req \in RequestId /\ agent.req \in Nat /\ c.req \in Nat
    BY <1>1, AgentFacts, BoundsAssumption DEF RequestId
  <2>2. c.req <= agent.req
    BY <1>1, <2>1, NoneAssumption DEF PairingInv, Request
  <2>3. c.req # agent.req
    BY <1>1 DEF Consumed
  <2> QED
    BY <1>1, <2>1, <2>2, <2>3 DEF Superseded, Consumed
<1>3. agent.held = None
  BY <1>2 DEF PairingInv, AgentInv
<1>4. ~Superseded(c.req)'
  <2> SUFFICES ASSUME NEW h \in RequestId, h > c.req, requests'[h] = "consumed"
               PROVE  FALSE
    BY DEF Superseded
  <2>1. h # c.req
    BY <1>1, BoundsAssumption DEF RequestId
  <2> QED
    BY <1>1, <2>1 DEF Superseded
<1> QED
  BY <1>1, <1>2, <1>3, <1>4 DEF Current, Consumed

\* Which steps consume no request.
LEMMA StepSame ==
    ASSUME TypeOK, TableInv, AgentInv
    PROVE  /\ Minor => ConsumedSame
           /\ \A i \in RequestId : Create(i) => ConsumedSame
           /\ requests' = requests => ConsumedSame
<1>1. Minor => ConsumedSame
  BY DEF Minor, RequestsKept, ConsumedSame, Consumed
<1>2. ASSUME NEW i \in RequestId, Create(i) PROVE ConsumedSame
  BY <1>2, CreateFacts, NoneAssumption DEF ConsumedSame, Consumed, Request
<1>3. requests' = requests => ConsumedSame
  BY DEF ConsumedSame, Consumed
<1> QED
  BY <1>1, <1>2, <1>3

\* What the agent is told of leaves the pairing it is in or ends it.
LEMMA ToldMoves ==
    ASSUME TypeOK, AgentInv, PairingInv, AgentIsTold
    PROVE  /\ agent'.req = agent.req \/ (agent'.req = 0 /\ agent'.held = None)
           /\ agent'.held = None => agent'.req = 0 \/ agent.held = None
           /\ agent'.held # None => Consumed(agent'.req)
<1>1. reply.to.op = "batch" => reply.to.cred # None
  BY ToldFacts, CallFacts, NoneAssumption
<1>2. reply.to.op = "poll" /\ reply.status = "ok" => Consumed(agent.req) /\ reply.cred # None
  BY DEF PairingInv, AgentIsTold
<1>3. reply # None /\ Outstanding(reply.to)
  BY ToldFacts DEF AgentIsTold
<1> QED
  BY <1>1, <1>2, <1>3, ToldFacts
  DEF ToldCredential, ToldReplacement, ToldUnpaired, ToldStored, ToldOutdated,
      KeepsAllBut, PairingInv, Outstanding

LEMMA PairingStep ==
    ASSUME TypeOK, TableInv, AgentInv, PairingInv, [Next]_vars
    PROVE  PairingInv'
<1>0. /\ agent.req \in RequestId \cup {0} /\ calls \subseteq Call
      /\ \A c \in calls : c.op = "batch" => c.batch[1] \in RequestId
      /\ \A i \in RequestId : i \in Nat /\ i # 0
  BY AgentFacts, CallFacts, BoundsAssumption DEF RequestId
<1> DEFINE P1 == \A i, j \in RequestId : requests[i] # None /\ j < i => requests[j] # None
           P2 == agent.req # 0 => \A i \in RequestId : requests[i] # None => i <= agent.req
           P3 == agent.held # None => Consumed(agent.req)
           P4 == \A c \in calls : c.op = "batch" =>
                    Consumed(c.batch[1]) /\ (agent.held = None => c.batch[1] # agent.req)
           P5 == reply # None /\ reply.to.op = "poll" /\ reply.status = "ok" =>
                    Consumed(agent.req) /\ reply.cred # None
           P6 == (\E g \in RequestId : Consumed(g)) => key # None
<1>a. P1 /\ P2 /\ P3 /\ P4 /\ P5 /\ P6
  BY DEF PairingInv
<1>b. P1' /\ P2' /\ P3' /\ P4' /\ P5' /\ P6' => PairingInv'
  BY DEF PairingInv
<1>1. CASE Minor
  <2>1. /\ ConsumedSame /\ agent' = agent /\ calls' \subseteq calls
        /\ \A j \in RequestId : requests'[j] = None <=> requests[j] = None
        /\ key' = None <=> key = None
    BY <1>1, StepSame, KeyFacts DEF Minor, RequestsKept, KeyWeaker
  <2>2. P1' /\ P2'
    BY <1>a, <2>1
  <2>3. P3' /\ P4' /\ P6'
    BY <1>0, <1>a, <2>1 DEF ConsumedSame, AgentInv
  <2>4. P5'
    <3>1. CASE reply' = reply
      <4>1. reply # None /\ reply.to.op = "poll" => agent.req # 0
        BY DEF AgentInv, Outstanding
      <4> QED
        BY <1>0, <1>a, <2>1, <3>1, <4>1 DEF ConsumedSame
    <3>2. CASE reply' # reply
      BY <1>1, <3>2 DEF Minor
    <3> QED
      BY <3>1, <3>2
  <2> QED
    BY <1>b, <2>2, <2>3, <2>4
<1>2. ASSUME NEW i \in RequestId, Create(i) PROVE PairingInv'
  <2>1. /\ requests[i] = None /\ \A j \in 1..(i - 1) : requests[j] # None
        /\ requests'[i] # None /\ \A j \in RequestId \ {i} : requests'[j] = requests[j]
        /\ agent'.req = i /\ agent'.held = None /\ reply' = None /\ key' = key
        /\ Alike(calls', calls) /\ ConsumedSame
    BY <1>2, CreateFacts, StepSame
  <2>2. \A j \in RequestId : requests[j] # None => j < i
    BY <1>0, <1>a, <2>1
  <2>3. P1'
    <3> SUFFICES ASSUME NEW k \in RequestId, NEW j \in RequestId, requests'[k] # None, j < k
                 PROVE  requests'[j] # None
      OBVIOUS
    <3>1. CASE k = i
      <4>1. j \in 1..(i - 1)
        BY <1>0, <3>1 DEF RequestId
      <4> QED
        BY <2>1, <4>1
    <3>2. CASE k # i
      BY <1>a, <2>1, <3>2
    <3> QED
      BY <3>1, <3>2
  <2>4. P2'
    BY <1>0, <2>1, <2>2
  <2>5. P3' /\ P5' /\ P6'
    BY <1>a, <2>1 DEF ConsumedSame
  <2>6. P4'
    <3>1. \A d \in calls' : d.op = "batch" =>
              d.batch[1] \in RequestId /\ Consumed(d.batch[1])
      BY <1>0, <1>a, <2>1 DEF Alike
    <3>2. ~Consumed(i)
      BY <2>1, NoneAssumption DEF Consumed, Request
    <3> QED
      BY <2>1, <3>1, <3>2 DEF ConsumedSame
  <2> QED
    BY <1>b, <2>3, <2>4, <2>5, <2>6
<1>3. ASSUME NEW c \in calls, PollApproved(c) PROVE PairingInv'
  <2>1. /\ c.req \in RequestId /\ requests[c.req] # None /\ requests'[c.req] = "consumed"
        /\ requests'[c.req] # None /\ c.op = "poll"
        /\ \A j \in RequestId \ {c.req} : requests'[j] = requests[j]
        /\ key' # None /\ Issues(c)
    BY <1>3, ApprovedFacts, KeyFacts
  <2>2. \A g \in RequestId : Consumed(g) => Consumed(g)'
    BY <2>1 DEF Consumed
  <2>3. P1' /\ P2' /\ P6'
    BY <1>a, <2>1 DEF Issues
  <2>4. P3' /\ P4'
    BY <1>0, <1>a, <2>1, <2>2 DEF Issues, AgentInv
  <2>5. P5'
    <3>1. CASE reply' = reply
      <4>1. reply # None /\ reply.to.op = "poll" => agent.req # 0
        BY DEF AgentInv, Outstanding
      <4> QED
        BY <1>0, <1>a, <2>1, <2>2, <3>1, <4>1 DEF Issues
    <3>2. CASE reply' # reply
      <4>1. agent.waiting = c /\ reply'.cred = issued + 1 /\ agent' = agent
            /\ issued + 1 \in Credential
        BY <2>1, <3>2 DEF Issues
      <4>2. c # None
        BY NoneAssumption, <1>0
      <4>3. c.req = agent.req
        BY <2>1, <4>1, <4>2 DEF AgentInv, Outstanding
      <4>4. issued + 1 # None
        BY <4>1, NoneAssumption DEF Credential
      <4> QED
        BY <2>1, <4>1, <4>3, <4>4 DEF Consumed
    <3> QED
      BY <3>1, <3>2
  <2> QED
    BY <1>b, <2>3, <2>4, <2>5
<1>4. ASSUME NEW c \in calls, PollConsumed(c) \/ Rotate(c) \/ BatchStored(c)
      PROVE  PairingInv'
  <2>1. /\ requests' = requests /\ agent' = agent /\ calls' \subseteq calls /\ key' # None
        /\ reply' = reply \/ (reply' \in Reply /\ reply'.to = c /\ agent.waiting = c)
        /\ c.op = "poll" => Consumed(c.req)
        /\ reply' # reply /\ c.op = "poll" =>
              reply'.cred = issued + 1 /\ issued + 1 \in Credential
    BY <1>4, ConsumedFacts, RotateFacts, StoredFacts, KeyFacts DEF Issues, Consumed
  <2>2. P1' /\ P2' /\ P3' /\ P4' /\ P6'
    BY <1>a, <2>1 DEF Consumed
  <2>3. P5'
    <3>1. CASE reply' = reply
      BY <1>a, <2>1, <3>1 DEF Consumed
    <3>2. CASE reply' # reply
      <4>1. c # None
        BY NoneAssumption, <1>0
      <4>2. c.op = "poll" => c.req = agent.req
        BY <2>1, <3>2, <4>1 DEF AgentInv, Outstanding
      <4>3. issued + 1 \in Credential => issued + 1 # None
        BY NoneAssumption DEF Credential
      <4> QED
        BY <2>1, <3>2, <4>2, <4>3 DEF Consumed
    <3> QED
      BY <3>1, <3>2
  <2> QED
    BY <1>b, <2>2, <2>3
<1>5. ASSUME NEW c, Makes(c), Outstanding(c) PROVE PairingInv'
  <2>1. c.op = "batch" => c.batch[1] = agent.req /\ agent.held # None
    BY <1>5 DEF Outstanding, Oldest
  <2>2. /\ requests' = requests /\ agent'.req = agent.req /\ agent'.held = agent.held
        /\ calls' = calls \cup {c} /\ key' = key /\ reply' = None
    BY <1>5 DEF Makes
  <2>3. P1' /\ P2' /\ P3' /\ P5' /\ P6'
    BY <1>a, <2>2 DEF Consumed
  <2>4. P4'
    BY <1>a, <2>1, <2>2 DEF Consumed
  <2> QED
    BY <1>b, <2>3, <2>4
<1>6. CASE AgentIsTold
  <2>1. /\ requests' = requests /\ calls' = calls /\ key' = key /\ reply' = None
        /\ agent'.req = agent.req \/ (agent'.req = 0 /\ agent'.held = None)
        /\ agent'.held = None => agent'.req = 0 \/ agent.held = None
        /\ agent'.held # None => Consumed(agent'.req)
    BY <1>6, ToldFacts, ToldMoves
  <2>2. P1' /\ P2' /\ P5' /\ P6'
    BY <1>a, <2>1 DEF Consumed
  <2>3. P3'
    BY <2>1 DEF Consumed
  <2>4. P4'
    BY <1>0, <1>a, <2>1 DEF Consumed
  <2> QED
    BY <1>b, <2>2, <2>3, <2>4
<1>7. CASE AgentGivesUp
  <2>1. /\ requests' = requests /\ Alike(calls', calls) /\ key' = key /\ reply' = None
        /\ agent'.req = agent.req /\ agent'.held = agent.held
    BY <1>7, GivesUpFacts DEF KeepsAllBut
  <2>2. P1' /\ P2' /\ P3' /\ P5' /\ P6'
    BY <1>a, <2>1 DEF Consumed
  <2>3. P4'
    BY <1>a, <2>1 DEF Consumed, Alike
  <2> QED
    BY <1>b, <2>2, <2>3
<1>8. CASE SampleAges
  <2>1. /\ requests' = requests /\ calls' = calls /\ key' = key /\ reply' = reply
        /\ agent'.req = agent.req /\ agent'.held = agent.held
    BY <1>8, AgesFacts DEF KeepsAllBut
  <2>2. P1' /\ P2' /\ P3' /\ P4' /\ P5' /\ P6'
    BY <1>a, <2>1 DEF Consumed
  <2> QED
    BY <1>b, <2>2
<1> QED
  BY <1>1, <1>2, <1>3, <1>4, <1>5, <1>6, <1>7, <1>8, StepCases

----------------------------------------------------------------------------
(* What is stored *)

\* The agent's steps leave the server alone.
LEMMA AgentMoves ==
    ASSUME TypeOK, AgentInv,
           \/ \E c : Makes(c) /\ Outstanding(c)
           \/ AgentIsTold \/ AgentGivesUp \/ SampleAges
    PROVE  UNCHANGED <<requests, connection, key, stored, issued, crossed, unpromoted>>
  BY ToldFacts, GivesUpFacts, AgesFacts DEF Makes

LEMMA StoredStep ==
    ASSUME TypeOK, TableInv, AgentInv, PairingInv, StoredInv, [Next]_vars
    PROVE  StoredInv'
<1>0. key \in Key \cup {None} /\ stored \in Seq(Sample)
  BY DEF TypeOK
<1>1. ASSUME ConsumedSame, stored' = stored, ~crossed' => ~crossed,
             key' = key \/ (key \in Key /\ key'.last = key.last)
      PROVE  StoredInv'
  <2> SUFFICES ASSUME key' # None
               PROVE  /\ Len(stored') = key'.last
                      /\ \A n \in 1..key'.last : stored'[n][2] = n
                      /\ ~crossed' => \E g \in RequestId :
                            Current(g)' /\ \A n \in 1..key'.last : stored'[n] = <<g, n>>
    BY DEF StoredInv
  <2>1. key # None /\ key'.last = key.last
    BY <1>1, KeyFacts
  <2>2. /\ Len(stored) = key.last
        /\ \A n \in 1..key.last : stored[n][2] = n
        /\ ~crossed => \E g \in RequestId :
              Current(g) /\ \A n \in 1..key.last : stored[n] = <<g, n>>
    BY <2>1 DEF StoredInv
  <2>3. \A g \in RequestId : Current(g)' <=> Current(g)
    BY <1>1, SameFacts
  <2> QED
    BY <1>1, <2>1, <2>2, <2>3
<1>2. CASE Minor
  BY <1>1, <1>2, StepSame DEF Minor, KeyWeaker
<1>3. ASSUME NEW i \in RequestId, Create(i) PROVE StoredInv'
  BY <1>1, <1>3, CreateFacts, StepSame
<1>4. ASSUME NEW c \in calls, PollApproved(c) PROVE StoredInv'
  <2>1. stored' = <<>> /\ key'.last = 0 /\ c.req \in RequestId
    BY <1>4, ApprovedFacts
  <2>2. ~crossed' => \E g \in RequestId : Current(g)'
    BY <1>4, <2>1, ApprovedFirst
  <2> QED
    BY <2>1, <2>2 DEF StoredInv
<1>5. ASSUME NEW c \in calls, PollConsumed(c) \/ Rotate(c) PROVE StoredInv'
  <2>1. /\ requests' = requests /\ stored' = stored /\ key \in Key /\ key'.last = key.last
        /\ ~crossed' => ~crossed
    BY <1>5, ConsumedFacts, RotateFacts
  <2> QED
    BY <1>1, <2>1, StepSame
<1>6. ASSUME NEW c \in calls, BatchStored(c) PROVE StoredInv'
  <2> PICK h, N : h = c.batch[1] /\ N = key.last
    OBVIOUS
  <2>1. /\ c \in Call /\ c.op = "batch" /\ key \in Key /\ requests' = requests
        /\ stored' = Append(stored, c.batch) /\ crossed' = (crossed \/ Superseded(h))
        /\ c.batch[2] = N + 1 /\ key'.last = N + 1
    BY <1>6, StoredFacts
  <2>2. /\ Consumed(h) /\ c.batch = <<h, N + 1>> /\ N \in Nat /\ Len(stored) = N
        /\ h \in RequestId /\ \A n \in 1..N : stored[n][2] = n
    BY <2>1, CallFacts, KeyFacts DEF PairingInv, StoredInv
  <2>3. Len(stored') = N + 1 /\ stored'[N + 1] = <<h, N + 1>>
        /\ \A n \in 1..N : stored'[n] = stored[n]
    BY <1>0, <2>1, <2>2
  <2>4. \A n \in 1..(N + 1) : n \in 1..N \/ n = N + 1
    BY <2>2
  <2>5. \A n \in 1..(N + 1) : stored'[n][2] = n
    BY <2>2, <2>3, <2>4
  <2>6. ASSUME ~crossed'
        PROVE  Current(h)' /\ \A n \in 1..(N + 1) : stored'[n] = <<h, n>>
    <3>1. ~crossed /\ Current(h)
      BY <2>1, <2>2, <2>6 DEF Current
    <3>2. Current(h)'
      BY <2>1, <2>2, <3>1, StepSame, SameFacts
    <3> PICK g \in RequestId : Current(g) /\ \A n \in 1..N : stored[n] = <<g, n>>
      BY <2>1, <3>1, KeyFacts DEF StoredInv
    <3>3. g = h
      BY <2>2, <3>1, CurrentUnique
    <3> QED
      BY <2>3, <2>4, <3>2, <3>3
  <2> QED
    BY <2>1, <2>2, <2>3, <2>5, <2>6 DEF StoredInv
<1>7. CASE \/ \E c : Makes(c) /\ Outstanding(c)
           \/ AgentIsTold \/ AgentGivesUp \/ SampleAges
  <2>1. UNCHANGED <<requests, stored, key, crossed>>
    BY <1>7, AgentMoves
  <2> QED
    BY <1>1, <2>1, StepSame
<1> QED
  BY <1>2, <1>3, <1>4, <1>5, <1>6, <1>7, StepCases

LEMMA BatchStep ==
    ASSUME TypeOK, TableInv, AgentInv, PairingInv, BatchInv, [Next]_vars
    PROVE  BatchInv'
<1> SUFFICES ASSUME key' # None, key'.batch # None, NEW g, g = key'.batch[1]
             PROVE  /\ requests'[g] = "consumed"
                    /\ Current(g)' /\ ~crossed' => key'.batch[2] <= key'.last
  BY DEF BatchInv, Consumed
<1>0. key \in Key \cup {None}
  BY DEF TypeOK
<1>1. ASSUME key \in Key, key'.batch = key.batch
      PROVE  /\ g \in RequestId /\ Consumed(g)
             /\ Current(g) /\ ~crossed => key'.batch[2] <= key.last
  <2>1. key # None /\ key.batch \in Sample
    BY <1>1, KeyFacts
  <2>2. g \in RequestId
    BY <1>1, <2>1 DEF Sample
  <2> QED
    BY <1>1, <2>1, <2>2 DEF BatchInv
<1>2. ASSUME ConsumedSame, key \in Key, key'.batch = key.batch, key'.last = key.last,
             ~crossed' => ~crossed
      PROVE  /\ requests'[g] = "consumed"
             /\ Current(g)' /\ ~crossed' => key'.batch[2] <= key'.last
  <2>1. /\ g \in RequestId /\ Consumed(g)
        /\ Current(g) /\ ~crossed => key'.batch[2] <= key.last
    BY <1>1, <1>2
  <2>2. (Current(g)' <=> Current(g)) /\ Consumed(g)'
    BY <1>2, <2>1, SameFacts
  <2> QED
    BY <1>2, <2>1, <2>2 DEF Consumed
<1>3. CASE Minor
  <2>1. key \in Key /\ key'.batch = key.batch /\ key'.last = key.last /\ crossed' = crossed
    BY <1>0, <1>3 DEF Minor, KeyWeaker
  <2> QED
    BY <1>2, <1>3, <2>1, StepSame
<1>4. ASSUME NEW i \in RequestId, Create(i)
      PROVE  /\ requests'[g] = "consumed"
             /\ Current(g)' /\ ~crossed' => key'.batch[2] <= key'.last
  BY <1>0, <1>2, <1>4, CreateFacts, StepSame
<1>5. ASSUME NEW c \in calls, PollApproved(c)
      PROVE  /\ requests'[g] = "consumed"
             /\ Current(g)' /\ ~crossed' => key'.batch[2] <= key'.last
  <2>1. /\ key \in Key /\ key'.batch = key.batch /\ c.req \in RequestId
        /\ requests[c.req] = "approved"
        /\ \A j \in RequestId \ {c.req} : requests'[j] = requests[j]
    BY <1>0, <1>5, ApprovedFacts
  <2>2. g \in RequestId /\ Consumed(g)
    BY <1>1, <2>1
  <2>3. g # c.req /\ requests'[g] = "consumed"
    BY <2>1, <2>2 DEF Consumed
  <2>4. ~crossed' => ~Current(g)'
    <3> SUFFICES ASSUME ~crossed', Current(g)' PROVE FALSE
      OBVIOUS
    <3> PICK r : r = c.req
      OBVIOUS
    <3>1. Current(r)' /\ r \in RequestId /\ g # r
      BY <1>5, <2>1, <2>3, ApprovedFirst
    <3>2. ~(g > r) /\ ~(r > g) /\ g \in Nat /\ r \in Nat
      BY <2>2, <3>1, BoundsAssumption DEF Current, Superseded, Consumed, RequestId
    <3> QED
      BY <3>1, <3>2
  <2> QED
    BY <2>3, <2>4
<1>6. ASSUME NEW c \in calls, PollConsumed(c) \/ Rotate(c)
      PROVE  /\ requests'[g] = "consumed"
             /\ Current(g)' /\ ~crossed' => key'.batch[2] <= key'.last
  <2>1. key \in Key /\ key'.batch = key.batch /\ key'.last = key.last
        /\ requests' = requests
    BY <1>6, ConsumedFacts, RotateFacts
  <2>2. ~crossed' => ~crossed
    BY <1>6, ConsumedFacts, RotateFacts
  <2> QED
    BY <1>2, <2>1, <2>2, StepSame
<1>7. ASSUME NEW c \in calls, BatchStored(c)
      PROVE  /\ requests'[g] = "consumed"
             /\ Current(g)' /\ ~crossed' => key'.batch[2] <= key'.last
  <2>1. /\ c.op = "batch" /\ key'.batch = c.batch /\ key'.last = key.last + 1
        /\ c.batch[2] = key.last + 1 /\ requests' = requests /\ key \in Key
    BY <1>7, StoredFacts
  <2>2. Consumed(g) /\ key.last \in Nat
    BY <2>1, KeyFacts DEF PairingInv
  <2> QED
    BY <2>1, <2>2 DEF Consumed
<1>8. CASE \/ \E c : Makes(c) /\ Outstanding(c)
           \/ AgentIsTold \/ AgentGivesUp \/ SampleAges
  <2>1. UNCHANGED <<requests, key, crossed>>
    BY <1>8, AgentMoves
  <2> QED
    BY <1>0, <1>2, <2>1, StepSame
<1> QED
  BY <1>3, <1>4, <1>5, <1>6, <1>7, <1>8, StepCases

LEMMA AckStep ==
    ASSUME TypeOK, TableInv, AgentInv, PairingInv, BatchInv, AckInv, [Next]_vars
    PROVE  AckInv'
<1> SUFFICES ASSUME ~crossed'
             PROVE  /\ agent'.held # None => agent'.acked <= key'.last
                    /\ reply' # None /\ reply'.to.op = "batch" /\ reply'.status = "ok" =>
                          agent'.acked + 1 <= key'.last
  BY DEF AckInv
<1> DEFINE Goal == /\ agent'.held # None => agent'.acked <= key'.last
                   /\ reply' # None /\ reply'.to.op = "batch" /\ reply'.status = "ok" =>
                         agent'.acked + 1 <= key'.last
<1> HIDE DEF Goal
<1>0. /\ key \in Key \cup {None} /\ agent.acked \in Nat /\ calls \subseteq Call
      /\ key # None => key.last \in Nat
      /\ agent.held # None => /\ Consumed(agent.req) /\ key # None /\ agent.req # 0
                              /\ agent.req \in RequestId
      /\ reply # None /\ reply.to.op = "batch" => agent.held # None
  <2>1. agent.held # None => Consumed(agent.req) /\ agent.req # 0 /\ agent.req \in RequestId
    BY AgentFacts DEF PairingInv, AgentInv
  <2> QED
    BY <2>1, AgentFacts, KeyFacts DEF TypeOK, PairingInv, AgentInv, Outstanding
<1>1. ASSUME ~crossed
      PROVE  /\ agent.held # None => agent.acked <= key.last
             /\ reply # None /\ reply.to.op = "batch" /\ reply.status = "ok" =>
                   agent.acked + 1 <= key.last
  BY <1>1 DEF AckInv
<1>2. ASSUME agent' = agent, ~crossed, agent.held # None => key'.last = key.last,
             reply' = reply \/ (reply'.to.op = "batch" /\ reply'.status = "ok" =>
                   agent.acked + 1 <= key'.last)
      PROVE  Goal
  BY <1>0, <1>1, <1>2 DEF Goal
<1>3. CASE Minor
  <2>1. agent' = agent /\ (key # None => key'.last = key.last) /\ ~crossed
    BY <1>3 DEF Minor, KeyWeaker
  <2>2. agent.held # None => key'.last = key.last
    BY <1>0, <2>1
  <2>3. ASSUME reply' # reply, reply'.to.op = "batch", reply'.status = "ok"
        PROVE  agent.acked + 1 <= key'.last
    <3>1. /\ reply'.to = agent.waiting /\ agent.waiting \in calls
          /\ key # None /\ key.batch = agent.waiting.batch
      BY <1>3, <2>3 DEF Minor
    <3>2. /\ agent.held # None /\ key.batch = <<agent.req, agent.acked + 1>>
          /\ key.batch # None
      <4>1. agent.waiting # None /\ agent.waiting.batch \in Sample
        BY <1>0, <2>3, <3>1, NoneAssumption, CallFacts
      <4>2. agent.held # None /\ key.batch = <<agent.req, agent.acked + 1>>
        BY <2>3, <3>1, <4>1 DEF AgentInv, Outstanding, Oldest
      <4>3. key.batch # None
        BY <3>1, <4>1, NoneAssumption
      <4> QED
        BY <4>2, <4>3
    <3>3. Current(agent.req)
      BY <1>0, <3>2, AgentCurrent
    <3> QED
      BY <2>1, <3>1, <3>2, <3>3 DEF BatchInv
  <2> QED
    BY <1>2, <2>1, <2>2, <2>3 DEF Goal
<1>4. ASSUME NEW i \in RequestId, Create(i) PROVE Goal
  BY <1>4, CreateFacts DEF Goal
<1>5. ASSUME NEW c \in calls, PollApproved(c) PROVE Goal
  <2>1. agent.held = None /\ Issues(c) /\ c.op = "poll"
    BY <1>5, ApprovedFirst, ApprovedFacts
  <2> QED
    BY <1>0, <2>1 DEF Issues, Goal
<1>6. ASSUME NEW c \in calls, PollConsumed(c) \/ Rotate(c) PROVE Goal
  <2>1. key'.last = key.last /\ key \in Key /\ Issues(c) /\ c.op # "batch" /\ ~crossed
    BY <1>6, ConsumedFacts, RotateFacts
  <2> QED
    BY <1>0, <1>2, <2>1 DEF Issues
<1>7. ASSUME NEW c \in calls, BatchStored(c) PROVE Goal
  <2>1. /\ key \in Key /\ key'.last = key.last + 1 /\ agent' = agent
        /\ c.op = "batch" /\ c.batch[2] = key.last + 1 /\ c \in Call /\ ~crossed
        /\ reply' = reply \/ (reply'.to = c /\ agent.waiting = c)
    BY <1>7, StoredFacts
  <2>2. agent.waiting = c => agent.acked + 1 = key'.last
    BY <2>1, NoneAssumption DEF AgentInv, Outstanding, Oldest
  <2>3. key.last \in Nat /\ key # None
    BY <2>1, KeyFacts
  <2> QED
    BY <1>0, <1>1, <2>1, <2>2, <2>3 DEF Goal
<1>8. ASSUME NEW c, Makes(c) PROVE Goal
  BY <1>1, <1>8 DEF Makes, Goal
<1>9. CASE AgentIsTold
  <2>1. /\ UNCHANGED <<key, crossed>> /\ reply' = None /\ reply # None
        /\ reply.to = agent.waiting /\ Outstanding(agent.waiting)
    BY <1>9, ToldFacts DEF AgentIsTold
  <2>2. CASE ToldCredential
    <3>1. agent.acked = 0 /\ key # None
      <4>1. /\ agent.held = None /\ Consumed(agent.req) /\ agent.req # 0
        BY <2>1, <2>2 DEF ToldCredential, PairingInv, AgentInv, Outstanding
      <4>2. agent.req \in RequestId
        BY <4>1, AgentFacts
      <4> QED
        BY <4>1, <4>2 DEF PairingInv, AgentInv
    <3> QED
      BY <1>0, <2>1, <2>2, <3>1 DEF ToldCredential, KeepsAllBut, Goal
  <2>3. CASE ~ToldCredential
    BY <1>1, <1>9, <2>1, <2>3, ToldFacts
    DEF ToldReplacement, ToldUnpaired, ToldStored, ToldOutdated, KeepsAllBut, Outstanding,
        Goal
  <2> QED
    BY <2>2, <2>3
<1>10. CASE AgentGivesUp
  BY <1>1, <1>10, GivesUpFacts DEF KeepsAllBut, Goal
<1>11. CASE SampleAges
  BY <1>1, <1>11, AgesFacts DEF KeepsAllBut, Goal
<1> QED
  BY <1>3, <1>4, <1>5, <1>6, <1>7, <1>8, <1>9, <1>10, <1>11, StepCases DEF Goal

----------------------------------------------------------------------------
(* Credentials *)

\* Types and bounds of the credentials anyone has.
LEMMA IssuedFacts ==
    ASSUME TypeOK, IssuedInv
    PROVE  /\ issued \in Nat /\ calls \subseteq Call /\ key \in Key \cup {None}
           /\ None \notin Nat
           /\ key # None => key \in Key
           /\ key # None => /\ key.secret \in Nat /\ key.secret <= issued
                            /\ key.pending # None => key.pending \in Nat /\ key.pending <= issued
                            /\ key.secret # key.pending /\ key.secret # unpromoted
           /\ agent.held # None => agent.held \in Nat /\ agent.held <= issued
           /\ agent.next # None => /\ agent.next \in Nat /\ agent.next <= issued
                                   /\ agent.next # agent.held
           /\ unpromoted # None => unpromoted \in Nat /\ unpromoted <= issued
           /\ \A c \in calls : c.op # "poll" => c.cred \in Nat /\ c.cred <= issued
           /\ reply # None => reply \in Reply
           /\ reply # None /\ reply.cred # None => reply.cred \in Nat /\ reply.cred <= issued
<1>1. unpromoted # None => unpromoted \in Nat
  BY BoundsAssumption DEF TypeOK, Credential
<1>2. reply # None => reply \in Reply
  BY DEF TypeOK
<1> QED
  BY <1>1, <1>2, AgentFacts, KeyFacts, CallFacts, ReplyFacts, NoneAssumption DEF TypeOK, IssuedInv

LEMMA IssuedStep ==
    ASSUME TypeOK, TableInv, AgentInv, IssuedInv, [Next]_vars
    PROVE  IssuedInv'
<1>0. /\ issued \in Nat /\ calls \subseteq Call /\ key \in Key \cup {None}
      /\ None \notin Nat
      /\ key # None => key \in Key
      /\ key # None => /\ key.secret \in Nat /\ key.secret <= issued
                       /\ key.pending # None => key.pending \in Nat /\ key.pending <= issued
                       /\ key.secret # key.pending /\ key.secret # unpromoted
      /\ agent.held # None => agent.held \in Nat /\ agent.held <= issued
      /\ agent.next # None => /\ agent.next \in Nat /\ agent.next <= issued
                              /\ agent.next # agent.held
      /\ unpromoted # None => unpromoted \in Nat /\ unpromoted <= issued
      /\ \A c \in calls : c.op # "poll" => c.cred \in Nat /\ c.cred <= issued
      /\ reply # None => reply \in Reply
      /\ reply # None /\ reply.cred # None => reply.cred \in Nat /\ reply.cred <= issued
  BY IssuedFacts
<1>0a. reply # None /\ reply.to.op = "rotate" /\ reply.status = "ok" =>
          reply.cred # None /\ reply.cred # agent.held
  BY DEF IssuedInv
<1> DEFINE I1 == key # None => /\ key.secret <= issued
                               /\ key.pending # None => key.pending <= issued
                               /\ key.secret # key.pending /\ key.secret # unpromoted
           I2 == /\ agent.held # None => agent.held <= issued
                 /\ agent.next # None => agent.next <= issued /\ agent.next # agent.held
           I3 == unpromoted # None => unpromoted <= issued
           I4 == \A c \in calls : c.op # "poll" => c.cred <= issued
           I5 == /\ reply # None /\ reply.cred # None => reply.cred <= issued
                 /\ reply # None /\ reply.to.op = "rotate" /\ reply.status = "ok" =>
                       reply.cred # None /\ reply.cred # agent.held
<1>b. I1' /\ I2' /\ I3' /\ I4' /\ I5' => IssuedInv'
  BY DEF IssuedInv
<1>1. CASE Minor
  <2>1. /\ issued' = issued /\ agent' = agent /\ calls' \subseteq calls
        /\ key' = None => key = None
        /\ key # None => key' # None /\ key'.secret = key.secret /\ key'.pending = key.pending
        /\ \/ unpromoted' = unpromoted
           \/ key # None /\ key.pending = unpromoted'
        /\ \/ reply' = reply
           \/ /\ reply'.cred = None
              /\ reply'.to.op = "rotate" => reply'.status # "ok"
    BY <1>0, <1>1, KeyFacts DEF Minor, KeyWeaker
  <2>2. key' # None => key # None
    BY <1>1, <1>0, KeyFacts DEF Minor, KeyWeaker
  <2>3. I1' /\ I3'
    BY <1>0, <2>1, <2>2
  <2>4. I2' /\ I4'
    BY <1>0, <2>1
  <2>5. I5'
    BY <1>0, <1>0a, <2>1
  <2> QED
    BY <1>b, <2>3, <2>4, <2>5
<1>2. ASSUME NEW i \in RequestId, Create(i) PROVE IssuedInv'
  <2>1. \A d \in calls' : d.op # "poll" => d.cred <= issued
    BY <1>0, <1>2, CreateFacts DEF Alike
  <2>2. /\ key' = key /\ issued' = issued /\ unpromoted' = None /\ reply' = None
        /\ agent'.held = None /\ agent'.next = None
    BY <1>2, CreateFacts
  <2> QED
    BY <1>0, <1>b, <2>1, <2>2
<1>3. ASSUME NEW c \in calls, PollApproved(c) \/ PollConsumed(c) \/ Rotate(c)
      PROVE  IssuedInv'
  <2>1. Issues(c) /\ unpromoted' = unpromoted
    BY <1>3, ApprovedFacts, ConsumedFacts, RotateFacts
  <2>2. \A x \in Nat : x <= issued => x <= issued + 1 /\ x # issued + 1
    BY <1>0
  <2>3. issued + 1 \in Nat /\ issued' = issued + 1 /\ agent' = agent /\ calls' \subseteq calls
    BY <1>0, <2>1 DEF Issues
  <2>4. I1'
    <3>1. CASE PollApproved(c)
      BY <1>0, <2>1, <2>2, <2>3, <3>1, ApprovedFacts
    <3>2. CASE PollConsumed(c)
      BY <1>0, <2>1, <2>2, <2>3, <3>2, ConsumedFacts, KeyFacts
    <3>3. CASE Rotate(c)
      BY <1>0, <2>1, <2>2, <2>3, <3>3, RotateFacts, KeyFacts
    <3> QED
      BY <1>3, <3>1, <3>2, <3>3
  <2>5. I2' /\ I3' /\ I4'
    BY <1>0, <2>1, <2>2, <2>3
  <2>6. I5'
    <3>1. CASE reply' = reply
      BY <1>0, <1>0a, <2>2, <2>3, <3>1
    <3>2. CASE reply' # reply
      <4>1. reply'.cred = issued + 1 /\ issued + 1 # None
        BY <1>0, <2>1, <2>3, <3>2 DEF Issues
      <4> QED
        BY <1>0, <2>2, <2>3, <4>1
    <3> QED
      BY <3>1, <3>2
  <2> QED
    BY <1>b, <2>4, <2>5, <2>6
<1>4. ASSUME NEW c \in calls, BatchStored(c) PROVE IssuedInv'
  <2>1. /\ c.op = "batch" /\ c.cred \in Nat /\ c.cred <= issued /\ key # None
        /\ issued' = issued /\ agent' = agent /\ calls' \subseteq calls
        /\ \/ /\ key'.secret = key.secret /\ key'.pending = key.pending /\ c.cred = key.secret
           \/ key'.secret = c.cred /\ key'.pending = None
        /\ unpromoted' = IF unpromoted = c.cred THEN None ELSE unpromoted
        /\ reply' = reply \/ (reply'.cred = None /\ reply'.to = c)
    BY <1>0, <1>4, StoredFacts, KeyFacts
  <2>2. I1' /\ I3'
    BY <1>0, <2>1
  <2>3. I2' /\ I4' /\ I5'
    BY <1>0, <1>0a, <2>1
  <2> QED
    BY <1>b, <2>2, <2>3
<1>5. ASSUME NEW c, Makes(c), Outstanding(c) PROVE IssuedInv'
  <2>1. c.op # "poll" => c.cred # None /\ c.cred \in {agent.held, agent.next}
    BY <1>5, CallFacts, NoneAssumption DEF Makes, Outstanding, Credential
  <2>2. /\ key' = key /\ issued' = issued /\ unpromoted' = unpromoted /\ reply' = None
        /\ agent'.held = agent.held /\ agent'.next = agent.next /\ calls' = calls \cup {c}
    BY <1>5 DEF Makes
  <2> QED
    BY <1>0, <1>b, <2>1, <2>2
<1>6. CASE AgentIsTold
  <2>1. /\ UNCHANGED <<key, calls, issued, unpromoted>> /\ reply' = None /\ reply # None
        /\ reply.to = agent.waiting /\ Outstanding(agent.waiting)
        /\ agent.held = None => agent.next = None
        /\ reply.to.op = "batch" => reply.to.cred # None
    BY <1>6, ToldFacts, CallFacts, NoneAssumption DEF AgentIsTold, AgentInv, Credential
  <2>2. /\ agent'.held # None => agent'.held <= issued
        /\ agent'.next # None => agent'.next # agent'.held /\ agent'.next <= issued
    <3>1. CASE ToldCredential
      BY <1>0, <2>1, <3>1 DEF ToldCredential, KeepsAllBut, Outstanding
    <3>2. CASE ToldReplacement
      BY <1>0, <1>0a, <2>1, <3>2 DEF ToldReplacement, KeepsAllBut
    <3>3. CASE ToldUnpaired
      BY <3>3 DEF ToldUnpaired
    <3>4. CASE ToldStored \/ ToldOutdated \/ KeepsAllBut({})
      BY <1>0, <2>1, <3>4 DEF ToldStored, ToldOutdated, KeepsAllBut
    <3> QED
      BY <1>6, <3>1, <3>2, <3>3, <3>4, ToldFacts
  <2> QED
    BY <1>0, <1>b, <2>1, <2>2
<1>7. CASE AgentGivesUp
  <2>1. \A d \in calls' : d.op # "poll" => d.cred <= issued
    BY <1>0, <1>7, GivesUpFacts DEF Alike
  <2>2. /\ key' = key /\ issued' = issued /\ unpromoted' = unpromoted /\ reply' = None
        /\ agent'.held = agent.held /\ agent'.next = agent.next
    BY <1>7, GivesUpFacts DEF KeepsAllBut
  <2> QED
    BY <1>0, <1>b, <2>1, <2>2
<1>8. CASE SampleAges
  <2>1. /\ UNCHANGED <<key, calls, issued, unpromoted, reply>>
        /\ agent'.held = agent.held /\ agent'.next = agent.next
    BY <1>8, AgesFacts DEF KeepsAllBut
  <2> QED
    BY <1>0, <1>0a, <1>b, <2>1
<1> QED
  BY <1>1, <1>2, <1>3, <1>4, <1>5, <1>6, <1>7, <1>8, StepCases

\* While nothing crossed, the agent's pairing is the current one.
LEMMA HeldFacts ==
    ASSUME TypeOK, AgentInv, PairingInv, agent.held # None
    PROVE  /\ key \in Key /\ key # None /\ agent.req # 0 /\ agent.req \in RequestId
           /\ Consumed(agent.req) /\ Current(agent.req)
<1>1. agent.req # 0 /\ Consumed(agent.req)
  BY DEF AgentInv, PairingInv
<1>2. agent.req \in RequestId /\ Current(agent.req)
  BY <1>1, AgentCurrent
<1>3. key # None
  BY <1>1, <1>2 DEF PairingInv
<1> QED
  BY <1>1, <1>2, <1>3 DEF TypeOK

\* A batch that is stored and crosses nothing is of the current pairing.
LEMMA StoredCurrent ==
    ASSUME TypeOK, PairingInv, NEW c \in calls, BatchStored(c), ~crossed',
           agent.req # 0, Consumed(agent.req)
    PROVE  ~crossed /\ c.batch[1] = agent.req /\ agent.held # None
<1>1. c.op = "batch" /\ ~crossed /\ ~Superseded(c.batch[1]) /\ c \in Call
  BY StoredFacts
<1>2. Consumed(c.batch[1]) /\ (agent.held = None => c.batch[1] # agent.req)
  BY <1>1 DEF PairingInv
<1>3. c.batch[1] \in RequestId /\ Current(c.batch[1])
  BY <1>1, <1>2, CallFacts DEF Current
<1>4. agent.req \in RequestId /\ Current(agent.req)
  BY AgentCurrent
<1>5. c.batch[1] = agent.req
  BY <1>3, <1>4, CurrentUnique
<1> QED
  BY <1>1, <1>2, <1>5

LEMMA FreshStep ==
    ASSUME TypeOK, TableInv, AgentInv, PairingInv, CredentialInv, [Next]_vars
    PROVE  FreshInv'
<1> SUFFICES ASSUME ~crossed', agent'.req # 0, agent'.held = None,
                    requests'[agent'.req] = "consumed"
             PROVE  /\ key'.last = 0 /\ ~key'.seen
                    /\ \A c \in calls' : c.op # "poll" => c.cred # key'.secret
  BY DEF FreshInv, Consumed
<1> DEFINE Goal == /\ key'.last = 0 /\ ~key'.seen
                   /\ \A c \in calls' : c.op # "poll" => c.cred # key'.secret
<1>0. /\ issued \in Nat
      /\ \A c \in calls : c.op # "poll" => c.cred \in Nat /\ c.cred <= issued
  BY IssuedFacts DEF CredentialInv
<1>1. ASSUME ~crossed, agent.req # 0, agent.held = None, Consumed(agent.req)
      PROVE  /\ key.last = 0 /\ ~key.seen /\ key \in Key
             /\ \A c \in calls : c.op # "poll" => c.cred # key.secret
  <2>1. agent.req \in RequestId
    BY <1>1, AgentFacts
  <2> QED
    BY <1>1, <2>1 DEF CredentialInv, FreshInv, PairingInv, TypeOK
<1>2. ASSUME ~crossed, agent.req # 0, agent.held = None, Consumed(agent.req),
             calls' \subseteq calls \/ Alike(calls', calls),
             key' = key \/ /\ key'.last = key.last /\ key'.seen = key.seen
                           /\ key'.secret = key.secret
      PROVE  Goal
  BY <1>1, <1>2 DEF Alike
<1>3. CASE Minor
  <2>1. ~crossed /\ agent' = agent /\ calls' \subseteq calls
        /\ (key' = key \/ /\ key'.last = key.last /\ key'.seen = key.seen
                          /\ key'.secret = key.secret)
    BY <1>3 DEF Minor, KeyWeaker
  <2>2. Consumed(agent.req)
    BY <1>3, <2>1, AgentFacts DEF Minor, RequestsKept, Consumed
  <2> QED
    BY <1>2, <2>1, <2>2
<1>4. ASSUME NEW i \in RequestId, Create(i) PROVE FALSE
  BY <1>4, CreateFacts
<1>5. ASSUME NEW c \in calls, PollApproved(c) \/ PollConsumed(c) PROVE Goal
  <2>1. /\ key'.last = 0 /\ ~key'.seen /\ key'.secret = issued + 1
        /\ calls' \subseteq calls
    BY <1>5, ApprovedFacts, ConsumedFacts DEF Issues
  <2> QED
    BY <1>0, <2>1
<1>6. ASSUME NEW c \in calls, Rotate(c) PROVE Goal
  <2>1. /\ ~crossed /\ agent' = agent /\ calls' \subseteq calls /\ requests' = requests
        /\ key'.last = key.last /\ key'.seen = key.seen /\ key'.secret = key.secret
    BY <1>6, RotateFacts DEF Issues
  <2> QED
    BY <1>2, <2>1 DEF Consumed
<1>7. ASSUME NEW c \in calls, BatchStored(c) PROVE FALSE
  <2>1. agent' = agent /\ requests' = requests
    BY <1>7, StoredFacts
  <2> QED
    BY <1>7, <2>1, StoredCurrent DEF Consumed
<1>8. ASSUME NEW c, Makes(c), Outstanding(c) PROVE Goal
  <2>1. /\ ~crossed /\ requests' = requests /\ agent.held = None /\ agent.req = agent'.req
        /\ calls' = calls \cup {c} /\ key' = key /\ agent.req # 0 /\ Consumed(agent.req)
    BY <1>8 DEF Makes, Consumed
  <2>2. c.op = "poll"
    BY <1>8, <2>1, CallFacts DEF Makes, Outstanding
  <2> QED
    BY <1>1, <2>1, <2>2
<1>9. CASE AgentIsTold
  <2>1. /\ UNCHANGED <<key, calls, crossed, requests>> /\ agent.req = agent'.req
        /\ agent.held = None
    BY <1>9, ToldFacts, ToldMoves
  <2> QED
    BY <1>2, <2>1 DEF Consumed
<1>10. CASE AgentGivesUp
  <2>1. /\ UNCHANGED <<key, crossed, requests>> /\ agent.req = agent'.req
        /\ agent.held = agent'.held /\ Alike(calls', calls)
    BY <1>10, GivesUpFacts DEF KeepsAllBut
  <2> QED
    BY <1>2, <2>1 DEF Consumed
<1>11. CASE SampleAges
  <2>1. /\ UNCHANGED <<key, crossed, requests, calls>> /\ agent.req = agent'.req
        /\ agent.held = agent'.held
    BY <1>11, AgesFacts DEF KeepsAllBut
  <2> QED
    BY <1>2, <2>1 DEF Consumed
<1> QED
  BY <1>3, <1>4, <1>5, <1>6, <1>7, <1>8, <1>9, <1>10, <1>11, StepCases

\* No step but an issue makes a credential acceptable that was not.
LEMMA AliveShrinks ==
    ASSUME TypeOK, IssuedInv, key # None,
           Minor \/ \E c \in calls : PollConsumed(c) \/ Rotate(c) \/ BatchStored(c),
           NEW x \in Nat, x <= issued, Alive(x)'
    PROVE  Alive(x)
<1>0. key \in Key /\ issued \in Nat /\ x # issued + 1 /\ x # None
  BY IssuedFacts
<1>1. CASE Minor
  BY <1>0, <1>1 DEF Minor, KeyWeaker, Alive
<1>2. ASSUME NEW c \in calls, PollConsumed(c) PROVE Alive(x)
  BY <1>0, <1>2, ConsumedFacts DEF Alive
<1>3. ASSUME NEW c \in calls, Rotate(c) PROVE Alive(x)
  BY <1>0, <1>3, RotateFacts DEF Alive
<1>4. ASSUME NEW c \in calls, BatchStored(c) PROVE Alive(x)
  BY <1>0, <1>4, StoredFacts DEF Alive
<1> QED
  BY <1>1, <1>2, <1>3, <1>4

\* A replacement that is acknowledged and not promoted is one the agent has.
LEMMA UnpromotedFacts ==
    ASSUME TypeOK, AgentInv, PairingInv, CredentialInv, Minor, ~crossed,
           agent.held # None, ~key.revoked, unpromoted' # unpromoted
    PROVE  /\ unpromoted' \in {agent.held, agent.next} /\ unpromoted' # None
           /\ key.pending = unpromoted' /\ key.live
           /\ agent.held # unpromoted' =>
                 agent.held # unpromoted /\ unpromoted' = agent.next
           /\ agent.held = unpromoted' => agent.next = None
<1>1. /\ agent.waiting \in calls /\ agent.waiting.op = "batch"
      /\ unpromoted' = agent.waiting.cred /\ key # None
      /\ key.pending = unpromoted' /\ key.live
  BY DEF Minor
<1>2. agent.waiting \in Call /\ agent.waiting # None
  BY <1>1, AgentFacts, NoneAssumption
<1>3. unpromoted' \in {agent.held, agent.next} /\ unpromoted' # None
  BY <1>1, <1>2, CallFacts, NoneAssumption DEF AgentInv, Outstanding
<1>4. /\ agent.held = unpromoted => agent.next = None
      /\ agent.held # unpromoted => (agent.held = key.pending => ~key.live)
  BY DEF CredentialInv, HeldInv
<1> QED
  BY <1>1, <1>3, <1>4

LEMMA HeldStep ==
    ASSUME TypeOK, TableInv, AgentInv, PairingInv, CredentialInv, [Next]_vars
    PROVE  HeldInv'
<1> DEFINE H1 == agent.held = unpromoted => agent.next = None
           H2 == agent.next = key.secret => key.pending = None \/ ~key.live
           H3 == agent.held # unpromoted /\ agent.held = key.pending => ~key.live
           H4 == agent.held # unpromoted /\ key.seen => key.secret \in {agent.held, agent.next}
<1> SUFFICES ASSUME ~crossed', agent'.held # None, ~key'.revoked
             PROVE  H1' /\ H2' /\ H3' /\ H4'
  BY DEF HeldInv
<1>0. /\ issued \in Nat /\ None \notin Nat
      /\ key # None => /\ key.secret \in Nat /\ key.secret <= issued
                       /\ key.secret # unpromoted
      /\ agent.held # None => agent.held \in Nat /\ agent.held <= issued
      /\ agent.next # None => agent.next \in Nat /\ agent.next <= issued
      /\ \A c \in calls : c.op # "poll" => c.cred \in Nat /\ c.cred <= issued
  BY IssuedFacts DEF CredentialInv
<1>1. ASSUME ~crossed, agent.held # None, ~key.revoked
      PROVE  H1 /\ H2 /\ H3 /\ H4 /\ key # None
  BY <1>1, HeldFacts DEF CredentialInv, HeldInv
<1>2. CASE Minor
  <2>1. /\ ~crossed /\ agent' = agent /\ agent.held # None /\ key # None
        /\ key' = key \/ /\ key'.secret = key.secret /\ key'.pending = key.pending
                         /\ key'.seen = key.seen
                         /\ key'.live => key.live
                         /\ key.revoked => key'.revoked
    BY <1>2, HeldFacts DEF Minor, KeyWeaker
  <2>2. ~key.revoked
    BY <2>1
  <2>3. H1 /\ H2 /\ H3 /\ H4
    BY <1>1, <2>1, <2>2
  <2>4. CASE unpromoted' = unpromoted
    BY <2>1, <2>3, <2>4
  <2>5. CASE unpromoted' # unpromoted
    <3>1. /\ unpromoted' \in {agent.held, agent.next} /\ unpromoted' # None
          /\ key.pending = unpromoted' /\ key.live
          /\ agent.held # unpromoted' =>
                agent.held # unpromoted /\ unpromoted' = agent.next
          /\ agent.held = unpromoted' => agent.next = None
      BY <1>2, <2>1, <2>2, <2>5, UnpromotedFacts
    <3> QED
      BY <2>1, <2>3, <3>1
  <2> QED
    BY <2>4, <2>5
<1>3. ASSUME NEW i \in RequestId, Create(i) PROVE FALSE
  BY <1>3, CreateFacts
<1>4. ASSUME NEW c \in calls, PollApproved(c) PROVE FALSE
  BY <1>4, ApprovedFirst, ApprovedFacts DEF Issues
<1>5. ASSUME NEW c \in calls, PollConsumed(c) PROVE H1' /\ H2' /\ H3' /\ H4'
  <2>1. /\ ~crossed /\ agent' = agent /\ agent.held # None /\ ~key.revoked
        /\ key'.secret = issued + 1 /\ key'.pending = key.pending
        /\ key'.live = key.live /\ ~key'.seen /\ unpromoted' = unpromoted
    BY <1>5, ConsumedFacts DEF Issues
  <2>2. H1 /\ H3
    BY <1>1, <2>1
  <2>3. agent.next # issued + 1
    BY <1>0
  <2> QED
    BY <2>1, <2>2, <2>3
<1>6. ASSUME NEW c \in calls, Rotate(c) PROVE H1' /\ H2' /\ H3' /\ H4'
  <2>1. /\ ~crossed /\ agent' = agent /\ agent.held # None /\ ~key.revoked
        /\ key'.secret = key.secret /\ key'.pending = issued + 1
        /\ key'.seen = key.seen /\ unpromoted' = unpromoted
        /\ c.op = "rotate" /\ c.cred = key.secret
    BY <1>6, RotateFacts DEF Issues
  <2>2. H1 /\ H4
    BY <1>1, <2>1
  <2>3. agent.held # issued + 1
    BY <1>0, <2>1
  <2>4. agent.next # key.secret
    BY <2>1 DEF CredentialInv, CallInv
  <2> QED
    BY <2>1, <2>2, <2>3, <2>4
<1>7. ASSUME NEW c \in calls, BatchStored(c) PROVE H1' /\ H2' /\ H3' /\ H4'
  <2>1. /\ agent' = agent /\ agent.held # None /\ ~key.revoked /\ c.op = "batch"
        /\ Alive(c.cred)
        /\ \/ /\ c.cred = key.secret /\ key'.secret = key.secret
              /\ key'.pending = key.pending /\ key'.live = key.live
           \/ /\ c.cred = key.pending /\ key.live
              /\ key'.secret = c.cred /\ key'.pending = None /\ ~key'.live
        /\ unpromoted' = IF unpromoted = c.cred THEN None ELSE unpromoted
    BY <1>7, StoredFacts
  <2>2. agent.req # 0 /\ Consumed(agent.req)
    BY <2>1, HeldFacts
  <2>3. ~crossed /\ c.batch[1] = agent.req
    BY <1>7, <2>2, StoredCurrent
  <2>4. H1 /\ H2 /\ H3 /\ H4 /\ key # None
    BY <1>1, <2>1, <2>3
  <2>5. agent.held # unpromoted => c.cred \in {agent.held, agent.next}
    BY <2>1, <2>3 DEF CredentialInv, CallInv
  <2>6. CASE c.cred = key.secret /\ key'.secret = key.secret
             /\ key'.pending = key.pending /\ key'.live = key.live
    <3>1. unpromoted' = unpromoted
      BY <1>0, <2>1, <2>4, <2>6
    <3> QED
      BY <2>1, <2>4, <2>5, <2>6, <3>1
  <2>7. CASE key'.secret = c.cred /\ key'.pending = None /\ ~key'.live
    BY <2>1, <2>4, <2>5, <2>7
  <2> QED
    BY <2>1, <2>6, <2>7
<1>8. ASSUME UNCHANGED <<key, crossed, unpromoted>>, agent'.held = agent.held,
             agent'.next = agent.next
      PROVE  H1' /\ H2' /\ H3' /\ H4'
  BY <1>1, <1>8
<1>9. CASE AgentIsTold
  <2>1. /\ UNCHANGED <<key, crossed, unpromoted>> /\ reply # None
        /\ reply.to = agent.waiting /\ Outstanding(agent.waiting)
    BY <1>9, ToldFacts DEF AgentIsTold
  <2>2. CASE ToldCredential
    <3>1. /\ agent.held = None /\ agent.next = None /\ agent.req # 0
          /\ Consumed(agent.req) /\ agent'.held = reply.cred /\ agent'.next = None
      BY <2>1, <2>2 DEF ToldCredential, KeepsAllBut, Outstanding, AgentInv, PairingInv
    <3>2. key # None
      BY <3>1, AgentCurrent DEF PairingInv
    <3>3. ~key.seen /\ reply.cred # key.pending
      BY <2>1, <2>2, <3>1, <3>2 DEF ToldCredential, CredentialInv, FreshInv, ReplyInv
    <3> QED
      BY <1>0, <2>1, <3>1, <3>2, <3>3
  <2>3. CASE ToldReplacement
    <3>1. /\ agent.held # None /\ agent.next = None /\ agent'.held = agent.held
          /\ agent'.next = reply.cred /\ key # None
      BY <2>1, <2>3, HeldFacts DEF ToldReplacement, KeepsAllBut, Outstanding
    <3>2. reply.cred # key.secret /\ agent.held # unpromoted
      BY <2>1, <2>3, <3>1 DEF ToldReplacement, CredentialInv, ReplyInv
    <3>3. H3 /\ H4
      BY <1>1, <2>1, <3>1
    <3> QED
      BY <1>0, <2>1, <3>1, <3>2, <3>3
  <2>4. CASE ToldStored
    <3>1. agent.held # None /\ key # None
      BY <2>1, <2>4, HeldFacts DEF ToldStored, Outstanding
    <3>2. CASE reply.to.cred = agent.next
      <4>1. agent'.held = agent.next /\ agent'.next = None
        BY <2>4, <3>2 DEF ToldStored, KeepsAllBut
      <4>2. \/ agent.next = unpromoted
            \/ key.secret = agent.next /\ (key.pending = None \/ ~key.live)
        BY <2>1, <2>4, <3>1, <3>2 DEF ToldStored, CredentialInv, ReplyInv
      <4> QED
        BY <1>0, <2>1, <3>1, <4>1, <4>2
    <3>3. CASE reply.to.cred # agent.next
      BY <1>8, <2>1, <2>4, <3>3 DEF ToldStored, KeepsAllBut
    <3> QED
      BY <3>2, <3>3
  <2>5. CASE ToldOutdated
    <3>1. /\ agent.held # None /\ key # None /\ agent'.next = None
          /\ agent'.held = agent.held
      BY <2>1, <2>5, HeldFacts DEF ToldOutdated, Outstanding, KeepsAllBut
    <3>2. ~Alive(agent.next)
      BY <2>1, <2>5, <3>1 DEF ToldOutdated, CredentialInv, ReplyInv
    <3>3. key.secret # agent.next
      BY <2>1, <3>2 DEF Alive
    <3>4. H1 /\ H3 /\ H4
      BY <1>1, <2>1, <3>1
    <3> QED
      BY <1>0, <2>1, <3>1, <3>3, <3>4
  <2>6. CASE KeepsAllBut({})
    BY <1>8, <2>1, <2>6 DEF KeepsAllBut
  <2>7. CASE ToldUnpaired
    BY <2>7 DEF ToldUnpaired
  <2> QED
    BY <1>9, <2>2, <2>3, <2>4, <2>5, <2>6, <2>7, ToldFacts
<1>10. ASSUME NEW c, Makes(c) PROVE H1' /\ H2' /\ H3' /\ H4'
  BY <1>8, <1>10 DEF Makes
<1>11. CASE AgentGivesUp \/ SampleAges
  BY <1>8, <1>11, GivesUpFacts, AgesFacts DEF KeepsAllBut
<1> QED
  BY <1>2, <1>3, <1>4, <1>5, <1>6, <1>7, <1>9, <1>10, <1>11, StepCases

LEMMA CallStep ==
    ASSUME TypeOK, TableInv, AgentInv, PairingInv, CredentialInv, [Next]_vars
    PROVE  CallInv'
<1> DEFINE C1(d) == d.op \in {"rotate", "unpair"} => d.cred # agent.next
           C2(d) == d.op \in {"rotate", "unpair"} /\ d.cred = key.secret
                       /\ agent.held # unpromoted => d.cred = agent.held
           C3(d) == d.op = "batch" /\ d.batch[1] = agent.req /\ Alive(d.cred)
                       /\ agent.held # unpromoted => d.cred \in {agent.held, agent.next}
<1> SUFFICES ASSUME ~crossed', agent'.held # None, ~key'.revoked, NEW D, D = calls',
                    NEW d \in D
             PROVE  C1(d)' /\ C2(d)' /\ C3(d)'
  BY DEF CallInv
<1>0. /\ issued \in Nat /\ None \notin Nat /\ calls \subseteq Call
      /\ key # None => /\ key.secret \in Nat /\ key.secret <= issued
                       /\ key.secret # unpromoted
      /\ agent.next # None => agent.next # agent.held
      /\ \A c \in calls : c.op # "poll" => c.cred \in Nat /\ c.cred <= issued
  BY IssuedFacts DEF CredentialInv
<1>1. ASSUME ~crossed, agent.held # None, ~key.revoked
      PROVE  /\ \A c \in calls : C1(c) /\ C2(c) /\ C3(c)
             /\ agent.held = unpromoted => agent.next = None
             /\ key # None
  BY <1>1, HeldFacts DEF CredentialInv, CallInv, HeldInv
<1>2. ASSUME Minor \/ \E c \in calls : PollConsumed(c) \/ Rotate(c) \/ BatchStored(c),
             key # None, d \in calls, d.op # "poll", Alive(d.cred)'
      PROVE  Alive(d.cred)
  <2> PICK x : x = d.cred
    OBVIOUS
  <2>1. x \in Nat /\ x <= issued /\ Alive(x)'
    BY <1>0, <1>2
  <2>2. Alive(x)
    BY <1>2, <2>1, AliveShrinks DEF CredentialInv
  <2> QED
    BY <2>2
<1>3. CASE Minor
  <2>1. /\ ~crossed /\ agent' = agent /\ agent.held # None /\ d \in calls
        /\ key' = key \/ /\ key'.secret = key.secret
                         /\ key.revoked => key'.revoked
    BY <1>3 DEF Minor, KeyWeaker
  <2>2. ~key.revoked /\ key'.secret = key.secret
    BY <2>1
  <2>3. C1(d) /\ C2(d) /\ C3(d) /\ key # None
    BY <1>1, <2>1, <2>2
  <2>4. agent.held # unpromoted' => agent.held # unpromoted
    <3>1. CASE unpromoted' = unpromoted
      BY <3>1
    <3>2. CASE unpromoted' # unpromoted
      BY <1>3, <2>1, <2>2, <3>2, UnpromotedFacts
    <3> QED
      BY <3>1, <3>2
  <2>5. d.op = "batch" /\ Alive(d.cred)' => Alive(d.cred)
    BY <1>2, <1>3, <2>1, <2>3
  <2> QED
    BY <2>1, <2>2, <2>3, <2>4, <2>5
<1>4. ASSUME NEW i \in RequestId, Create(i) PROVE FALSE
  BY <1>4, CreateFacts
<1>5. ASSUME NEW c \in calls, PollApproved(c) PROVE FALSE
  BY <1>5, ApprovedFirst, ApprovedFacts DEF Issues
<1>6. ASSUME NEW c \in calls, PollConsumed(c) \/ Rotate(c) PROVE C1(d)' /\ C2(d)' /\ C3(d)'
  <2>1. /\ ~crossed /\ agent' = agent /\ agent.held # None /\ ~key.revoked
        /\ key'.secret \in {key.secret, issued + 1} /\ d \in calls
        /\ unpromoted' = unpromoted
    BY <1>6, ConsumedFacts, RotateFacts DEF Issues
  <2>2. C1(d) /\ C2(d) /\ C3(d) /\ key # None
    BY <1>1, <2>1
  <2>3. d.op # "poll" => d.cred # issued + 1
    BY <1>0, <2>1
  <2>4. d.op = "batch" /\ Alive(d.cred)' => Alive(d.cred)
    BY <1>2, <1>6, <2>1, <2>2
  <2> QED
    BY <2>1, <2>2, <2>3, <2>4
<1>7. ASSUME NEW c \in calls, BatchStored(c) PROVE C1(d)' /\ C2(d)' /\ C3(d)'
  <2>1. /\ agent' = agent /\ agent.held # None /\ ~key.revoked /\ c.op = "batch"
        /\ Alive(c.cred) /\ d \in calls
        /\ \/ /\ c.cred = key.secret /\ key'.secret = key.secret
              /\ key'.pending = key.pending /\ key'.live = key.live
           \/ /\ c.cred = key.pending /\ key.live
              /\ key'.secret = c.cred /\ key'.pending = None /\ ~key'.live
        /\ unpromoted' = IF unpromoted = c.cred THEN None ELSE unpromoted
    BY <1>7, StoredFacts
  <2>2. agent.req # 0 /\ Consumed(agent.req)
    BY <2>1, HeldFacts
  <2>3. ~crossed /\ c.batch[1] = agent.req
    BY <1>7, <2>2, StoredCurrent
  <2>4. C1(d) /\ C2(d) /\ C3(d) /\ C3(c) /\ key # None
    BY <1>1, <2>1, <2>3
  <2>5. CASE c.cred = key.secret /\ key'.secret = key.secret
             /\ key'.pending = key.pending /\ key'.live = key.live
    <3>1. unpromoted' = unpromoted
      BY <1>0, <2>1, <2>4, <2>5
    <3>2. d.op = "batch" /\ Alive(d.cred)' => Alive(d.cred)
      BY <1>2, <1>7, <2>1, <2>4
    <3> QED
      BY <2>1, <2>4, <2>5, <3>1, <3>2
  <2>6. CASE key'.secret = c.cred /\ key'.pending = None /\ ~key'.live
    <3>1. agent.held # unpromoted' => c.cred \in {agent.held, agent.next}
      BY <2>1, <2>3, <2>4
    <3>2. d.op = "batch" /\ Alive(d.cred)' => d.cred = c.cred
      BY <2>6 DEF Alive
    <3> QED
      BY <2>1, <2>4, <2>6, <3>1, <3>2
  <2> QED
    BY <2>1, <2>5, <2>6
<1>8. UNCHANGED key => \A x : Alive(x)' <=> Alive(x)
  BY DEF Alive
<1>9. ASSUME UNCHANGED <<key, crossed, unpromoted>>, agent'.held = agent.held,
             agent'.next = agent.next, agent'.req = agent.req,
             NEW c \in calls, d.op = c.op, c.op # "poll" => d.cred = c.cred,
             c.op = "batch" => d.batch = c.batch
      PROVE  C1(d)' /\ C2(d)' /\ C3(d)'
  <2>1. C1(c) /\ C2(c) /\ C3(c)
    BY <1>1, <1>9
  <2> QED
    BY <1>8, <1>9, <2>1
<1>10. ASSUME NEW c, Makes(c), Outstanding(c) PROVE C1(d)' /\ C2(d)' /\ C3(d)'
  <2>1. /\ agent'.held = agent.held /\ agent'.next = agent.next /\ agent'.req = agent.req
        /\ UNCHANGED <<key, crossed, unpromoted>> /\ (d = c \/ d \in calls)
    BY <1>10 DEF Makes
  <2>2. CASE d = c
    BY <1>0, <1>10, <2>1, <2>2 DEF Outstanding
  <2>3. CASE d \in calls
    BY <1>9, <2>1, <2>3
  <2> QED
    BY <2>1, <2>2, <2>3
<1>11. CASE AgentIsTold
  <2>1. /\ UNCHANGED <<key, calls, crossed, unpromoted>> /\ reply # None
        /\ reply.to = agent.waiting /\ Outstanding(agent.waiting) /\ d \in calls
        /\ d.op # "poll" => d.cred \in Nat /\ d.cred # None
    BY <1>0, <1>11, ToldFacts DEF AgentIsTold
  <2>2. CASE ToldCredential
    <3>1. /\ agent.held = None /\ agent.next = None /\ agent.req # 0
          /\ Consumed(agent.req) /\ agent'.next = None /\ agent'.req = agent.req
      BY <2>1, <2>2 DEF ToldCredential, KeepsAllBut, Outstanding, AgentInv, PairingInv
    <3>2. /\ d.op # "poll" => d.cred # key.secret
          /\ d.op = "batch" => d.batch[1] # agent.req
      BY <2>1, <3>1 DEF CredentialInv, FreshInv, PairingInv
    <3> QED
      BY <2>1, <3>1, <3>2
  <2>3. CASE ToldReplacement
    <3>1. /\ agent.held # None /\ agent.next = None /\ agent'.held = agent.held
          /\ agent'.next = reply.cred /\ key # None /\ agent'.req = agent.req
      BY <2>1, <2>3, HeldFacts DEF ToldReplacement, KeepsAllBut, Outstanding
    <3>2. d.op # "poll" => d.cred # reply.cred
      BY <2>1, <2>3, <3>1 DEF ToldReplacement, CredentialInv, ReplyInv
    <3>3. C2(d) /\ C3(d)
      BY <1>1, <2>1, <3>1
    <3> QED
      BY <1>8, <2>1, <3>1, <3>2, <3>3
  <2>4. CASE ToldStored
    <3>1. agent.held # None /\ key # None
      BY <2>1, <2>4, HeldFacts DEF ToldStored, Outstanding
    <3>2. CASE reply.to.cred = agent.next
      <4>1. agent'.held = agent.next /\ agent'.next = None /\ agent'.req = agent.req
        BY <2>4, <3>2 DEF ToldStored, KeepsAllBut
      <4>2. \/ agent.next = unpromoted
            \/ key.secret = agent.next /\ (key.pending = None \/ ~key.live)
        BY <2>1, <2>4, <3>1, <3>2 DEF ToldStored, CredentialInv, ReplyInv
      <4>3. agent.next # unpromoted /\ d.op = "batch" /\ Alive(d.cred) =>
               d.cred = agent.next
        BY <2>1, <4>2 DEF Alive
      <4> QED
        BY <1>8, <2>1, <4>1, <4>2, <4>3
    <3>3. CASE reply.to.cred # agent.next
      BY <1>9, <2>1, <2>4, <3>3 DEF ToldStored, KeepsAllBut
    <3> QED
      BY <3>2, <3>3
  <2>5. CASE ToldOutdated
    <3>1. /\ agent.held # None /\ key # None /\ agent'.next = None
          /\ agent'.held = agent.held /\ agent'.req = agent.req
      BY <2>1, <2>5, HeldFacts DEF ToldOutdated, Outstanding, KeepsAllBut
    <3>2. ~Alive(agent.next)
      BY <2>1, <2>5, <3>1 DEF ToldOutdated, CredentialInv, ReplyInv
    <3>3. C2(d) /\ C3(d)
      BY <1>1, <2>1, <3>1
    <3> QED
      BY <1>8, <2>1, <3>1, <3>2, <3>3
  <2>6. CASE ToldUnpaired
    BY <2>6 DEF ToldUnpaired
  <2>7. CASE KeepsAllBut({})
    BY <1>9, <2>1, <2>7 DEF KeepsAllBut
  <2> QED
    BY <1>11, <2>2, <2>3, <2>4, <2>5, <2>6, <2>7, ToldFacts
<1>12. CASE AgentGivesUp
  <2>1. /\ UNCHANGED <<key, crossed, unpromoted>> /\ agent'.held = agent.held
        /\ agent'.next = agent.next /\ agent'.req = agent.req /\ Alike(calls', calls)
    BY <1>12, GivesUpFacts DEF KeepsAllBut
  <2> PICK c \in calls : /\ d.op = c.op
                         /\ c.op # "poll" => d.cred = c.cred
                         /\ c.op = "batch" => d.batch = c.batch
    BY <2>1 DEF Alike
  <2> QED
    BY <1>9, <2>1
<1>13. CASE SampleAges
  BY <1>9, <1>13, AgesFacts DEF KeepsAllBut
<1> QED
  BY <1>3, <1>4, <1>5, <1>6, <1>7, <1>10, <1>11, <1>12, <1>13, StepCases

LEMMA ReplyStep ==
    ASSUME TypeOK, TableInv, AgentInv, PairingInv, AckInv, CredentialInv, [Next]_vars
    PROVE  ReplyInv'
<1> DEFINE R1 == reply.to.op = "poll" /\ reply.status = "ok" => reply.cred # key.pending
           R2 == reply.to.op = "rotate" /\ reply.status = "ok" =>
                    /\ reply.cred # key.secret /\ agent.held # unpromoted
                    /\ \A c \in calls : c.op # "poll" => c.cred # reply.cred
           R3 == reply.to.op = "batch" /\ reply.to.cred = agent.next
                    /\ reply.status = "ok" =>
                       \/ agent.next = unpromoted
                       \/ key.secret = agent.next /\ (key.pending = None \/ ~key.live)
           R4 == reply.to.op = "batch" /\ reply.to.cred = agent.next
                    /\ reply.status = "unauthorized" => ~Alive(agent.next)
<1> SUFFICES ASSUME ~crossed', reply' # None, key' # None, ~key'.revoked
             PROVE  R1' /\ R2' /\ R3' /\ R4'
  BY DEF ReplyInv
<1>0. /\ issued \in Nat /\ None \notin Nat /\ calls \subseteq Call
      /\ key # None => /\ key.secret \in Nat /\ key.secret <= issued
                       /\ key.pending # None => key.pending \in Nat /\ key.pending <= issued
                       /\ key.secret # unpromoted /\ key.secret # key.pending
      /\ agent.held # None => agent.held \in Nat /\ agent.held <= issued
      /\ agent.next # None => agent.next \in Nat /\ agent.next <= issued
      /\ \A c \in calls : c.op # "poll" => c.cred \in Nat /\ c.cred <= issued
      /\ reply # None /\ reply.cred # None => reply.cred \in Nat /\ reply.cred <= issued
  BY IssuedFacts DEF CredentialInv
<1>1. ASSUME ~crossed, key # None, ~key.revoked, reply # None
      PROVE  R1 /\ R2 /\ R3 /\ R4
  BY <1>1 DEF CredentialInv, ReplyInv
<1>2. ASSUME reply # None
      PROVE  /\ reply.to = agent.waiting /\ Outstanding(agent.waiting) /\ reply \in Reply
             /\ reply.to.op \in {"rotate", "batch"} => agent.held # None /\ key # None
             /\ reply.to.op = "poll" => agent.req # 0 /\ agent.held = None
             /\ reply.to.op = "batch" => reply.to.cred \in Nat
             /\ reply.to.op \in {"poll", "rotate", "unpair", "batch"}
  <2>1. reply \in Reply /\ reply.to = agent.waiting /\ Outstanding(agent.waiting)
    BY <1>2 DEF AgentInv, TypeOK
  <2> QED
    BY <1>2, <2>1, CallFacts, ReplyFacts, HeldFacts DEF Outstanding
\* An answer that awaits the agent stays true.
<1>3. CASE Minor /\ reply' = reply
  <2>1. /\ ~crossed /\ agent' = agent /\ calls' \subseteq calls /\ key # None
        /\ key' = key \/ /\ key'.secret = key.secret /\ key'.pending = key.pending
                         /\ key'.live => key.live
                         /\ key.revoked => key'.revoked
        /\ \/ unpromoted' = unpromoted
           \/ agent.waiting.op = "batch" /\ unpromoted' = agent.waiting.cred
    BY <1>0, <1>3, KeyFacts DEF Minor, KeyWeaker
  <2>2. R1 /\ R2 /\ R3 /\ R4 /\ reply.to = agent.waiting
    BY <1>1, <1>2, <1>3, <2>1
  <2>3. R4'
    BY <1>3, <2>1, <2>2 DEF Alive
  <2> QED
    BY <1>3, <2>1, <2>2, <2>3
<1>4. ASSUME NEW c \in calls, PollApproved(c), reply' = reply
      PROVE  R1' /\ R2' /\ R3' /\ R4'
  <2>1. agent.held = None /\ (agent.req # 0 => ~Consumed(agent.req))
    BY <1>4, ApprovedFirst
  <2>2. reply.to.op \notin {"rotate", "batch"} /\ ~(reply.to.op = "poll" /\ reply.status = "ok")
    BY <1>2, <1>4, <2>1 DEF PairingInv
  <2> QED
    BY <1>4, <2>2
<1>5. ASSUME NEW c \in calls, PollConsumed(c), reply' = reply
      PROVE  R1' /\ R2' /\ R3' /\ R4'
  <2>1. /\ ~crossed /\ agent' = agent /\ calls' \subseteq calls /\ key # None
        /\ ~key.revoked /\ key'.secret = issued + 1 /\ key'.pending = key.pending
        /\ key'.live = key.live /\ key'.revoked = key.revoked
        /\ unpromoted' = unpromoted /\ key.last = 0
    BY <1>5, ConsumedFacts, KeyFacts DEF Issues
  <2>2. R1 /\ R2 /\ R3 /\ R4
    BY <1>1, <1>5, <2>1
  <2>3. ~(reply.to.op = "batch" /\ reply.status = "ok")
    <3>1. agent.acked \in Nat
      BY AgentFacts
    <3> QED
      BY <1>5, <2>1, <3>1 DEF AckInv
  <2>4. reply.to.op = "rotate" /\ reply.status = "ok" => reply.cred # issued + 1
    BY <1>0, <1>5
  <2>5. agent.next # issued + 1
    BY <1>0
  <2>6. R4'
    BY <1>5, <2>1, <2>2, <2>5 DEF Alive
  <2> QED
    BY <1>5, <2>1, <2>2, <2>3, <2>4, <2>6
<1>6. ASSUME NEW c \in calls, Rotate(c), reply' = reply
      PROVE  R1' /\ R2' /\ R3' /\ R4'
  <2>1. /\ ~crossed /\ agent' = agent /\ calls' \subseteq calls /\ key # None
        /\ ~key.revoked /\ key'.secret = key.secret /\ key'.pending = issued + 1
        /\ key'.revoked = key.revoked /\ unpromoted' = unpromoted
        /\ c.op = "rotate" /\ c.cred = key.secret
    BY <1>6, RotateFacts, KeyFacts DEF Issues
  <2>2. R1 /\ R2 /\ R3 /\ R4
    BY <1>1, <1>6, <2>1
  <2>3. reply.to.op = "batch" => agent.next # key.secret
    BY <1>2, <1>6, <2>1 DEF CredentialInv, CallInv
  <2>4. agent.next # issued + 1 /\ reply.cred # issued + 1
    BY <1>0, <1>6
  <2>5. R4'
    BY <1>6, <2>1, <2>2, <2>4 DEF Alive
  <2> QED
    BY <1>6, <2>1, <2>2, <2>3, <2>4, <2>5
<1>7. ASSUME NEW c \in calls, BatchStored(c)
      PROVE  R1' /\ R2' /\ R3' /\ R4'
  <2>1. /\ agent' = agent /\ ~key.revoked /\ c.op = "batch" /\ key # None
        /\ Alive(c.cred) /\ calls' \subseteq calls /\ ~crossed
        /\ \/ /\ c.cred = key.secret /\ key'.secret = key.secret
              /\ key'.pending = key.pending /\ key'.live = key.live
           \/ /\ c.cred = key.pending /\ key.live
              /\ key'.secret = c.cred /\ key'.pending = None /\ ~key'.live
        /\ unpromoted' = IF unpromoted = c.cred THEN None ELSE unpromoted
        /\ \/ reply' = reply
           \/ /\ reply'.to = c /\ agent.waiting = c /\ reply'.status \in {"ok", "refused"}
    BY <1>7, StoredFacts, KeyFacts
  <2>2. c.cred \in Nat /\ c.cred # None /\ c # None
    BY <1>0, <2>1, NoneAssumption
  <2>3. CASE reply' = reply
    <3>1. R1 /\ R2 /\ R3 /\ R4
      BY <1>1, <2>1, <2>3
    <3>2. ~(reply.to.op = "poll" /\ reply.status = "ok")
      <4> SUFFICES ASSUME reply.to.op = "poll", reply.status = "ok" PROVE FALSE
        OBVIOUS
      <4>1. agent.req # 0 /\ agent.held = None /\ Consumed(agent.req)
        BY <1>2, <2>3 DEF PairingInv
      <4> QED
        BY <1>7, <4>1, StoredCurrent
    <3>3. R2'
      <4>1. reply.to.op = "rotate" => agent.held # None
        BY <1>2, <2>3
      <4> QED
        BY <2>1, <2>3, <3>1, <4>1
    <3>4. R3'
      <4>1. reply.to.op = "batch" /\ reply.to.cred = agent.next => agent.next \in Nat
        BY <1>2, <2>3
      <4> QED
        BY <1>0, <2>1, <2>2, <2>3, <3>1, <4>1
    <3>5. R4'
      BY <2>1, <2>2, <2>3, <3>1 DEF Alive
    <3> QED
      BY <2>3, <3>2, <3>3, <3>4, <3>5
  <2>4. CASE reply'.to = c /\ agent.waiting = c /\ reply'.status \in {"ok", "refused"}
    <3>1. agent.held # None
      BY <2>1, <2>2, <2>4 DEF AgentInv, Outstanding
    <3>2. agent.next = key.secret => key.pending = None \/ ~key.live
      BY <2>1, <3>1 DEF CredentialInv, HeldInv
    <3> QED
      BY <2>1, <2>4, <3>2
  <2> QED
    BY <2>1, <2>3, <2>4
\* A new answer.
<1>8. CASE Minor /\ reply' # reply
  <2>1. /\ ~crossed /\ agent' = agent
        /\ key' = key \/ /\ key'.secret = key.secret /\ key'.pending = key.pending
                         /\ key'.live => key.live
                         /\ key.revoked => key'.revoked
        /\ reply' \in Reply /\ agent.waiting \in calls /\ reply'.to = agent.waiting
        /\ reply'.to.op \in {"poll", "rotate"} => reply'.status # "ok"
        /\ reply'.to.op = "batch" /\ reply'.status = "ok" =>
              reply'.to.cred \in {key.secret, unpromoted'}
        /\ reply'.to.op = "batch" /\ reply'.status = "unauthorized" =>
              key = None \/ ~Alive(reply'.to.cred)
    BY <1>8 DEF Minor, KeyWeaker
  <2>2. reply'.to.op = "batch" => agent.held # None /\ key # None
    <3>1. agent.waiting # None
      BY <1>0, <2>1, NoneAssumption
    <3> QED
      BY <2>1, <3>1, HeldFacts DEF AgentInv, Outstanding
  <2>3. ~key.revoked
    BY <2>1
  <2>4. reply'.to.op = "batch" =>
           (agent.next = key.secret => key.pending = None \/ ~key.live)
    BY <2>1, <2>2, <2>3 DEF CredentialInv, HeldInv
  <2>5. R3'
    BY <2>1, <2>2, <2>4
  <2>6. R4'
    BY <2>1, <2>2 DEF Alive
  <2> QED
    BY <2>1, <2>5, <2>6
<1>9. ASSUME NEW c \in calls, PollApproved(c) \/ PollConsumed(c), reply' # reply
      PROVE  R1' /\ R2' /\ R3' /\ R4'
  <2>1. /\ c.op = "poll" /\ Issues(c)
        /\ key'.pending = None \/ (key # None /\ key'.pending = key.pending)
    BY <1>9, ApprovedFacts, ConsumedFacts, KeyFacts
  <2>2. reply'.to = c /\ reply'.cred = issued + 1
    BY <1>9, <2>1 DEF Issues
  <2>3. issued + 1 # key'.pending
    BY <1>0, <2>1
  <2> QED
    BY <2>1, <2>2, <2>3
<1>10. ASSUME NEW c \in calls, Rotate(c), reply' # reply
      PROVE  R1' /\ R2' /\ R3' /\ R4'
  <2>1. /\ c.op = "rotate" /\ Issues(c) /\ key'.secret = key.secret /\ c \in Call
        /\ c.cred = key.secret /\ unpromoted' = unpromoted /\ key # None
    BY <1>10, RotateFacts, KeyFacts
  <2>2. /\ reply'.to = c /\ agent.waiting = c /\ reply'.cred = issued + 1
        /\ agent' = agent /\ calls' \subseteq calls
    BY <1>10, <2>1 DEF Issues
  <2>3. c.cred = agent.held
    BY <2>1, <2>2, NoneAssumption DEF AgentInv, Outstanding
  <2>4. /\ issued + 1 # key.secret
        /\ \A d \in calls : d.op # "poll" => d.cred # issued + 1
    BY <1>0, <2>1
  <2> QED
    BY <1>0, <2>1, <2>2, <2>3, <2>4
<1>11. CASE SampleAges
  <2>1. /\ UNCHANGED <<key, crossed, unpromoted, reply, calls>>
        /\ agent'.held = agent.held /\ agent'.next = agent.next
    BY <1>11, AgesFacts DEF KeepsAllBut
  <2>2. R1 /\ R2 /\ R3 /\ R4
    BY <1>1, <2>1
  <2>3. R4'
    BY <2>1, <2>2 DEF Alive
  <2> QED
    BY <2>1, <2>2, <2>3
<1>12. CASE \/ \E i \in RequestId : Create(i)
            \/ \E c : Makes(c) /\ Outstanding(c)
            \/ AgentIsTold \/ AgentGivesUp
  BY <1>12, CreateFacts, ToldFacts, GivesUpFacts DEF Makes
<1> QED
  BY <1>3, <1>4, <1>5, <1>6, <1>7, <1>8, <1>9, <1>10, <1>11, <1>12, StepCases

LEMMA InitInv ==
    Init => PairingInv /\ StoredInv /\ BatchInv /\ AckInv /\ CredentialInv
<1> SUFFICES ASSUME Init
             PROVE  PairingInv /\ StoredInv /\ BatchInv /\ AckInv /\ CredentialInv
  OBVIOUS
<1>1. /\ agent.req = 0 /\ agent.held = None /\ agent.next = None
      /\ key = None /\ calls = {} /\ reply = None /\ unpromoted = None
      /\ requests = [i \in RequestId |-> None]
  BY UnpairedFacts DEF Init
<1>2. PairingInv
  BY <1>1, NoneAssumption DEF PairingInv, Consumed, Request
<1>3. StoredInv /\ BatchInv /\ AckInv
  BY <1>1 DEF StoredInv, BatchInv, AckInv
<1>4. CredentialInv
  BY <1>1 DEF CredentialInv, IssuedInv, FreshInv, HeldInv, CallInv, ReplyInv
<1> QED
  BY <1>2, <1>3, <1>4

\* The tables of the pairing service stay well formed, and the agent waits
\* only for what it has asked, whatever agents retry and whenever they pair
\* again (Service.Create, Poll, Rotate, AcceptBatch).
THEOREM TypeCorrect == Spec => [](TypeOK /\ TableInv /\ AgentInv)
<1>1. Init => TypeOK /\ TableInv /\ AgentInv
  BY InitType
<1>2. TypeOK /\ TableInv /\ AgentInv /\ [Next]_vars => (TypeOK /\ TableInv /\ AgentInv)'
  BY TypeStep, TableStep, AgentStep
<1> QED
  BY <1>1, <1>2, PTL DEF Spec

\* Whatever agents retry and whenever they pair again, the stored sequences
\* are contiguous; and as long as no batch or poll of an earlier pairing was
\* honoured after a later one, they are the samples of one pairing, each once
\* and in order (AcceptBatch, Poll).
THEOREM PrefixTheorem == Spec => []StoredIsPrefix
<1>1. Init => PairingInv /\ StoredInv
  BY InitInv
<1>2. TypeOK /\ TableInv /\ AgentInv /\ PairingInv /\ StoredInv /\ [Next]_vars
      => PairingInv' /\ StoredInv'
  BY PairingStep, StoredStep
<1>3. TypeOK /\ StoredInv => StoredIsPrefix
  <2> SUFFICES ASSUME TypeOK, StoredInv, key # None
               PROVE  /\ [n \in DOMAIN stored |-> stored[n][2]] = [n \in 1..key.last |-> n]
                      /\ ~crossed => \E g \in RequestId :
                                        stored = [n \in 1..key.last |-> <<g, n>>]
    BY DEF StoredIsPrefix
  <2>1. /\ stored = [n \in 1..key.last |-> stored[n]] /\ DOMAIN stored = 1..key.last
        /\ \A n \in 1..key.last : stored[n][2] = n
    BY DEF TypeOK, StoredInv
  <2>2. [n \in DOMAIN stored |-> stored[n][2]] = [n \in 1..key.last |-> n]
    BY <2>1
  <2>3. ASSUME ~crossed
        PROVE  \E g \in RequestId : stored = [n \in 1..key.last |-> <<g, n>>]
    <3> PICK g \in RequestId : \A n \in 1..key.last : stored[n] = <<g, n>>
      BY <2>3 DEF StoredInv
    <3>1. stored = [n \in 1..key.last |-> <<g, n>>]
      BY <2>1
    <3> QED
      BY <3>1
  <2> QED
    BY <2>2, <2>3
<1> QED
  BY <1>1, <1>2, <1>3, TypeCorrect, PTL DEF Spec

\* No acknowledged sample is missing from the store, lost answers and answers
\* to repeated batches included, while the agent is not revoked and nothing of
\* an earlier pairing was honoured after its own (AcceptBatch,
\* handleCollectorBatch, Poll).
THEOREM AcknowledgedTheorem == Spec => []AcknowledgedIsStored
<1>1. Init => PairingInv /\ StoredInv /\ BatchInv /\ AckInv
  BY InitInv
<1>2. /\ TypeOK /\ TableInv /\ AgentInv /\ PairingInv /\ StoredInv /\ BatchInv
      /\ AckInv /\ [Next]_vars
      => PairingInv' /\ StoredInv' /\ BatchInv' /\ AckInv'
  BY PairingStep, StoredStep, BatchStep, AckStep
<1>3. TypeOK /\ AgentInv /\ PairingInv /\ StoredInv /\ AckInv => AcknowledgedIsStored
  <2> SUFFICES ASSUME TypeOK, AgentInv, PairingInv, StoredInv, AckInv, key # None,
                      agent.held # None, ~crossed, NEW n \in 1..agent.acked
               PROVE  <<agent.req, n>> \in {stored[i] : i \in DOMAIN stored}
    BY DEF AcknowledgedIsStored
  <2>1. n \in 1..key.last /\ key.last \in Nat
    BY AgentFacts, KeyFacts DEF AckInv, TypeOK
  <2> PICK g \in RequestId : Current(g) /\ \A m \in 1..key.last : stored[m] = <<g, m>>
    BY DEF StoredInv
  <2>2. g = agent.req
    BY HeldFacts, CurrentUnique
  <2>3. stored[n] = <<agent.req, n>>
    BY <2>1, <2>2
  <2>4. DOMAIN stored = 1..key.last
    BY DEF TypeOK, StoredInv
  <2> QED
    BY <2>1, <2>3, <2>4
<1> QED
  BY <1>1, <1>2, <1>3, TypeCorrect, PTL DEF Spec

\* No sequence of lost answers, late calls, expirations and new pairings leaves
\* an agent in use without a credential the server accepts, but for the two
\* cases the code has: a call of an earlier pairing was honoured after a later
\* one, or a batch repeated with the replacement was acknowledged without its
\* promotion (Rotate, promotePending, Poll, AcceptBatch).
THEOREM BrickedTheorem == Spec => []NeverBricked
<1> DEFINE Inv == PairingInv /\ StoredInv /\ BatchInv /\ AckInv /\ CredentialInv
<1>1. Init => Inv
  BY InitInv
<1>2. TypeOK /\ TableInv /\ AgentInv /\ Inv /\ [Next]_vars => Inv'
  <2> SUFFICES ASSUME TypeOK, TableInv, AgentInv, Inv, [Next]_vars PROVE Inv'
    OBVIOUS
  <2>1. CredentialInv'
    BY IssuedStep, FreshStep, HeldStep, CallStep, ReplyStep DEF CredentialInv
  <2> QED
    BY <2>1, PairingStep, StoredStep, BatchStep, AckStep
<1>3. Inv => NeverBricked
  BY DEF CredentialInv, HeldInv, NeverBricked
<1> QED
  BY <1>1, <1>2, <1>3, TypeCorrect, PTL DEF Spec

============================================================================
