-------------------------- MODULE AgentConnection --------------------------
(***************************************************************************)
(* The connection of one installed agent: pairing, credential rotation and *)
(* unpairing (internal/agentpairing/pairing.go), and the telemetry it      *)
(* sends (internal/ingest/ingest.go, handleCollectorBatch).                *)
(*                                                                         *)
(* Every server operation is one transaction. The agent is a program of    *)
(* its own, modelled from the protocol the server offers it: it has one    *)
(* call outstanding, gives up on it at any time (a timeout or a crash), and *)
(* tries again. The server may handle a call long after that, when the     *)
(* agent has been reset and has asked for a new pairing.                   *)
(*                                                                         *)
(* A batch holds one sample. The n-th sample of the g-th pairing is        *)
(* <<g, n>>, has sequence n, and is also the batch's ID.                   *)
(***************************************************************************)
EXTENDS Integers, Sequences, FiniteSets

CONSTANTS RateLimit,      \* samples per minute (in the code 0 is no limit)
          MaxRequest,     \* bound: pairing requests
          MaxCredential,  \* bound: credentials issued
          MaxSample,      \* bound: samples per pairing
          MaxCall,        \* bound: calls in flight
          None            \* no credential, no row, no call

ASSUME BoundsAssumption ==
    /\ RateLimit \in Nat \ {0} /\ MaxRequest \in Nat /\ MaxCredential \in Nat
    /\ MaxSample \in Nat /\ MaxCall \in Nat

RequestId  == 1..MaxRequest
Credential == 1..MaxCredential
Sample     == RequestId \X (1..MaxSample)

\* The state of a row of agent_pairing_requests. Whether expires_at has passed
\* is a choice each time it is asked, which allows more than a clock would.
Request == {"pending", "approved", "rejected", "consumed"}

\* The row of collector_keys; live: pending_expires_at lies ahead.
Key == [secret : Credential, pending : Credential \cup {None},
        live : BOOLEAN, revoked : BOOLEAN, last : Nat, seen : BOOLEAN,
        batch : Sample \cup {None}]

\* late: the agent has given up on it, and may have made the call again.
Call == [op : {"poll"}, req : RequestId, late : BOOLEAN]
        \cup [op : {"rotate", "unpair"}, cred : Credential, late : BOOLEAN]
        \cup [op : {"batch"}, cred : Credential, batch : Sample, late : BOOLEAN]

\* status: success, bad credential (401), or refused for another reason.
Reply == [to : Call, status : {"ok", "unauthorized", "refused"},
          cred : Credential \cup {None}]

ASSUME NoneAssumption ==
    /\ None # "active" /\ None \notin Nat /\ None \notin Sample
    /\ None \notin Request /\ None \notin Key /\ None \notin Call

VARIABLES requests,    \* the agent_pairing_requests table
          connection,  \* agent_connections: None, "active" or "revoked"
          key,         \* the row of collector_keys
          stored,      \* the agent's observations, in insertion order
          rate,        \* samples counted in the current minute
          issued,      \* number of credentials issued so far
          agent,       \* what the agent knows
          calls,       \* calls the server has not handled
          reply,       \* the answer to the outstanding call, or None
          crossed,     \* history: since the last pairing, a call of an earlier
                       \* one was honoured
          unpromoted   \* history: a replacement that was acknowledged to the
                       \* agent and not made the credential, or None

server == <<requests, connection, key, stored, rate, issued>>
history == <<crossed, unpromoted>>
vars == <<server, agent, calls, reply, history>>

\* req: the pairing request it polls; held, next: its credential and the
\* replacement; acked: samples acknowledged; aged: is the next sample too old
\* for the server; waiting: the outstanding call.
Agent == [req : RequestId \cup {0}, held : Credential \cup {None},
          next : Credential \cup {None}, acked : 0..MaxSample,
          aged : BOOLEAN, waiting : Call \cup {None}]

Unpaired == [req |-> 0, held |-> None, next |-> None, acked |-> 0,
             aged |-> FALSE, waiting |-> None]

TypeOK ==
    /\ requests \in [RequestId -> Request \cup {None}]
    /\ connection \in {None, "active", "revoked"}
    /\ key \in Key \cup {None}
    /\ stored \in Seq(Sample)
    /\ rate \in 0..RateLimit
    /\ issued \in 0..MaxCredential
    /\ agent \in Agent
    /\ calls \subseteq Call
    /\ reply \in Reply \cup {None}
    /\ crossed \in BOOLEAN /\ unpromoted \in Credential \cup {None}

Init ==
    /\ requests = [i \in RequestId |-> None]
    /\ connection = None /\ key = None /\ stored = <<>>
    /\ rate = 0 /\ issued = 0
    /\ agent = Unpaired /\ calls = {} /\ reply = None
    /\ crossed = FALSE /\ unpromoted = None

----------------------------------------------------------------------------
(* Pairing requests                                                        *)

\* Nobody waits for the outstanding call any more. Of two late calls that are
\* alike one is kept.
Abandoned == {[c EXCEPT !.late = @ \/ c = agent.waiting] : c \in calls}

\* Service.Create. An agent asks for a pairing while it has none, or after it
\* was reset locally; it knows the request it has made. What it sent before
\* may still be on its way, and its credentials still valid.
Create(i) ==
    /\ requests[i] = None /\ \A j \in 1..(i - 1) : requests[j] # None
    /\ requests' = [requests EXCEPT ![i] = "pending"]
    /\ agent' = [Unpaired EXCEPT !.req = i]
    /\ calls' = Abandoned /\ reply' = None /\ unpromoted' = None
    /\ UNCHANGED <<connection, key, stored, rate, issued, crossed>>

\* Service.Decide: an operator approves or rejects.
Decide(i) ==
    /\ requests[i] = "pending"
    /\ \E s \in {"approved", "rejected"} : requests' = [requests EXCEPT ![i] = s]
    /\ UNCHANGED <<connection, key, stored, rate, issued, agent, calls, reply,
                   history>>

\* Service.Revoke, by an administrator.
Revoke ==
    /\ connection = "active"
    /\ connection' = "revoked"
    /\ key' = [key EXCEPT !.revoked = TRUE]
    /\ UNCHANGED <<requests, stored, rate, issued, agent, calls, reply, history>>

\* The lifetime of an unconfirmed replacement ends.
ExpirePending ==
    /\ key # None /\ key.pending # None /\ key.live
    /\ key' = [key EXCEPT !.live = FALSE]
    /\ UNCHANGED <<requests, connection, stored, rate, issued, agent, calls,
                   reply, history>>

\* A new rate window begins.
NewMinute ==
    /\ rate > 0
    /\ rate' = 0
    /\ UNCHANGED <<requests, connection, key, stored, issued, agent, calls,
                   reply, history>>

----------------------------------------------------------------------------
(* The server handles a call, and answers it if the agent still waits.     *)

Handled(c, status, cred) ==
    /\ c \in calls
    /\ calls' = calls \ {c}
    /\ reply' = IF agent.waiting = c
                THEN [to |-> c, status |-> status, cred |-> cred] ELSE reply
    /\ UNCHANGED agent

NextCredential == issued + 1

\* Has a request after g been consumed?
Superseded(g) ==
    \E h \in RequestId :
        h > g /\ requests[h] = "consumed"

\* The key row after Service.Poll consumes an approved request: what it does
\* not mention it keeps.
PairedKey ==
    IF key = None
    THEN [secret |-> NextCredential, pending |-> None, live |-> FALSE,
          revoked |-> FALSE, last |-> 0, seen |-> FALSE, batch |-> None]
    ELSE [key EXCEPT !.secret = NextCredential, !.revoked = FALSE,
                     !.last = 0, !.seen = FALSE]

PollApproved(c) ==
    /\ c.op = "poll"
    /\ requests[c.req] = "approved"
    /\ NextCredential \in Credential
    /\ connection' = "active"
    /\ stored' = <<>>
    /\ key' = PairedKey
    /\ issued' = NextCredential
    /\ requests' = [requests EXCEPT ![c.req] = "consumed"]
    /\ Handled(c, "ok", NextCredential)
    /\ crossed' = Superseded(c.req)
    /\ UNCHANGED <<rate, unpromoted>>

\* reissueUnused: the key has neither been seen nor has it stored anything.
Unused == ~key.seen /\ key.last = 0

PollConsumed(c) ==
    /\ c.op = "poll"
    /\ requests[c.req] = "consumed"
    /\ key # None /\ Unused
    /\ NextCredential \in Credential
    /\ key' = [key EXCEPT !.secret = NextCredential, !.last = 0, !.seen = FALSE]
    /\ issued' = NextCredential
    /\ Handled(c, "ok", NextCredential)
    /\ crossed' = (crossed \/ Superseded(c.req))
    /\ UNCHANGED <<requests, connection, stored, rate, unpromoted>>

\* The request is pending or rejected, or its credential is in use, or it has
\* expired, whatever its state.
PollRefused(c) ==
    /\ c.op = "poll"
    /\ Handled(c, "refused", None)
    /\ UNCHANGED <<server, history>>

IsActive(c)  == key # None /\ ~key.revoked /\ key.secret = c.cred
IsPending(c) == key # None /\ ~key.revoked /\ key.pending = c.cred /\ key.live

\* Defect: rotation replaces the credential in one step.
RotateAtOnce == [key EXCEPT !.secret = NextCredential]

RotatedKey == [key EXCEPT !.pending = NextCredential, !.live = TRUE]

Rotate(c) ==
    /\ c.op = "rotate" /\ IsActive(c)
    /\ NextCredential \in Credential
    /\ key' = RotatedKey
    /\ issued' = NextCredential
    /\ Handled(c, "ok", NextCredential)
    /\ UNCHANGED <<requests, connection, stored, rate, history>>

Unpair(c) ==
    /\ c.op = "unpair" /\ IsActive(c)
    /\ connection' = IF connection = "active" THEN "revoked" ELSE connection
    /\ key' = [key EXCEPT !.revoked = TRUE]
    /\ Handled(c, "ok", None)
    /\ UNCHANGED <<requests, stored, rate, issued, history>>

\* Rotate and Unpair with another credential, or with a revoked one.
CredentialRejected(c) ==
    /\ c.op \in {"rotate", "unpair"} /\ ~IsActive(c)
    /\ Handled(c, "unauthorized", None)
    /\ UNCHANGED <<server, history>>

----------------------------------------------------------------------------
(* Service.AcceptBatch, after handleCollectorBatch has authenticated.      *)

Sequence(c) == c.batch[2]

\* The sample the agent has to deliver next.
Oldest == <<agent.req, agent.acked + 1>>

\* It may be, or is not, observed more than 24 hours ago. Samples before the
\* oldest one are in calls that are late.
MayBeTooOld(c) == c.batch = Oldest => agent.aged
MayBeRecent(c) == c.batch = Oldest => ~agent.aged

\* Defect: a batch is stored again when its acknowledgement was lost.
NoReplay(c) == FALSE

\* Defect: batch IDs that a new pairing uses again.
ReplayedBySequence(c) == key.batch # None /\ key.batch[2] = Sequence(c)

\* The last batch is acknowledged again and nothing else happens.
Replayed(c) == key.batch = c.batch

\* A replacement that was sent with it stays what it was.
BatchReplayed(c) ==
    /\ c.op = "batch" /\ (IsActive(c) \/ IsPending(c)) /\ MayBeRecent(c)
    /\ Replayed(c)
    /\ Handled(c, "ok", None)
    /\ unpromoted' = IF IsPending(c) /\ c = agent.waiting THEN c.cred
                     ELSE unpromoted
    /\ UNCHANGED <<server, crossed>>

\* Service.allow, in the current minute.
WithinRate == rate < RateLimit

\* Defect: a sample that came before is stored again.
NoGap(c) == Sequence(c) <= key.last + 1

Contiguous(c) == Sequence(c) = key.last + 1

\* A batch sent with the replacement makes it the credential.
StoredKey(c) ==
    LET k == [key EXCEPT !.last = Sequence(c), !.seen = TRUE, !.batch = c.batch]
    IN  IF IsPending(c)
        THEN [k EXCEPT !.secret = c.cred, !.pending = None, !.live = FALSE]
        ELSE k

\* The rules are evaluated after the commit, and may fail: then the answer
\* to a batch that is stored is an error.
BatchStored(c) ==
    /\ c.op = "batch" /\ (IsActive(c) \/ IsPending(c)) /\ ~Replayed(c)
    /\ MayBeRecent(c) /\ WithinRate /\ Contiguous(c)
    /\ rate' = rate + 1
    /\ stored' = Append(stored, c.batch)
    /\ key' = StoredKey(c)
    /\ \E status \in {"ok", "refused"} : Handled(c, status, None)
    /\ crossed' = (crossed \/ Superseded(c.batch[1]))
    /\ unpromoted' = IF unpromoted = c.cred THEN None ELSE unpromoted
    /\ UNCHANGED <<requests, connection, issued>>

\* Authenticate rejects the credential.
BatchUnauthorized(c) ==
    /\ c.op = "batch" /\ ~IsActive(c) /\ ~IsPending(c) /\ MayBeRecent(c)
    /\ Handled(c, "unauthorized", None)
    /\ UNCHANGED <<server, history>>

\* Batch.Validate finds a sample too old, whatever the credential; the rate is
\* exceeded; the sequence is wrong, or the sample became too old since Validate,
\* and that counts for the rate although the transaction is rolled back; or the
\* credential stopped to be valid between Authenticate and the transaction.
BatchRefused(c) ==
    /\ c.op = "batch"
    /\ LET valid == (IsActive(c) \/ IsPending(c)) IN
       \/ MayBeTooOld(c) /\ UNCHANGED rate
       \/ valid /\ ~Replayed(c) /\ ~WithinRate /\ UNCHANGED rate
       \/ valid /\ ~Replayed(c) /\ WithinRate /\ (~Contiguous(c) \/ MayBeTooOld(c))
          /\ rate' = rate + 1
       \/ ~valid /\ UNCHANGED rate
    /\ Handled(c, "refused", None)
    /\ UNCHANGED <<requests, connection, key, stored, issued, history>>

\* A call never arrives, or the server has no storage left (guardStorage).
CallLost(c) ==
    /\ c \in calls
    /\ calls' = calls \ {c}
    /\ UNCHANGED <<server, agent, reply, history>>

----------------------------------------------------------------------------
(* The agent                                                               *)

CallServer(c) ==
    /\ agent.waiting = None /\ reply = None
    /\ Cardinality(calls) < MaxCall
    /\ calls' = calls \cup {c}
    /\ UNCHANGED <<server, reply, history>>

AgentPolls ==
    LET c == [op |-> "poll", req |-> agent.req, late |-> FALSE] IN
    /\ agent.req # 0 /\ agent.held = None
    /\ CallServer(c)
    /\ agent' = [agent EXCEPT !.waiting = c]

AgentRotates ==
    LET c == [op |-> "rotate", cred |-> agent.held, late |-> FALSE] IN
    /\ agent.held # None /\ agent.next = None
    /\ CallServer(c)
    /\ agent' = [agent EXCEPT !.waiting = c]

AgentUnpairs ==
    LET c == [op |-> "unpair", cred |-> agent.held, late |-> FALSE] IN
    /\ agent.held # None
    /\ CallServer(c)
    /\ agent' = [agent EXCEPT !.waiting = c]

\* The agent delivers its oldest sample that was not acknowledged, with its
\* credential or with the replacement, also when it has sent it before.
AgentSends(cred) ==
    LET c == [op |-> "batch", cred |-> cred, batch |-> Oldest, late |-> FALSE]
    IN  /\ cred # None /\ agent.acked < MaxSample
        /\ CallServer(c)
        /\ agent' = [agent EXCEPT !.waiting = c]

\* 24 hours pass since the oldest sample was taken.
SampleAges ==
    /\ agent.held # None /\ agent.acked < MaxSample /\ ~agent.aged
    /\ agent' = [agent EXCEPT !.aged = TRUE]
    /\ UNCHANGED <<server, calls, reply, history>>

\* What the agent knows after the answer to its call. It holds on to the old
\* credential until a batch with the replacement is acknowledged.
Told(r) ==
    LET a == [agent EXCEPT !.waiting = None]
        acknowledged == [a EXCEPT !.acked = @ + 1, !.aged = FALSE]
        ok == r.status = "ok"
    IN  CASE r.to.op = "poll" /\ ok   -> [a EXCEPT !.held = r.cred]
          [] r.to.op = "rotate" /\ ok -> [a EXCEPT !.next = r.cred]
          [] r.to.op = "unpair" /\ ok -> Unpaired
          [] r.to.op = "batch" /\ ok  ->
                IF r.to.cred = a.next
                THEN [acknowledged EXCEPT !.held = a.next, !.next = None]
                ELSE acknowledged
          [] r.to.op = "batch" /\ r.status = "unauthorized"
               /\ r.to.cred = a.next  -> [a EXCEPT !.next = None]
          [] OTHER -> a

AgentIsTold ==
    /\ reply # None
    /\ agent' = Told(reply)
    /\ reply' = None
    /\ UNCHANGED <<server, calls, history>>

\* The agent gives up: the call or its answer may still be on the way, and
\* what it was told and did not write down is lost.
AgentGivesUp ==
    /\ agent.waiting # None
    /\ agent' = [agent EXCEPT !.waiting = None]
    /\ calls' = Abandoned /\ reply' = None
    /\ UNCHANGED <<server, history>>

----------------------------------------------------------------------------
Handle(c) ==
    \/ PollApproved(c) \/ PollConsumed(c) \/ PollRefused(c)
    \/ Rotate(c) \/ Unpair(c) \/ CredentialRejected(c)
    \/ BatchReplayed(c) \/ BatchStored(c)
    \/ BatchUnauthorized(c) \/ BatchRefused(c)

Next ==
    \/ \E i \in RequestId : Create(i) \/ Decide(i)
    \/ Revoke \/ ExpirePending \/ NewMinute
    \/ \E c \in calls : Handle(c) \/ CallLost(c)
    \/ AgentPolls \/ AgentRotates \/ AgentUnpairs
    \/ AgentSends(agent.held) \/ AgentSends(agent.next)
    \/ SampleAges \/ AgentIsTold \/ AgentGivesUp

Spec == Init /\ [][Next]_vars

\* The agent prefers the replacement if it has one.
Preferred == IF agent.next # None THEN agent.next ELSE agent.held

\* The server answers the batch the agent waits for, with success or with a
\* bad credential; the agent is told of such an answer.
AnswerAwaited ==
    /\ agent.waiting \in calls
    /\ agent.waiting.op = "batch" /\ agent.waiting.cred = Preferred
    /\ \/ BatchStored(agent.waiting) \/ BatchReplayed(agent.waiting)
       \/ BatchUnauthorized(agent.waiting)
HearAnswer ==
    /\ reply # None /\ reply.to.op = "batch" /\ reply.status # "refused"
    /\ reply.to.cred = Preferred
    /\ AgentIsTold

\* Calls end and minutes pass; an agent keeps sending, and of the calls that
\* could succeed not all are lost, nor all of their answers.
FairSpec ==
    /\ Spec
    /\ WF_vars(\E c \in calls : Handle(c) \/ CallLost(c))
    /\ WF_vars(\E c \in calls : c.op = "batch" /\ (Handle(c) \/ CallLost(c)))
    /\ WF_vars(NewMinute) /\ WF_vars(AgentGivesUp)
    /\ SF_vars(AgentSends(Preferred)) /\ SF_vars(AnswerAwaited) /\ SF_vars(HearAnswer)

----------------------------------------------------------------------------
(* Properties *)

\* What is stored has the sequences that the key counts, each once and in
\* order, however calls are delayed, repeated and mixed with a new pairing
\* (AcceptBatch, Poll); and it is what one pairing of the agent produced, unless
\* a batch or poll of an earlier pairing was honoured after a later one was
\* consumed: Poll keeps an unexpired replacement of the earlier pairing.
StoredIsPrefix ==
    key # None =>
    /\ [n \in DOMAIN stored |-> stored[n][2]] = [n \in 1..key.last |-> n]
    /\ crossed \/ \E g \in RequestId : stored = [n \in 1..key.last |-> <<g, n>>]

\* Once the connection is in use the agent holds a credential that the server
\* accepts, whatever answers it has lost and whenever a late poll or rotation
\* arrives (Rotate, promotePending, Poll). docs/monitoring-contracts.md:122 says
\* so without the two exceptions, which the code has: a call of an earlier
\* pairing was honoured after a later one, or the agent repeated a batch with
\* the replacement, was told that it is stored and took that for the
\* confirmation, while AcceptBatch acknowledges a repeated batch before it
\* promotes the replacement.
NeverBricked ==
    (key # None /\ ~key.revoked /\ key.seen /\ agent.held # None
     /\ ~crossed /\ agent.held # unpromoted)
    => \E cred \in {agent.held, agent.next} :
          cred = key.secret \/ (cred = key.pending /\ key.live)

\* Every sample that was acknowledged to the agent is stored, unless the
\* agent has been revoked, or a poll or batch of an earlier pairing was honoured
\* after this one: an approved poll deletes what is stored (AcceptBatch,
\* handleCollectorBatch, Poll).
AcknowledgedIsStored ==
    (key # None /\ ~key.revoked /\ agent.held # None /\ ~crossed)
    => \A n \in 1..agent.acked : <<agent.req, n>> \in {stored[i] : i \in DOMAIN stored}

\* Does the agent have the key's credential, and a sample that is not too old?
Working == /\ key # None /\ ~key.revoked
           /\ key.secret \in {agent.held, agent.next}
           /\ ~agent.aged

\* If from some time on the connection works, the agent gets every sample
\* through, lost acknowledgements and exhausted rate windows notwithstanding
\* (AcceptBatch, allow, handleCollectorBatch).
SamplesGetThrough == <>[]Working => <>(agent.acked = MaxSample)

----------------------------------------------------------------------------
(* The invariants from which these follow for every instance.              *)

Consumed(g) == requests[g] = "consumed"

\* Tables that go together, and calls that name a request that exists.
TableInv ==
    /\ connection = "active" => key # None
    /\ agent.req # 0 => requests[agent.req] # None
    /\ \A c \in calls : c.op = "poll" => requests[c.req] # None

\* The outstanding call follows from what the agent knows.
Outstanding(c) ==
    /\ c.op = "poll" =>
          agent.req # 0 /\ agent.held = None /\ c.req = agent.req
    /\ c.op = "rotate" =>
          agent.held # None /\ agent.next = None /\ c.cred = agent.held
    /\ c.op = "unpair" => agent.held # None /\ c.cred = agent.held
    /\ c.op = "batch" => /\ agent.held # None /\ c.batch = Oldest
                         /\ c.cred \in {agent.held, agent.next}

AgentInv ==
    /\ reply # None => agent.waiting # None /\ reply.to = agent.waiting
    /\ agent.waiting # None => Outstanding(agent.waiting)
    /\ agent.held # None => agent.req # 0
    /\ agent.held = None => agent.next = None /\ agent.acked = 0

\* Requests are made in order and the agent knows the last; who has a
\* credential of a pairing has it from a request that was consumed.
PairingInv ==
    /\ \A i, j \in RequestId : requests[i] # None /\ j < i => requests[j] # None
    /\ agent.req # 0 => \A i \in RequestId : requests[i] # None => i <= agent.req
    /\ agent.held # None => Consumed(agent.req)
    /\ \A c \in calls : c.op = "batch" =>
          Consumed(c.batch[1]) /\ (agent.held = None => c.batch[1] # agent.req)
    /\ reply # None /\ reply.to.op = "poll" /\ reply.status = "ok" =>
          Consumed(agent.req) /\ reply.cred # None
    /\ (\E g \in RequestId : Consumed(g)) => key # None

\* The pairing that was consumed last, in the order of the requests.
Current(g) == Consumed(g) /\ ~Superseded(g)

StoredInv ==
    key # None =>
        /\ Len(stored) = key.last
        /\ \A n \in 1..key.last : stored[n][2] = n
        /\ ~crossed => \E g \in RequestId :
              Current(g) /\ \A n \in 1..key.last : stored[n] = <<g, n>>

\* The batch that is acknowledged again is one that is stored.
BatchInv ==
    key # None /\ key.batch # None =>
        LET g == key.batch[1] IN
        /\ Consumed(g)
        /\ Current(g) /\ ~crossed => key.batch[2] <= key.last

AckInv ==
    ~crossed =>
    /\ agent.held # None => agent.acked <= key.last
    /\ reply # None /\ reply.to.op = "batch" /\ reply.status = "ok" =>
          agent.acked + 1 <= key.last

\* May a credential still be accepted?
Alive(x) ==
    ~key.revoked /\ (x = key.secret \/ (x = key.pending /\ key.live))

\* Credentials are numbered as they are issued.
IssuedInv ==
    /\ key # None => /\ key.secret <= issued
                     /\ key.pending # None => key.pending <= issued
                     /\ key.secret # key.pending /\ key.secret # unpromoted
    /\ agent.held # None => agent.held <= issued
    /\ agent.next # None => agent.next <= issued /\ agent.next # agent.held
    /\ unpromoted # None => unpromoted <= issued
    /\ \A c \in calls : c.op # "poll" => c.cred <= issued
    /\ reply # None /\ reply.cred # None => reply.cred <= issued
    /\ reply # None /\ reply.to.op = "rotate" /\ reply.status = "ok" =>
          reply.cred # None /\ reply.cred # agent.held

\* Before the agent has its first credential of a pairing, the key is unused.
FreshInv ==
    ~crossed /\ agent.req # 0 /\ agent.held = None /\ Consumed(agent.req) =>
        /\ key.last = 0 /\ ~key.seen
        /\ \A c \in calls : c.op # "poll" => c.cred # key.secret

\* Where the agent's credentials stand to the key's.
HeldInv ==
    ~crossed /\ agent.held # None /\ ~key.revoked =>
        /\ agent.held = unpromoted => agent.next = None
        /\ agent.next = key.secret => key.pending = None \/ ~key.live
        /\ agent.held # unpromoted =>
              /\ agent.held = key.pending => ~key.live
              /\ key.seen => key.secret \in {agent.held, agent.next}

\* What is on its way with a credential that is accepted has one the agent has.
CallInv ==
    ~crossed /\ agent.held # None /\ ~key.revoked =>
        \A c \in calls :
            /\ c.op \in {"rotate", "unpair"} =>
                  /\ c.cred # agent.next
                  /\ c.cred = key.secret /\ agent.held # unpromoted =>
                        c.cred = agent.held
            /\ c.op = "batch" /\ c.batch[1] = agent.req /\ Alive(c.cred)
               /\ agent.held # unpromoted => c.cred \in {agent.held, agent.next}

ReplyInv ==
    ~crossed /\ reply # None /\ key # None /\ ~key.revoked =>
        /\ reply.to.op = "poll" /\ reply.status = "ok" => reply.cred # key.pending
        /\ reply.to.op = "rotate" /\ reply.status = "ok" =>
              /\ reply.cred # key.secret /\ agent.held # unpromoted
              /\ \A c \in calls : c.op # "poll" => c.cred # reply.cred
        /\ reply.to.op = "batch" /\ reply.to.cred = agent.next =>
              /\ reply.status = "ok" =>
                    \/ agent.next = unpromoted
                    \/ key.secret = agent.next /\ (key.pending = None \/ ~key.live)
              /\ reply.status = "unauthorized" => ~Alive(agent.next)

CredentialInv == IssuedInv /\ FreshInv /\ HeldInv /\ CallInv /\ ReplyInv
============================================================================
