# Watchpost: a verification project

Watchpost is a self-hosted monitoring node. It takes telemetry from agents and
from its own checks, evaluates alert rules, notifies people, and keeps
everything in one SQLite database per node. Nodes can form a cluster in which
the *definitions* (posts, dependency edges, rules) are replicated through raft
while *evidence* (observations, alerts, deliveries, incidents) stays local.

This directory holds TLA+ models of the parts of Watchpost whose correctness
depends on order, failure and concurrency, the TLC configurations that check
them, and TLAPS proofs of the main results. `PROJECT.json` maps every
definition to the lines it models.

## 1. Inventory

| Part | State it keeps | Operations | What is hard about it |
|---|---|---|---|
| Replicated definitions FSM (`internal/replicated/fsm.go`, `cleanup.go`) | posts, edges, rules, position and graph revision in SQLite; op-ID table, positions and a sticky failure in memory | Apply (six kinds), Snapshot, Restore, NewFSM | crash between the commit and memory; replay; duplicates; snapshots at the wrong moment; restores that must not erase local evidence |
| Mutation adapter and routing (`adapter.go`, `ops.go`, `controller.go`, `gate.go`) | `graphMu`, requests in progress | proposeOp, graphPropose, route, forward, wait for apply | validation races with apply; timeouts with an entry in flight; ID reuse; leader change |
| Runtime (`internal/runtime`) | raft node, readiness | New, readiness, close | start order; mostly gantry-core |
| Rules (`internal/rules`) | alert rows per rule | Evaluate, EvaluateObservation, Acknowledge | late observations, maintenance, acknowledgement between two evaluations |
| Notifications (`internal/notify`) | delivery rows | Queue, DeliverDue | at-least-once sends, backoff, crash after the send |
| Retention (`internal/retention`) | - | RunOnce, several passes at once | order of categories, foreign keys, rows others still use |
| Incidents (`internal/incidents`) | incidents and links to alerts | Create, Transition, ... | links pin alerts |
| Agent pairing (`internal/agentpairing`) | pairing requests, connections, the key row | Create, Decide, Poll, Rotate, Unpair, Revoke | lost answers, late and repeated calls, overlap of two credentials |
| Ingestion (`internal/ingest`) | key row, observations, rate windows | Authenticate, AcceptBatch, Accept, Enroll | replayed batches, promotion, rate budget |
| Server (`internal/server`) | - | handlers, delivery/check/retention/backup loops | evaluation after the commit; concurrent passes |
| Pairing tokens (`internal/pairing`) | single-use tokens | Issue, Consume | a second writer of the key row |
| Cluster (`internal/cluster`, `server/cluster_api.go`) | identity, invitations, join requests, members, nonces, outbound joins | Invite, Join, Decide, Poll, AcceptRemote, Revoke, Rotate | a two-sided hand-off that either side may lose |
| Service (`internal/service`) | files, unit, user, data directory, rollback copy | Install, Update, Rollback, Uninstall | compensation after any failing step |
| Sign-in (`internal/auth`) | users, sessions, bootstrap tokens | Bootstrap, Login, Reset, Revoke | reset against a login in progress |
| Actions (`internal/actions`) | action requests | Request, Approve, Execute | crash after the claim |
| Investigation assistant (`internal/agent`; not the installed agent) | conversations, snapshots of evidence | Start, Investigate | retention between the check of a citation and its snapshot |
| Checks and device polls (`internal/checks`, `internal/devices`, `checkLoop`, `snmpLoop`) | schedules with `next_run_at`, results | Save, RunDue, Due, Poll, Advance, evaluate | bounded rounds, a failure in the middle of one, a full disk |
| Backup (`internal/backup`, `backupLoop`) | `.wpbk` files, status | Create, Restore, prune | kills and power failures between write, flush and rename; the write-ahead log beside a restored file |
| Posts, fleet, propagation, launcher, config, store, audit, history, evidence, host sampling | rows or files of their own | create, read, update | mostly one transaction, parsing or I/O |

Interaction: HTTP handlers call the services; telemetry (`ingest`) is followed
by `rules` and `notify` in the same handler; the delivery, check and retention
loops run beside them on the same database, which has one connection
(`SetMaxOpenConns(1)`), so a transaction or a single statement is atomic and
everything between two of them interleaves. The commands `setup`, `reset
--auth`, `cluster join`, `backup` and `restore` work on the same files from a
process of their own. Definition mutations go through
`Controller.route` to the leader's `Adapter`, into raft, and come back to every
node as `FSM.Apply`. An installed agent is a program of its own that speaks the
pairing and telemetry endpoints.

What each part has to guarantee is listed with the runs below; the places
where it may go wrong are the hazards in `PROJECT.json`.

## 2. Modules

| Module | Models |
|---|---|
| `Definitions` | the replicated tables and the six apply functions as operators: `Can...` is the condition under which the transaction succeeds, `apply...` the tables it leaves, `Extend` what one more log entry means |
| `ReplicatedFSM` | a cluster of FSMs over one committed log: Apply in five variants, local failures, Snapshot, Restore, crash and restart, node-local evidence |
| `DefinitionsLog` | the abstract promise: one growing sequence of states, every node serves one of them and only moves forward |
| `Admission` | how requests get into the log: router, adapter, validation, leader changes, timeouts; a replica is what `ReplicatedFSM` shows a sound one to be |
| `Alerts` | rules, notifications, retention, incidents and maintenance for one post and rule |
| `AgentConnection` | one agent's pairing, credentials and telemetry over an unreliable connection |
| `ClusterPairing` | the hand-off of credentials between a host and a joiner, and their life afterwards |
| `ServiceLifecycle` | install, update, rollback, uninstall and the systemd verbs as lists of steps that may fail |
| `Console` | accounts, sessions, setup tokens and approved actions between authentication and transaction |
| `Backup` | scheduled and commanded backups, pruning, and restore over a database file and its log |
| `Collection` | the check and device loops: what is due, what is stored, what reaches the rules |
| `ReplicatedFSM_proofs`, `Admission_proofs`, `AgentConnection_proofs`, `ClusterPairing_proofs`, `ServiceLifecycle_proofs`, `Console_proofs`, `Backup_proofs` | the theorems about each |
| `Alerts_proofs` | the theorems about `Alerts`, and about `Collection`, whose results are what the rules evaluate |
| `MC...` | finite instances |

A component's invariants that only the proofs use stand at the end of its
module, after its properties.

Where the code does lose or mix something, the step is in the model, a *history
variable* marks the rows or nodes it concerns, and the property says what holds
of all the others; no guard reads a history variable, and section 5 lists the
marked cases. Besides the bounds, four guards stand for the surroundings: an
observation is late by at most `MaxLate` and queued within `MaxBusy`
(`Alerts`), one `BeginOutbound` runs at a time (`ClusterPairing`), service
commands run one at a time, and a restore finds the node stopped and no backup
command running (`Backup`), as `docs/backup-and-recovery.md:23` asks.

### ReplicatedFSM

`db[r]` and `local[r]` are the database of replica `r`; `graphRev`, `applied`,
`appliedIndex`, `persisted` and `failed` are the fields of the Go struct `FSM`.
The paths of `applyLocked` are `ApplyFenced`, `ApplyDuplicate`,
`ApplyReplayed`, `ApplyRealized`, `ApplyInvariantError` and
`ApplyLocalFailure`. `Restart` is a crash at any point, `NewFSM` over the
database, and raft's restore of its own snapshot, after which `Deliver` hands
over the rest of the log again. `RestoreSeed` and `RestoreReplace` are the two
branches of `Restore`. Raft itself is external: it commits, delivers in order,
labels a snapshot with its own position and installs snapshots that go beyond
the receiver's disk. `Evidence`, `Faulty` and `MaxLog` only limit the instance.

`history` records what every prefix of the log means; no action reads it.

`FSM.Snapshot` checks nothing, so `TakeSnapshot` can happen at any moment: of a
fenced FSM, and while the log is replayed. `sound` is history: a snapshot has it
if it was taken of a sound and settled FSM (healthy, and its applied position
is the one of its tables), and a replica loses it when it restores a snapshot
without it. The properties speak of sound replicas; only a snapshot can make a
replica unsound. In `DefinitionsLog` such a replica has lost its place (`Lose`).

### Admission

One record per request, with a program counter for the statements of
`proposeOp` and `graphPropose` between which other goroutines run. While an
apply is between its commit and the update of the memory (`busy`), the
in-memory reads wait for the FSM's mutex and the SQL reads do not. `GiveUp` is
every way in which `Propose` returns without a result. `semanticallyEquivalent`
compares the fields the Go function compares. An operation in the log is the
client's intent with the graph revision it was validated against as its label
(`Labelled`); `ValidatedAtLabel` follows it from there through the queue into
the log.

### Alerts

`Evaluate` follows `Engine.Evaluate` branch by branch on the newest row,
including that a breach after a resolved row inherits its `opened_at`. A
handler evaluates in one step and queues in another. The tables are indexed by
row ID, which SQLite takes from the highest row there is, so the IDs of removed
rows are given out again while a handler or the worker may still hold them.
`MaxLate` is how old an observation may be when it is evaluated (24 hours,
`ingest.go:60`) and `MaxBusy` how long a handler takes to queue what it
evaluated; the clock does not pass that. `DeliverDue` is read, send, record,
with a crash possible between any two; the record may also be lost without an
error (`notify.go:118`, `:121`). `notified` is history: what was sent, by alert
and route, and is on record or about to be. Retention is the two categories
that touch these tables, in the order of the code, each one statement; a
citation of an alert by a conversation pins it as an incident does and is not
told apart. Values are `high`, `band` (not breached, not recovered), `low` and
none, with good or bad quality; time is an integer.

### AgentConnection

The server's operations are one transaction each. A call that the agent gave up
on stays in flight as a late copy, can be handled at any later time, and the
agent may make the same call again meanwhile. The agent is external and
modelled from the protocol: it keeps one request outstanding, keeps the old
credential until a batch sent with the replacement is acknowledged, and sends
the oldest sample that was not acknowledged; a batch may be sent again with the
replacement, and a new pairing may begin at any time, with calls of the last
one in flight. A sample may become older than the 24 hours the server accepts
(`aged`), which blocks the ones after it. `crossed` is history: since the last
pairing, a poll or batch of an earlier one was honoured. So is `unpromoted`: the
replacement under which a repeated batch was acknowledged without being made
the credential. The model assumes that batch IDs are not reused.

### ClusterPairing

`invitations` and `requests` are the host's tables, `joins` the joiner's
`cluster_outbound_joins`, `member[n]` the row each node has for the other. A
handler that calls the other node (`BeginOutbound`, `CollectOutbound`) is one
step before and one after the call, and may stop at either. A stored hash is
the credential it recognises; signatures are equality. `nonces` says whether a
node remembers a request of its peer, which `Poll` reads to decide whether a
consumed credential may be issued again; another member's request may prune it,
or never come. Operators invite, join, decide, collect, rotate, revoke and
remove in any order, several processes collect, and of `BeginOutbound` one runs
at a time. A pairing is under way (`Pairing`) while a node joins, the newest
join is not collected, or a request waits for its decision. Three variables are
history: `overlap`, whether what is under way has overlapped another pairing,
collection or rotation; `mixed`, the requests begun before or in an overlap; and
`leftover`, whether the host has a nonce of the joiner from before the
credential it handed out last.

### ServiceLifecycle

A command reads the state of the machine once (`op.prior`), decides on a list
of steps and does them one by one; a step is an atomic file operation or a
`systemctl` call. `StepFails` lets any of them fail, after which the command
does the compensation its code has for that point; `StepIgnored` lets the steps
fail whose error the code drops, after which the command goes on and the step is
recorded in the history variable `left`. `Killed` ends a command between two
steps (`Crashes`). Executables outside `Good` start and then exit
(`ServiceExits`), and systemd starts them again. Waiting for the service to be
healthy is a step that is refused when it is not. Commands run one at a time.
The lists are operators of what the command found (`ApplySteps`,
`RestoreSteps`, `RecoverySteps`, ...), evaluated when the command comes to them.

`InstallRestores` says less of an install that finds no unit file: the code
looks at enablement and activity only if there is one (`service.go:667-685`),
and an earlier rollback that was cut short may have left a link or a process
behind. Such an install, when it fails, leaves the service disabled and
stopped. The attempt to prove the stronger statement showed this; it takes
three faults, one more than the run had then, and the run has three since. Nor
does it cover a file that the install wrote where there was none and whose
removal failed (`LeftBinary`, `LeftUnit`): `restore` ignores that.

### Console

A request is authenticated by one statement and runs its transaction later;
`reqs` holds what it read in between (the account, for a login the password it
verified, for an execution the action it claimed). Row identifiers are the ones
SQLite assigns, so they start again after `reset --auth`. Passwords have serial
numbers. `excused` marks the sessions that the code knowingly lets survive a
password change: the one that made it, and logins that had verified the old
password already (section 5). `founded` is history and says how the accounts
that exist began: with a setup, or with a request from before a reset. A request
inserts its row before the audit row refers to it, so it may satisfy the key of
its own audit. `definitions` are the kinds of action the running server knows;
a restart may be one in another `Version`. `lost` marks the actions whose
execution was cut short or had no definition. `TokenRequired` is the
configuration the server reads at start.

### Backup

The contents of a database is a number that every commit raises; the log
(`wal`) remembers which file it was written over. `Create` is vacuum, seal,
copy with flush, rename; the schedule and the operator's command run it
independently. A power failure cuts short what was never flushed. File names are
numbers in their order: a scheduled backup of time `t` is `Scheduled(t)`, the
operator's outputs are the odd numbers in `Output`, before, between and after
them, and the clock may be set either way. The write of a restored file may
fail, and a restore may find the log of a killed node. The history field `sound`
of a database says that neither has happened to it, `outranked` of a reported
run that when it pruned as many files as are kept sorted after its own. Backups
are made with a passphrase of `Configured` (the schedule) or `Given` (the
operator).

### Collection

`next_run_at` is kept as the time left; what is due is queued in the order of
the loops' query. A round of `checkLoop` takes at most `CheckLimit` schedules,
stores their results one transaction each and then hands them to the rules one
by one; a round of `snmpLoop` does the same per profile. Rescheduling removes a
source from its queue, which holds it once (`QueuesAreDue`). Schedules and
profiles are deleted at any time: a result whose schedule is gone fails the
round, a profile that is gone is skipped. A failing `Connect` takes the process
down (`ConnectPanics`), as often as it likes; so may an ingestion fail and
credentials be unusable. The other faults are bounded by `MaxFaults`. `unseen`
is history: results stored and not yet evaluated that no failure accounts for.

## 3. What is checked

Twelve runs. The two "violation" runs record a disagreement between the code
and what a document or comment says of it; the finding in `PROJECT.json` quotes
both.

| Run | Instance | Shows |
|---|---|---|
| `replication` | 2 replicas (one may fail locally), 3 log entries, an ID used for two different updates, snapshots at any moment | every sound database is the meaning of its log prefix, no sound replica rejects what the log accepts, op-ID tables are complete, positions never regress, a restart keeps evidence, the FSM implements `DefinitionsLog`, and replicas converge |
| `definitions` | 1 replica, 5 entries over 8 operations on 2 posts and a rule | edges, rules and local rows never dangle, no cycle |
| `admission` | 2 nodes, 2 requests over contradicting graph operations and a reused ID | the label of an edge is the revision it was validated at; it is refused only when stale; success means realised and visible; every request returns |
| `alerts` | 2 handlers, 3 kinds of rule, 4 observations, 2 alert rows, 2 delivery rows, time 0..2, 1 crash | an alert is not sent to a route again while a sending of it is on record; deliveries belong to alerts that fired; two alerts that fired have a resolution between them; a firing alert reaches its routes |
| `agent` | 2 pairings, the second at any time, 3 credentials, 2 samples, 2 calls in flight, 1 sample per minute | stored samples are contiguous and, unless pairings crossed, a prefix of one pairing; then also a connection in use is not locked out (but by an unpromoted replay) and what is acknowledged is stored; samples get through |
| `cluster` | 2 invitations, 4 credentials, 2 collectors, everything in any order | an approved hand-off whose exchange overlapped no other can always be completed (but for a leftover nonce), and both nodes accept what the other presents |
| `service` | 3 executables (one broken), 2 unit files, 3 commands, 3 failing steps, reported or ignored, or kills | a failed install restores what it found but for a file it could not remove, an update leaves a healthy service, a running service executes what is installed, the executable a command found stays on disk |
| `console` | 2 requests, 2 accounts, 2 sessions, 1 action, 3 passwords, 2 versions of the server, 1 reset, restart or failure | types, an installation that was set up keeps an administrator, sessions follow the password, a setup token creates one administrator, an action is claimed once and after approval, only a cut or a missing definition leaves it executing |
| `backup` | 2 commits, 2 seconds, 2 faults, 2 backups kept, operator's files that sort first and last, encrypted and plain | every backup is complete, a reported success can be restored from unless it was outranked, only a restore spoils the database |
| `restore` (violation) | the same | a failed write is not noticed and the database is replaced by one cut short |
| `collection` | 3 checks (2 per round), 2 profiles (1 per round), 2 faults | a failing ingestion does not take the rest of its round with it; every due source is run, unless it is deleted or `Connect` fails for ever |
| `polls` (violation) | the same | every scheduled poll of an answering device is emitted as down |

Bounds. Two replicas and three entries are enough for a duplicate, a failure
and an entry on top of it, with a snapshot at any position and a restart on
either side; the proofs lift the bounds. Two requests are enough for every
pairwise race at the lock; the leader changes without a bound. Two alert rows
hold an episode and its successor; with two handlers and time 0..2 one handler
still holds an alert while the other resolves it and a retention pass runs, at
the boundary `AlertWindow = MaxLate + MaxBusy` of `DeliveriesTheorem`. Two
pairings with one rotation (three credentials) let a call of the first pairing,
or a replacement it asked for, meet the second; two samples distinguish a
replay, a gap and the next batch. Two invitations with four credentials are a
pairing and a rotation, or a pairing and a re-pairing whose answers may be lost
and are given again, with a second collector at any point; the run leaves a
behaviour once every request is `mixed` (`SomeUnmixed`), since `mixed` only
grows and the properties say nothing of such requests. Three commands are an
install, an update and a rollback, or a command on what two others left; three
faults are a failing step, a failure of its compensation, and a failure of the
next command. Two requests are every pairwise race of the console; three
passwords are two accounts and a change. Two seconds give two scheduled
backups, and with two kept and the operator's files on both sides each of them
may be the one that is pruned; two faults are a kill and a power failure, or a
failure and a kill. Three checks with a round of two leave one over in every
round.

`TypeOK` (in Collection `CollectionTypeOK`) is stated in every component module
and proved for each. It is also checked in `console`, where it says that rows
refer to accounts that exist.

Deadlock is checked except in `agent`, `cluster`, `service`, `console`,
`backup` and `restore`, where an instance ends when its bounded commands,
credentials, rows, commits and faults are used up.

Every property has a mutant in `PROJECT.json`: a small change of a mapped
definition that a plausible bug would make, under which TLC finds the property
violated. The mutated forms stand before the definition, marked "Defect".

Fairness. `ReplicatedFSM`: raft delivers what is committed and restores a
pending snapshot while the process runs. `Admission`: handler goroutines and
the apply goroutine run, and a proposal has a timeout. `Alerts`: handlers and
the two loops run (tickers in `server.go`), backoffs elapse, and a destination
that is tried again and again is eventually reached; the property itself
assumes that observations keep coming. `AgentConnection`: calls end and minutes
pass; the agent keeps sending; not all of the calls that could succeed are
lost, nor all of the answers that matter. `Collection`: time passes, the loops'
tickers in `server.go` keep running them, and room is made on a full disk (by
retention or the operator); faults are bounded, so a round is not interrupted
for ever, except by `ConnectPanics`, which the property names.
`ClusterPairing`, `ServiceLifecycle`, `Console` and `Backup` have no fairness:
what they need is an operator who gives commands, and their properties say that
the commands remain possible.

## 4. What is proved

TLAPS checks the following for every value of the constants: every set of
replicas, nodes, requests, handlers, posts, rules, every length of the log,
every number of rows, credentials, calls in flight, commits and crashes. The
clocks and identifiers of the models keep their bounds, as parameters. Every
safety invariant below is checked by a run first, and so were the auxiliary
invariants.

Replicated definitions (`ReplicatedFSM_proofs`)

* `TypeCorrect`: type correctness.
* `Alignment`: `IInv`, with snapshots at any moment. The properties are not
  inductive alone: that a database is the meaning of its prefix does not say
  what the process in memory will make of the next delivery. `HistoryInv` says
  how the meanings of two prefixes relate (positions and op IDs only grow, a
  failure is final, the position of a meaning is a fixed point). `DatabaseInv`
  ties database and graph revision to the prefix named by the database's own
  position. `MemoryInv` ties the op-ID table to what raft has delivered since
  the start, and separates replay (below `persisted`) from realisation.
  `SnapshotInv` says that a sound snapshot is the meaning at raft's label, and
  `RaftInv` what raft knows of every replica, sound or not. The proof has one
  lemma per action and one for a commit.
* `PrefixTheorem`, `FailureTheorem`, `IdempotencyTheorem`: the three safety
  properties, from `IInv`.
* `ForwardTheorem`: no step that leaves a replica sound moves its database back.
* `EvidenceTheorem` (`RestartKeepsEvidence`), of every replica, sound or not.
  `IInv` does not say that the snapshot a restart finds has been restored
  already; `RestoredInv` does: it is not ahead of the database unless raft is
  still to have it restored.
* `RefinementTheorem`: the FSM implements `DefinitionsLog`, under the mapping
  of `Promise`, in which a replica that is not sound has lost its place.
* `IntegrityTheorem`: no cycle and nothing dangling, without any assumption on
  snapshots. The argument is about the tables alone: an edge is added only if
  its source is not reachable from its target (`NewEdge`), a delete removes
  the edges, rules and local rows of the post, and snapshots copy integral
  tables. `Reach` is defined as a least closed set, so no recursion is needed.

Admission (`Admission_proofs`)

* `TypeCorrect`: types, with `HistoryInv` (each meaning of the log follows from
  the one before; known operations stay known; revisions never go back) and
  `BusyInv` (an apply that has begun has an entry to apply).
* `LabelTheorem` (`ValidatedAtLabel`) and `StaleTheorem`
  (`RefusedOnlyWhenStale`). The validation reads a database that may be one
  entry ahead of the revision in memory. `GraphInv` carries, through every
  statement of `graphPropose`, at which position what was read so far held;
  the recheck of the revision closes the gap. `EntryInv` carries the result
  from the request into the queue and the log. That no validated edge is
  refused at its own revision rests on `RealizeGraph`: an entry that does not
  move the revision changes no post and no edge.
* `SuccessTheorem` (`SuccessIsRealized`), assuming `DistinctIntents`: no client
  uses an ID for two intents of which the adapter takes one for a retry of the
  other. `AnswerInv` says at which position the answer on its way is true. The
  run `admission` evaluates the assumption for its intents.

Alerts (`Alerts_proofs`)

* `TypeCorrect`: types, with `WorkerInv`: rows the worker has read stay in the
  table undelivered, since retention removes delivered rows only and no one
  else delivers.
* `NotifiedTheorem` (`NotifiedOnce`), an action property, from `SentInv` (a
  sending on record is that of a delivered row, or of the one the worker is
  about to record) and `Unique` (an alert has one row per route).
* `EpisodeTheorem` (`ResolvedBetweenFirings`), from `EpisodeInv`: the row after
  one that fired is a resolution. It rests on `VerdictFacts`, a case analysis
  of `Evaluate`.
* `DeliveriesTheorem` (`DeliveriesHaveAlerts`), assuming
  `AlertWindow >= MaxLate + MaxBusy`. `HandlerInv` says that the alert a
  handler holds has fired, or is gone while a later row keeps its ID taken:
  the newest row of an open rule is never removed, and what was inserted after
  the evaluation is too recent for any pass. The first attempt at this proof
  failed for one handler's alert removed and its ID reused by another, which a
  run with a single handler could not show; the run has two since.

Collection (last part of `Alerts_proofs`, which extends both modules)

* `ResultsReachRules` (`StoredReachesRules`), from `RoundInv`: a result that
  the rules have not seen, and that no failure accounts for, is still in the
  round, and a round that stores or routes has something to store or route.
* `QueuesAreDue` (`CollectionTypeOK`), with `QueueInv`: each queue lists the
  due sources once, whatever is deleted meanwhile. It rests on three lemmas
  about `Lists` (appending, removing and queueing the sources of one tick), for
  any finite set of sources.

Agent (`AgentConnection_proofs`)

* `TypeCorrect`: types, with `TableInv` and `AgentInv`.
* `PrefixTheorem` (`StoredIsPrefix`) and `AcknowledgedTheorem`
  (`AcknowledgedIsStored`). `PairingInv` says that who has a credential of a
  pairing has it from a request that was consumed, `StoredInv` that the store is
  what the sequence number of the key says and, unless pairings `crossed`, is
  the current pairing's; `BatchInv` and `AckInv` say that the recorded batch and
  every answer lie at or below it.
* `BrickedTheorem` (`NeverBricked`). `CredentialInv` follows each credential
  from its issue: the ones that the agent, its calls or an answer may still use
  are the current key's or its pending replacement's, in an order that no late
  call can turn around unless pairings crossed; a replacement acknowledged
  without a promotion is kept apart (`unpromoted`).

No assumption is made on when the agent pairs again or with which credential it
repeats a batch.

Cluster pairing (`ClusterPairing_proofs`)

* `TypeCorrect`: types, with `Rows` (a request has its invitation, a join its
  request, an approved answer its credential), whatever operators do at once.
* `Inductive`: `IInv`, for every interleaving of operators and collectors. The
  credentials of the two nodes match only at the ends of an exchange, so the
  invariant follows the exchange. `Marked` says that an overlap is remembered of
  every request it can concern. Without an overlap, `OnNewest` and `Truthful`
  say that an answer on its way is about the newest join and still true when it
  is stored, `Replacements` and `Quiet` that a rotation and a pairing do not
  meet. Of a request that is not `mixed`, `HandedOver` says which half of the
  pair is where after each step of the collection, and `Paired` that both nodes
  match from then on.
* `Agree` (`PeersAgree`) and `Handoff` (`HandoffRecoverable`), from `IInv`.

Service (`ServiceLifecycle_proofs`)

* `Inductive`: `IInv`, whichever steps fail, reported or ignored, and wherever
  a command is killed. What a command
  has done so far follows from the steps it has left, provided that they are
  left in the order of the list: `Rank` numbers the steps, `InOrder` says that
  the rest of a list ascends, and each phase (`InstallPreparing`,
  `InstallApplying`, `InstallUndoing`, the phases of `Update`, `RollingBack`)
  has an invariant of the form "this step is not left, so its effect is there".
  The lists are never unfolded step by step, so the proof has one lemma per
  phase and kind of step rather than one per position.
* `Restores` (`InstallRestores`), `Serves` (`UpdateKeepsServing`),
  `RunsInstalled` (`RunsWhatIsInstalled`) and `Keeps` (`VersionKept`), each from
  `IInv` at the end of a phase.

Console (`Console_proofs`)

* `TypeCorrect` (`TypeOK`, `TokenInv`, `ClaimInv`), `AdminTheorem`
  (`AdminRemains`), `SessionTheorem` (`SessionsFollowPassword`), `TokenTheorem`
  (`TokenUsedOnce`), `ClaimTheorem` (`ClaimedOnceAndApproved`) and
  `HeldTheorem` (`ExecutingIsHeld`). The types do part of the work: rows refer
  to accounts that exist because accounts are removed only by a reset that
  empties every table, and a request holds what it read with the type it read.
  `NextRowFree` says that an INSERT never takes the ID of a row that is there.

Backup (`Backup_proofs`)

* `TypeCorrect`: types, with `OpenInv` (who may have the database open, and
  nothing holds more than was committed).
* `CompleteTheorem` (`BackupsComplete`), from `FlushedInv`: what is about to be
  renamed is whole and flushed. `RestorableTheorem` (`SuccessIsRestorable`),
  from `ReportedInv`: the backup that was reported is there unless it was
  outranked, or a later run of this server has replaced it by one as recent.
  It rests on `PruneKeeps`: pruning removes nothing that is not outranked.
* `IntactTheorem` (`SpoiledByRestoreOnly`), from `IntactInv`: a database that no
  restore spoiled is complete and flushed and has its own log or none.

Assumptions: the named `ASSUME`s of the modules (operations are well formed,
bounds are natural numbers, the null values are not values), `DistinctIntents`
for `SuccessTheorem` and the window for `DeliveriesTheorem`; the last two are
conditions on the surroundings that the code does not enforce. No other theorem
has a hypothesis.

Model-checked only: the liveness properties (`Converges`,
`EveryRequestReturns`, `FiringReachesRoutes`, `SamplesGetThrough`,
`EverySourceRuns`), since fairness is out of this prover's reach. Every safety
property of the passing runs is also a theorem.

## 5. Known limits of the code that no run records

What a history variable marks is in the runs and the proofs, and TLC shows it
when the variable is taken out of the property.

Replicated definitions and admission

* A snapshot of a fenced FSM is taken all the same (`fsm.go:693`), and a replica
  that restores it materialises later entries without the failed one, against
  the comment at `fsm.go:300-302`; a snapshot taken while the log is replayed
  after a restart pairs current tables with an older position (`fsm.go:346`),
  and a replica that restores it may reject what the others accepted. `sound`.
* Two edits of one version: nothing before consensus refuses the second
  (`adapter.go:122`), so an ordinary conflict is committed, fails in `Apply` and
  fences every replica, although each method "validates before consensus"
  (`adapter.go:18-20`).
* A graph proposal that times out releases `graphMu` with its entry in flight
  (`adapter.go:202`), against `adapter.go:170-173`; the next graph operation is
  then stale when applied, and fences every replica.
* `Restore` treats a snapshot at the same position as behind (`fsm.go:794`),
  so tables that differ at one position are not repaired; `IInv` shows that
  they do not differ.
* A delete is taken for a replay of any operation recorded under its ID for
  that post (`adapter.go:247`).

Alerts and retention

* Maintenance does not suppress an alert that is open already (`rules.go:174`),
  although `docs/state-machines.md:12` has that transition; a pending alert
  fires during maintenance.
* Retention deletes alerts before the deliveries that refer to them
  (`retention.go:105`): with both windows passed the foreign key makes every
  pass fail there, and superseded rows do not "age out after the resolved
  window" (`docs/monitoring-contracts.md:55`).
* A breach after a resolved alert inherits its `opened_at` (`rules.go:194`), so
  a pending alert may count time from before the recovery.
* After a delivered row is pruned, an alert that still fires is queued again
  (`notify.go:87`, `retention.go:116`), although "Firing alerts enqueue at most
  one delivery per route" (`docs/alerts-notifications-incidents.md:9`). It is
  also sent again when the UPDATE after the send fails, whose error is dropped
  (`notify.go:118`, `:121`). `notified`.
* Row IDs are given out again (`store.go:109` declares no AUTOINCREMENT): a
  handler that stays between evaluating and queueing until retention has
  removed the alert and what followed it queues whatever alert has that ID
  then. With the default window of a year this needs a handler stopped for
  months; the configuration accepts windows shorter than the 24 hours an
  observation may be late. `MaxBusy = 1` in `MCAlerts_alerts.cfg`, where
  `AlertWindow` is then below `MaxLate + MaxBusy`, shows it.
* When the newest, resolved row of a rule is pruned, an older row that an
  incident keeps becomes the current one (`retention.go:108`, `rules.go:162`).
* With a recovery threshold and missing policy `firing`, a recovered value of
  bad quality opens a new alert (`rules.go:166`); missing policy `unknown`
  behaves like `healthy` (`rules.go:147`).

Agents and telemetry

* If rule evaluation fails after a batch was committed, the retry is
  acknowledged without evaluating (`api.go:557`).
* A replayed batch is acknowledged without promoting the replacement credential
  it was sent with (`ingest.go:48`); an agent that takes this for the
  confirmation of `docs/monitoring-contracts.md:116-122` drops the old
  credential and is locked out when the replacement expires, although rotation
  "never bricks the connection" (`:122`). `unpromoted`.
* A late poll of an older approved request replaces the credential of a newer
  pairing and deletes its observations (`agentpairing/pairing.go:341`); a new
  pairing keeps the previous pending credential and last batch ID (`:352`), so
  that a batch of the earlier pairing may be taken for one of the later.
  `crossed`.
* A sample that has become older than 24 hours is refused, and with it, since
  sequences are contiguous, every later one (`ingest.go:60`).
  `SamplesGetThrough` speaks of agents without such a sample (`aged`).

Cluster (`internal/cluster/pairing.go` unless named)

* `ensureCurrentOutbound` is checked before the call and not with the update
  (`:437`), so a join that is superseded meanwhile overwrites the newer
  credentials, against the comment at `:431-436`; two collectors of one join, or
  a rotation during a pairing, may leave credentials that do not match. `mixed`.
* Whether a consumed request may be issued again is read from nonces
  (`:244`). Once those are pruned, a repeated poll replaces a credential in use,
  against the comment at `:241-242`. Where no other member calls the host they
  are never pruned, and the lost answer of a re-pairing is never issued again,
  against the comment at `:237-242`. `leftover`.
  `replicated/authenticator.go:273` prunes after one skew window.
* A pending join that is collected again after a crash undoes a later rotation.
  The promotion of a pending credential is by `node_id` alone
  (`transport.go:109`), whatever has become of the row since it was read.
* Approving an older request of a node that has joined again overwrites the
  host's row for it (`:184`).

Service (`internal/service/service.go`)

* Rollback after the update of a stopped service swaps the executable under a
  service that was started since (`:1333`); `README.md:142-143` says that
  rollback restores the previous version and its operational state.
* Rollback renames before a restart that may fail (`:1329`), so a second
  rollback has nothing to return to; the executable is still on disk
  (`VersionKept`).
* The rollback of a first install removes the executable and the unit it wrote
  and ignores an error (`:749`, `:757`): a file that stays is not reported, and
  a service that ran without an executable on disk may be started with the one
  left. `left`.
* A failed install removes `.preinstall` also when it could not restore the
  executable from it (`:751`), and says so; it does not verify that the service
  is healthy.
* An install killed half-way can make the next one a no-op, because the files
  are compared and not the service; a kill between creating the data directory
  and giving it away leaves a directory that later installs refuse.

Accounts and actions

* A login that verified a password before a reset inserts its session after the
  reset deleted the others (`auth.go:351`, `:365`, `:257`); likewise a password
  change that verified the old password undoes a reset (`:306`).
* An action whose execution is cut short, or whose definition the running
  version lacks (`actions.go:154-159`), stays in state `executing`; no operation
  leads out of it. `lost`.
* Row identifiers start again after `reset --auth` (`store.go:87` declares no
  AUTOINCREMENT). `CreateUser` inserts before it audits (`auth.go:169-176`), so
  a request of the first administrator from before the reset creates account 1,
  of any role, and audits it as its own actor. There are then accounts, setup
  is not offered, and perhaps no administrator. `founded`.
* Whether a setup token is required is decided at start only.

Backups

* A log left by a killed node is applied over the restored file
  (`backup.go:208`), although `docs/backup-and-recovery.md:23` asks only that
  the node is stopped; a failed write of the restored file is not noticed (run
  `restore`). `sound`.
* Pruning is by name (`server.go:531`): with a clock set back, or as many other
  `.wpbk` names in the directory that sort after it as are kept, the new backup
  is removed and reported as a success. `outranked`.
* The temporary file of a killed backup is never removed; two runs with one
  output share it. The model gives each maker a name of its own.

Collection

* Failing to store one result, also because its schedule was deleted while it
  was probed, drops the results of the round stored before it on their way to
  the rules (`schedules.go:179`); `StoredReachesRules` excuses them.
* A `Connect` that fails leaves the client without a `Conn`, on which
  `server.go:615` calls `Close`: the process ends before the profile is
  rescheduled, and after a restart the profile is again the first in the queue.
  gosnmp is not part of the repository; this is how it is known to behave. An
  unresolvable address makes it recur in every round, and neither that profile
  nor those after it are polled; `EverySourceRuns` excuses this.
* A check that came by propagation has no row in `collector_keys`, which only
  `Save` inserts (`propagation/adapter.go:249`, `schedules.go:75`): the
  ingestion of its results always fails (`server.go:415`).
* A poll whose credentials cannot be read emits nothing (`server.go:604-613`),
  although the comment above it says that a failed poll emits
  `snmp.poll_ok=0`.
* The action `rerun_check` and the loop may evaluate out of the order of
  observation (`server.go:430`).

## 6. Plan

1. An abstract hand-off for `ClusterPairing` (either both nodes hold matching
   credentials or the host can issue new ones) and the refinement, which
   `HandedOver` and `Paired` already describe.
2. `AgentConnection` with pairing tokens and the one-sample endpoint; then a
   composition of ingestion, `Collection` and `Alerts` for the evaluation lost
   after a commit.

## 7. Not modelled

Raft, the readiness driver and membership changes (gantry-core and
hashicorp/raft) appear only through the calls Watchpost makes and receives.
Cryptography is equality of credentials, passphrases, passwords and operations;
time stamps of peer messages, capability checks, the login throttle and the
change of the encryption key are not modelled. Probes, SNMP decoding and
the target policy are reduced to their outcome: a check has a result, a device
answers or does not. The investigation assistant, collector pairing tokens,
fleet status and propagation, the launcher, configuration, migrations, parsing,
validation of field formats, HTTP decoding, listing endpoints, audit rows,
logging, metrics and the web console are left out: they are I/O, pure
formatting, reads or single inserts in the transaction of a modelled
operation. The components list in `PROJECT.json` gives the reason for each.
