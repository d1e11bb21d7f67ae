----------------------------- MODULE Collection -----------------------------
(***************************************************************************)
(* Central checks and scheduled device polls: internal/checks/schedules,   *)
(* the schedule of internal/devices/store, and checkLoop and snmpLoop of   *)
(* internal/server, which run, store and route their results to the rules. *)
(*                                                                         *)
(* next_run_at is kept as the time that is left; the sources whose time    *)
(* has come are queued in the order in which they became due, which is the *)
(* order of the loops' queries. The rules themselves are the module        *)
(* Alerts: here it matters which results reach them. The names are apart   *)
(* from those of Alerts, so that one module extends both.                  *)
(***************************************************************************)
EXTENDS Integers, Sequences, SequencesExt, FiniteSets

CONSTANTS Check,      \* check_schedules
          Profile,    \* device_profiles with an interval
          Interval,   \* interval_seconds
          CheckLimit, \* RunDue: LIMIT 32
          PollLimit,  \* runDueSNMP: 16
          MaxOIDs,    \* Poll: 64
          MaxFaults   \* bound: failing statements, full disks, stops, deletes

Source == Check \cup Profile

ASSUME CollectionAssumption ==
    /\ {Interval, CheckLimit, PollLimit, MaxOIDs} \subseteq Nat \ {0}
    /\ MaxFaults \in Nat /\ Check \cap Profile = {} /\ IsFiniteSet(Source)

VARIABLES wait,    \* time until next_run_at
          checkDue, pollDue, \* the sources that are due, the longest first
          saved,   \* the schedules and profiles there are
          round,   \* checkLoop: RunDue's work and results
          polls,   \* snmpLoop: the profiles of this round
          poll,    \* pollDeviceProfile, between the poll and its observations:
                   \* whether the device answers, and what is emitted
          full,    \* the storage budget is exhausted
          faults,  \* faults so far
          unseen   \* history: checks whose stored result the rules have not seen,
                   \* and that no failure has kept from them

collectionVars == <<wait, checkDue, pollDue, saved, round, polls, poll, full, faults,
                    unseen>>

IdleRound == [pc |-> "idle", work |-> <<>>, results |-> <<>>]
NoPoll == [pc |-> "none"]

CollectionTypeOK ==
    /\ wait \in [Source -> 0..Interval]
    /\ saved \subseteq Source
    /\ ToSet(checkDue) = {c \in saved \cap Check : wait[c] = 0} /\ IsInjective(checkDue)
    /\ ToSet(pollDue) = {p \in saved \cap Profile : wait[p] = 0} /\ IsInjective(pollDue)
    /\ round.pc \in {"idle", "store", "ingest"}
    /\ Len(round.work) + Len(round.results) <= CheckLimit
    /\ Len(polls) <= PollLimit
    /\ poll = NoPoll \/ (poll.of \in Profile /\ {poll.ok, poll.answers} \subseteq BOOLEAN)
    /\ full \in BOOLEAN /\ faults \in 0..MaxFaults
    /\ unseen \subseteq Check

CollectionInit ==
    /\ wait = [s \in Source |-> 0]
    /\ checkDue = <<>> /\ pollDue = <<>>
    /\ saved = {}
    /\ round = IdleRound /\ polls = <<>> /\ poll = NoPoll
    /\ full = FALSE /\ faults = 0
    /\ unseen = {}

Fault == faults < MaxFaults /\ faults' = faults + 1
FirstDefect(n, q) == SubSeq(q, Len(q) - (IF n < Len(q) THEN n ELSE Len(q)) + 1, Len(q))
\* ORDER BY next_run_at LIMIT n.
First(n, q) == SubSeq(q, 1, IF n < Len(q) THEN n ELSE Len(q))

----------------------------------------------------------------------------
(* Time, storage and the sources                                           *)

\* Sources that fall due at the same time are queued in either order.
TimePasses ==
    /\ \E s \in Source : wait[s] > 0
    /\ wait' = [s \in Source |-> IF wait[s] > 0 THEN wait[s] - 1 ELSE 0]
    /\ \E new \in SetToSeqs({c \in Check : wait[c] = 1}) : checkDue' = checkDue \o new
    /\ \E new \in SetToSeqs({p \in Profile : wait[p] = 1}) : pollDue' = pollDue \o new
    /\ UNCHANGED <<saved, round, polls, poll, full, faults, unseen>>

\* The disk fills up; retention and the operator make room again.
Fill ==
    /\ ~full /\ Fault /\ full' = TRUE
    /\ UNCHANGED <<wait, checkDue, pollDue, saved, round, polls, poll, unseen>>
Reclaim ==
    /\ full /\ full' = FALSE
    /\ UNCHANGED <<wait, checkDue, pollDue, saved, round, polls, poll, faults, unseen>>

\* A schedule goes with its post, or by propagation, perhaps while RunDue has
\* it in its work.
DeleteCheck(c) ==
    /\ c \in saved /\ Fault
    /\ saved' = saved \ {c} /\ wait' = [wait EXCEPT ![c] = 0]
    /\ checkDue' = RemoveFirst(checkDue, c)
    /\ UNCHANGED <<pollDue, round, polls, poll, full, unseen>>

\* A profile is deleted, perhaps while it is polled.
DeleteProfile(p) ==
    /\ p \in saved /\ Fault
    /\ saved' = saved \ {p} /\ wait' = [wait EXCEPT ![p] = 0]
    /\ pollDue' = RemoveFirst(pollDue, p)
    /\ UNCHANGED <<checkDue, round, polls, poll, full, unseen>>

\* Save inserts a schedule that is due at once.
SaveCheck(c) ==
    /\ c \notin saved
    /\ saved' = saved \cup {c} /\ checkDue' = Append(checkDue, c)
    /\ UNCHANGED <<wait, pollDue, round, polls, poll, full, faults, unseen>>

\* Save inserts a profile that is due at once.
SaveProfile(p) ==
    /\ p \notin saved
    /\ saved' = saved \cup {p} /\ pollDue' = Append(pollDue, p)
    /\ UNCHANGED <<wait, checkDue, round, polls, poll, full, faults, unseen>>

\* Both loops end: results not yet routed to the rules are lost.
LoopsEnd ==
    /\ round' = IdleRound /\ polls' = <<>> /\ poll' = NoPoll
    /\ unseen' = {}
    /\ UNCHANGED <<wait, checkDue, pollDue, saved, full>>
ProcessStops == Fault /\ LoopsEnd

----------------------------------------------------------------------------
(* checkLoop                                                               *)

\* RunDue reads the due schedules and probes them; a full disk pauses checks.
RunDue ==
    /\ round.pc = "idle" /\ ~full /\ checkDue # <<>>
    /\ round' = [IdleRound EXCEPT !.pc = "store", !.work = First(CheckLimit, checkDue)]
    /\ UNCHANGED <<wait, checkDue, pollDue, saved, polls, poll, full, faults, unseen>>

\* One result and the next run of its schedule, in one transaction.
StoreResult ==
    /\ round.pc = "store" /\ round.work # <<>> /\ Head(round.work) \in saved
    /\ LET c == Head(round.work) IN
          /\ round' = [round EXCEPT !.work = Tail(@), !.results = Append(@, c)]
          /\ wait' = [wait EXCEPT ![c] = Interval]
          /\ checkDue' = RemoveFirst(checkDue, c)
          /\ unseen' = unseen \cup {c}
    /\ UNCHANGED <<pollDue, saved, polls, poll, full, faults>>

\* The transaction fails: RunDue returns an error and no result, those that
\* it has stored included.
RoundFails ==
    /\ round.pc = "store" /\ round.work # <<>>
    /\ round' = IdleRound /\ unseen' = unseen \ ToSet(round.results)
    /\ UNCHANGED <<wait, checkDue, pollDue, saved, polls, poll, full>>
StoreFails == RoundFails /\ Fault
\* The result of a schedule that is gone refers to no row.
StoreRefused == RoundFails /\ Head(round.work) \notin saved /\ UNCHANGED faults

AllStored ==
    /\ round.pc = "store" /\ round.work = <<>>
    /\ round' = [round EXCEPT !.pc = "ingest"]
    /\ UNCHANGED <<wait, checkDue, pollDue, saved, polls, poll, full, faults, unseen>>

NextResult == round' = IF Len(round.results) = 1 THEN IdleRound
                       ELSE [round EXCEPT !.results = Tail(@)]

\* ingestCheckResult stores the observations and evaluates them.
IngestResult ==
    /\ round.pc = "ingest" /\ NextResult
    /\ unseen' = unseen \ {Head(round.results)}
    /\ UNCHANGED <<wait, checkDue, pollDue, saved, polls, poll, full, faults>>

IngestFailsDefect ==
    /\ round.pc = "ingest" /\ round' = IdleRound
    /\ unseen' = unseen \ {Head(round.results)}
    /\ UNCHANGED <<wait, checkDue, pollDue, saved, polls, poll, full, faults>>
\* It fails, as it always does for a schedule whose collector is not there:
\* the failure is logged and the loop goes on.
IngestFails ==
    /\ round.pc = "ingest" /\ NextResult
    /\ unseen' = unseen \ {Head(round.results)}
    /\ UNCHANGED <<wait, checkDue, pollDue, saved, polls, poll, full, faults>>

----------------------------------------------------------------------------
(* snmpLoop                                                                *)

\* Due selects the columns of device_profiles, not the OIDs of the profile.
DueOIDs(p) == 0
\* Poll refuses a profile without OIDs, or with too many, before it asks.
PollOK(p, answers) == DueOIDs(p) \in 1..MaxOIDs /\ answers

RunDueSNMP ==
    /\ polls = <<>> /\ poll = NoPoll /\ ~full /\ pollDue # <<>>
    /\ polls' = First(PollLimit, pollDue)
    /\ UNCHANGED <<wait, checkDue, pollDue, saved, round, poll, full, faults, unseen>>

\* Advance: the row of a profile that was deleted meanwhile is not there.
Advance(p) ==
    IF p \in saved
    THEN /\ wait' = [wait EXCEPT ![p] = Interval]
         /\ pollDue' = RemoveFirst(pollDue, p)
    ELSE UNCHANGED <<wait, pollDue>>

\* pollDeviceProfile: a poll that fails reschedules the profile first.
PollDevice ==
    /\ polls # <<>> /\ poll = NoPoll /\ Head(polls) \in saved
    /\ \E answers \in BOOLEAN :
          LET p == Head(polls) ok == PollOK(p, answers) IN
          /\ poll' = [pc |-> "emit", of |-> p, answers |-> answers, ok |-> ok]
          /\ IF ok THEN UNCHANGED <<wait, pollDue>> ELSE Advance(p)
    /\ polls' = Tail(polls)
    /\ UNCHANGED <<checkDue, saved, round, full, faults, unseen>>

\* Connect fails: the client has no Conn to close, and the call of Close takes
\* the process down before the profile is rescheduled.
ConnectPanics ==
    /\ polls # <<>> /\ poll = NoPoll /\ Head(polls) \in saved
    /\ LoopsEnd /\ UNCHANGED faults

\* Its credentials cannot be read, as those of a profile that was deleted, or
\* give no client: nothing is emitted.
PollRefused ==
    /\ polls # <<>> /\ poll = NoPoll
    /\ Advance(Head(polls)) /\ polls' = Tail(polls)
    /\ UNCHANGED <<checkDue, saved, round, poll, full, faults, unseen>>

\* emitDevicePoll; a poll that succeeded reschedules the profile afterwards.
EmitPoll ==
    /\ poll # NoPoll /\ poll' = NoPoll
    /\ IF poll.ok THEN Advance(poll.of) ELSE UNCHANGED <<wait, pollDue>>
    /\ UNCHANGED <<checkDue, saved, round, polls, full, faults, unseen>>

\* It fails, and a poll that succeeded stays due.
EmitFails ==
    /\ poll # NoPoll /\ poll' = NoPoll /\ Fault
    /\ UNCHANGED <<wait, pollDue, checkDue, saved, round, polls, full, unseen>>

----------------------------------------------------------------------------

CheckStep == RunDue \/ StoreResult \/ StoreRefused \/ AllStored
             \/ IngestResult \/ IngestFails
PollStep == RunDueSNMP \/ PollDevice \/ PollRefused \/ EmitPoll
CollectionNext ==
    \/ TimePasses \/ Fill \/ Reclaim \/ ProcessStops
    \/ \E c \in Check : DeleteCheck(c) \/ SaveCheck(c)
    \/ \E p \in Profile : DeleteProfile(p) \/ SaveProfile(p)
    \/ CheckStep \/ StoreFails
    \/ PollStep \/ ConnectPanics \/ EmitFails

\* Time passes, the loops take their steps, and room is made on the disk.
Fairness == WF_collectionVars(TimePasses) /\ WF_collectionVars(Reclaim)
            /\ WF_collectionVars(CheckStep) /\ WF_collectionVars(PollStep)
CollectionSpec == CollectionInit /\ [][CollectionNext]_collectionVars /\ Fairness

----------------------------------------------------------------------------

(* StoredReachesRules: when a round of checks ends, every result stored in *)
(* it has been evaluated, except the ones that a failure of their own, a   *)
(* later one that was not stored (its schedule is gone, the statement      *)
(* fails) or the end of the process kept from the rules: a failing         *)
(* ingestion does not take the rest of the round with it.                  *)
StoredReachesRules == round.pc = "idle" => unseen = {}

(* EverySourceRuns: a due check or profile is run and rescheduled, unless  *)
(* it is deleted, although a round takes a bounded number of the due       *)
(* sources, all of them fall due again, a schedule that is gone fails the  *)
(* round and a profile may have no usable credentials. It is not said of a *)
(* node on which Connect fails again and again, each time taking the       *)
(* process down with the profile still first in the queue (server.go:614); *)
(* the other faults are finitely many (MaxFaults).                         *)
EverySourceRuns ==
    \/ []<><<ConnectPanics>>_collectionVars
    \/ \A s \in Source :
          (s \in saved /\ wait[s] = 0) ~> (s \notin saved \/ wait[s] > 0)

(* AnsweringDeviceIsUp: a scheduled poll of a device that answers emits    *)
(* snmp.poll_ok = 1.                                                       *)
AnsweringDeviceIsUp == poll # NoPoll => (poll.answers => poll.ok)

----------------------------------------------------------------------------
(* Inductive invariant: a result of this round that the rules have not seen *)
(* is still to be routed, and a round that stores or routes has something   *)
(* to store or route.                                                      *)
RoundInv ==
    /\ checkDue \in Seq(Check)
    /\ round \in [pc : {"idle", "store", "ingest"},
                  work : Seq(Check), results : Seq(Check)]
    /\ round.pc = "idle" => round.results = <<>>
    /\ round.pc = "store" => round.work # <<>> \/ round.results # <<>>
    /\ round.pc = "ingest" => round.results # <<>>
    /\ unseen \subseteq ToSet(round.results)

(* What the types rest on: a source that is not saved has no time to wait. *)
QueueInv ==
    /\ pollDue \in Seq(Profile) /\ polls \in Seq(Profile)
    /\ \A s \in Source \ saved : wait[s] = 0

=============================================================================
