------------------------------- MODULE Alerts -------------------------------
(***************************************************************************)
(* The alert pipeline of one rule: internal/rules/rules.go (evaluation and *)
(* acknowledgement), internal/notify/notify.go (queue and delivery),       *)
(* internal/incidents/incidents.go (links to alerts) and the alert and     *)
(* delivery categories of internal/retention/retention.go, run by the      *)
(* handlers and loops of internal/server.                                  *)
(*                                                                         *)
(* The database has one connection, so a transaction is one step; handlers,*)
(* the delivery loop and the retention loop interleave between them, and a *)
(* crash may come between any two. The only state a handler keeps is the   *)
(* alert it is to queue; a disabled rule is one that is not evaluated.     *)
(* Values are abstracted to how they compare with the rule: "high"         *)
(* breaches the threshold, "band" lies between the recovery threshold and  *)
(* the threshold, "low" is recovered.                                      *)
(***************************************************************************)
EXTENDS Integers, FiniteSets

CONSTANTS Handler,         \* goroutines that ingest observations
          Route,           \* the notification routes, all enabled
          Pass,            \* retention passes: the loop's, guardStorage's
          Rules,           \* the rule may be any of these
          Observations,    \* what may be observed
          Limit,           \* deliveries per worker pass
          AlertWindow,     \* retention of superseded and resolved alerts
          DeliveryWindow,  \* retention of delivered notifications
          MaxLate,         \* how old an observation may be
          MaxBusy,         \* how long after evaluating a handler queues
          MaxAlert,        \* bound: alert IDs
          MaxDelivery,     \* bound: delivery IDs
          MaxIncident,     \* bound: alerts linked to incidents
          MaxTime,         \* bound: the clock
          MaxCrash,        \* bound: crashes
          NoRow            \* "no such row"

RuleSettings == [duration : Nat, recovery : BOOLEAN,
                 missing : {"unknown", "healthy", "firing"}]

\* The value of an observation ("none": no value), and whether its quality is
\* good.
Observation == [level : {"high", "band", "low", "none"}, good : BOOLEAN]

ASSUME RulesAssumption        == Rules \subseteq RuleSettings
ASSUME ObservationsAssumption == Observations \subseteq Observation
ASSUME LimitAssumption        == Limit \in Nat \ {0}
\* A window of zero keeps the category forever; these are positive.
ASSUME WindowAssumption == AlertWindow \in Nat \ {0} /\ DeliveryWindow \in Nat \ {0}

ASSUME BoundsAssumption == {MaxLate, MaxBusy, MaxAlert, MaxDelivery, MaxTime,
                            MaxIncident, MaxCrash} \subseteq Nat

AlertId    == 1..MaxAlert
DeliveryId == 1..MaxDelivery
Time       == 0..MaxTime

Alert == [state : {"pending", "firing", "acknowledged", "suppressed",
                   "resolved"},
          opened : Time, updated : Time]

\* due: next_attempt_at has passed; at: delivered_at.
Delivery == [alert : AlertId, route : Route,
             state : {"pending", "retry", "delivered"},
             due : BOOLEAN, at : Time]

ASSUME NoRowAssumption == NoRow \notin Alert /\ NoRow \notin Delivery

VARIABLES now,          \* the clock
          rule,         \* the settings of the rule
          maintenance,  \* posts.maintenance
          alerts,       \* the alerts table
          deliveries,   \* the notification_deliveries table, by row ID
          incidents,    \* alerts linked to an incident
          handler,      \* the firing alert each handler is to queue, or 0,
                        \* and when it was evaluated
          worker,       \* DeliverDue: the rows it read and has not finished,
                        \* and whether the first of them was sent
          retention,    \* the category each retention pass is at
          notified,     \* history variable: the alerts that were sent, by
                        \* route, and whose sending is or will be on record
          crashes       \* history variable: crashes so far

tables == <<alerts, deliveries, incidents>>
vars == <<now, rule, maintenance, tables, handler, worker,
          retention, notified, crashes>>

NoPass  == [step |-> "idle", now |-> 0]
NoAlert == [alert |-> 0, since |-> 0]
NoItems == [items |-> {}, sent |-> FALSE]

TypeOK ==
    /\ now \in Time
    /\ rule \in RuleSettings
    /\ maintenance \in BOOLEAN
    /\ alerts \in [AlertId -> Alert \cup {NoRow}]
    /\ deliveries \in [DeliveryId -> Delivery \cup {NoRow}]
    /\ incidents \subseteq AlertId
    /\ handler \in [Handler -> [alert : 0..MaxAlert, since : Time]]
    /\ worker \in [items : SUBSET DeliveryId, sent : BOOLEAN]
    /\ retention \in [Pass -> [step : {"idle", "alerts", "deliveries"},
                              now : Time]]
    /\ notified \subseteq AlertId \X Route
    /\ crashes \in 0..MaxCrash

Init ==
    /\ now = 0
    /\ rule \in Rules
    /\ maintenance \in BOOLEAN
    /\ alerts = [a \in AlertId |-> NoRow]
    /\ deliveries = [i \in DeliveryId |-> NoRow]
    /\ incidents = {}
    /\ handler = [h \in Handler |-> NoAlert]
    /\ worker = NoItems
    /\ retention = [p \in Pass |-> NoPass]
    /\ notified = {}
    /\ crashes = 0

\* Requests are short: a handler that has evaluated goes on within MaxBusy.
Tick ==
    /\ now < MaxTime
    /\ \A h \in Handler : handler[h].alert # 0 => now - handler[h].since < MaxBusy
    /\ now' = now + 1
    /\ UNCHANGED <<rule, maintenance, tables, handler, worker,
                   retention, notified, crashes>>

\* posts.Update of the maintenance flag.
SetMaintenance ==
    /\ maintenance' = ~maintenance
    /\ UNCHANGED <<now, rule, tables, handler, worker, retention, notified,
                   crashes>>

----------------------------------------------------------------------------
(* Engine.Evaluate, as a function of the current (newest) alert row.       *)

Exists(a)  == alerts[a] # NoRow
CurrentId  == IF \E a \in AlertId : Exists(a)
              THEN CHOOSE a \in AlertId :
                     Exists(a) /\ \A b \in AlertId : Exists(b) => b <= a
              ELSE 0
CurrentState == IF CurrentId = 0 THEN "none" ELSE alerts[CurrentId].state

\* Defect: an acknowledged alert is not continued.
Unacknowledged == {"pending", "firing"}

OpenStates == {"pending", "firing", "acknowledged"}

\* Is the rule breached, before the current row is looked at?
Breached(o) == \/ o.good /\ o.level = "high"
               \/ (o.level = "none" \/ ~o.good) /\ rule.missing = "firing"

\* A firing alert with a recovery threshold stays breached until a value of
\* any quality has recovered.
StillBreached(o, c) ==
    IF o.level # "none" /\ rule.recovery /\ c.state \in {"firing", "acknowledged"}
    THEN o.level # "low"
    ELSE Breached(o)

FirstState(o) ==
    CASE ~Breached(o)                    -> "resolved"
      [] Breached(o) /\ maintenance      -> "suppressed"
      [] Breached(o) /\ ~maintenance     ->
            IF rule.duration = 0 THEN "firing" ELSE "pending"

NextState(o, at, c) ==
    LET b == StillBreached(o, c)
        revised == IF b /\ maintenance THEN "suppressed"
                   ELSE IF b /\ FirstState(o) = "resolved" THEN "pending"
                   ELSE FirstState(o)
    IN  IF b /\ c.state \in OpenStates
        THEN IF c.state = "pending" /\ at - c.opened >= rule.duration
             THEN "firing" ELSE c.state
        ELSE IF ~b /\ c.state = "resolved" THEN "resolved" ELSE revised

\* The state that is returned, and whether it is inserted as a new row with
\* this opening time.
Verdict(o, at) ==
    IF CurrentId = 0
    THEN [state |-> FirstState(o), opened |-> at,
          insert |-> Breached(o)]
    ELSE LET c == alerts[CurrentId] IN
         [state  |-> NextState(o, at, c),
          opened |-> IF StillBreached(o, c) THEN c.opened ELSE at,
          insert |-> NextState(o, at, c) # c.state]

\* Defect: a notification is queued for every breach.
QueueBreach(v) == v.state # "resolved"

\* The alert that was returned fires, whether or not it did before.
MustQueue(v) == v.state = "firing"

\* The observation has been stored, perhaps some time ago, the rule is among
\* the enabled ones, and one transaction evaluates it. The handler goes on to
\* queue a firing alert.
Evaluate(h, o, at) ==
    LET v  == Verdict(o, at)
        id == IF v.insert THEN CurrentId + 1 ELSE CurrentId
    IN  /\ handler[h].alert = 0
        /\ id <= MaxAlert
        /\ alerts' = IF v.insert
                     THEN [alerts EXCEPT ![id] = [state   |-> v.state,
                                                  opened  |-> v.opened,
                                                  updated |-> at]]
                     ELSE alerts
        /\ handler' = [handler EXCEPT ![h] =
                         IF MustQueue(v) THEN [alert |-> id, since |-> now]
                                         ELSE NoAlert]
        /\ UNCHANGED <<now, rule, maintenance, deliveries, incidents, worker,
                       retention, notified, crashes>>

\* Engine.Acknowledge, of any alert that a client has seen.
Acknowledge(a) ==
    /\ Exists(a) /\ alerts[a].state = "firing"
    /\ alerts' = [alerts EXCEPT ![a] = [state |-> "acknowledged",
                                        opened |-> @.opened,
                                        updated |-> now]]
    /\ UNCHANGED <<now, rule, maintenance, deliveries, incidents,
                   handler, worker, retention, notified, crashes>>

\* incidents.Create links an alert. A conversation that cites one pins it in the
\* same way and is not told apart.
LinkIncident(a) ==
    /\ Exists(a) /\ Cardinality(incidents) < MaxIncident
    /\ incidents' = incidents \cup {a}
    /\ UNCHANGED <<now, rule, maintenance, alerts, deliveries,
                   handler, worker, retention, notified, crashes>>

----------------------------------------------------------------------------
(* notify.Service                                                          *)

Stored(i)   == deliveries[i] # NoRow
Queued(a, r) == \E i \in DeliveryId :
                   Stored(i) /\ deliveries[i].alert = a /\ deliveries[i].route = r

\* The highest row ID in use; like alert IDs, they are given out again once
\* retention has removed the newest rows.
LastDelivery == IF \E i \in DeliveryId : Stored(i)
                THEN CHOOSE i \in DeliveryId :
                       Stored(i) /\ \A j \in DeliveryId : Stored(j) => j <= i
                ELSE 0

NewDelivery(a, r) == [alert |-> a, route |-> r, state |-> "pending",
                      due |-> TRUE, at |-> 0]

\* INSERT OR IGNORE for every route, in the order of the routes table.
InsertRows(a) ==
    LET missing == {r \in Route : ~Queued(a, r)}
        n       == Cardinality(missing)
    IN  /\ LastDelivery + n <= MaxDelivery
        /\ \E order \in [1..n -> missing] :
              /\ \A i, j \in 1..n : order[i] = order[j] => i = j
              /\ deliveries' = [i \in DeliveryId |->
                                   IF i - LastDelivery \in 1..n
                                   THEN NewDelivery(a, order[i - LastDelivery])
                                   ELSE deliveries[i]]

\* Service.Queue; an error (the alert is gone) is ignored.
Queue(h) ==
    LET a == handler[h].alert IN
    /\ a # 0
    /\ \/ Exists(a) /\ InsertRows(a)
       \/ ~Exists(a) /\ UNCHANGED deliveries
    /\ handler' = [handler EXCEPT ![h] = NoAlert]
    /\ UNCHANGED <<now, rule, maintenance, alerts, incidents,
                   worker, retention, notified, crashes>>

\* Defect: a delivery that failed is not tried again.
DueOnce == {i \in DeliveryId :
              Stored(i) /\ deliveries[i].state = "pending" /\ deliveries[i].due}

\* Service.DeliverDue reads what is due, oldest rows first, ...
DueRows ==
    LET due == {i \in DeliveryId : /\ Stored(i) /\ deliveries[i].due
                                   /\ deliveries[i].state \in {"pending", "retry"}}
    IN  {i \in due : Cardinality({j \in due : j < i}) < Limit}

ReadDue ==
    /\ worker.items = {} /\ DueRows # {}
    /\ worker' = [items |-> DueRows, sent |-> FALSE]
    /\ UNCHANGED <<now, rule, maintenance, tables, handler,
                   retention, notified, crashes>>

Item == CHOOSE i \in worker.items : \A j \in worker.items : i <= j

\* What a row is about.
Subject(i) == <<deliveries[i].alert, deliveries[i].route>>

\* ... sends one notification, ...
Send ==
    /\ worker.items # {} /\ ~worker.sent
    /\ worker' = [worker EXCEPT !.sent = TRUE]
    /\ notified' = notified \cup {Subject(Item)}
    /\ UNCHANGED <<now, rule, maintenance, tables, handler, retention, crashes>>

\* Defect: the state is not written.
UpdateTimes(i, state, at) == [deliveries EXCEPT ![i].at = at]

Update(i, state, at) ==
    [deliveries EXCEPT ![i].state = state, ![i].due = FALSE, ![i].at = at]

NextItem == [items |-> worker.items \ {Item}, sent |-> FALSE]

\* ... and records that, or
MarkDelivered ==
    /\ worker.items # {} /\ worker.sent
    /\ deliveries' = Update(Item, "delivered", now)
    /\ worker' = NextItem
    /\ UNCHANGED <<now, rule, maintenance, alerts, incidents,
                   handler, retention, notified, crashes>>

\* goes on without, for the error of that statement is ignored and the row
\* stays due, or records
RecordLost ==
    /\ worker.items # {} /\ worker.sent
    /\ notified' = notified \ {Subject(Item)}
    /\ worker' = NextItem
    /\ UNCHANGED <<now, rule, maintenance, tables, handler, retention, crashes>>

\* the failure, with a later next attempt (capped exponential backoff), which
\* may be lost in the same way.
SendFails ==
    /\ worker.items # {} /\ ~worker.sent
    /\ \/ deliveries' = Update(Item, "retry", 0)
       \/ UNCHANGED deliveries
    /\ worker' = NextItem
    /\ UNCHANGED <<now, rule, maintenance, alerts, incidents,
                   handler, retention, notified, crashes>>

BackoffElapses(i) ==
    /\ Stored(i) /\ deliveries[i].state = "retry" /\ ~deliveries[i].due
    /\ deliveries' = [deliveries EXCEPT ![i].due = TRUE]
    /\ UNCHANGED <<now, rule, maintenance, alerts, incidents,
                   handler, worker, retention, notified, crashes>>

----------------------------------------------------------------------------
(* retention.Store.RunOnce: the categories that touch these tables.  Every *)
(* category is one statement, with the cutoff of the start of the pass.    *)

StartRetention(p) ==
    /\ retention[p].step = "idle"
    /\ retention' = [retention EXCEPT ![p] = [step |-> "alerts", now |-> now]]
    /\ UNCHANGED <<now, rule, maintenance, tables, handler, worker,
                   notified, crashes>>

Prunable(a, t) ==
    /\ Exists(a) /\ alerts[a].updated < t - AlertWindow
    /\ alerts[a].state # "resolved" => a # CurrentId
    /\ a \notin incidents

PruneAlerts(p) ==
    LET old == {a \in AlertId : Prunable(a, retention[p].now)} IN
    /\ retention[p].step = "alerts"
    /\ \A i \in DeliveryId : Stored(i) => deliveries[i].alert \notin old
    /\ retention' = [retention EXCEPT ![p].step = "deliveries"]
    /\ alerts' = [a \in AlertId |-> IF a \in old THEN NoRow ELSE alerts[a]]
    /\ UNCHANGED <<now, rule, maintenance, deliveries, incidents,
                   handler, worker, notified, crashes>>

\* A delivery that refers to one of the rows fails the statement (foreign
\* keys are on and it does not cascade), and that ends the pass.
PruneAlertsFails(p) ==
    /\ retention[p].step = "alerts"
    /\ \E i \in DeliveryId :
          Stored(i) /\ Prunable(deliveries[i].alert, retention[p].now)
    /\ retention' = [retention EXCEPT ![p] = NoPass]
    /\ UNCHANGED <<now, rule, maintenance, tables, handler, worker,
                   notified, crashes>>

Finished(i, t) == /\ Stored(i) /\ deliveries[i].state = "delivered"
                  /\ deliveries[i].at < t - DeliveryWindow

PruneDeliveries(p) ==
    /\ retention[p].step = "deliveries"
    /\ deliveries' = [i \in DeliveryId |->
                        IF Finished(i, retention[p].now) THEN NoRow
                                                         ELSE deliveries[i]]
    /\ notified' = notified \ {Subject(i) : i \in
                        {j \in DeliveryId : Finished(j, retention[p].now)}}
    /\ retention' = [retention EXCEPT ![p] = NoPass]
    /\ UNCHANGED <<now, rule, maintenance, alerts, incidents,
                   handler, worker, crashes>>

----------------------------------------------------------------------------
\* The process ends between any two steps and is started again.
Crash ==
    /\ crashes < MaxCrash
    /\ crashes' = crashes + 1
    /\ handler' = [h \in Handler |-> NoAlert]
    /\ worker' = NoItems
    /\ retention' = [p \in Pass |-> NoPass]
    /\ notified' = IF worker.sent THEN notified \ {Subject(Item)} ELSE notified
    /\ UNCHANGED <<now, rule, maintenance, tables>>

Deliver == ReadDue \/ Send \/ MarkDelivered \/ RecordLost \/ SendFails

EvaluateAny(h) ==
    \E o \in Observations, at \in ((now - MaxLate)..now) \cap Time : Evaluate(h, o, at)

Next ==
    \/ Tick \/ SetMaintenance \/ Crash
    \/ \E h \in Handler : EvaluateAny(h) \/ Queue(h)
    \/ \E a \in AlertId : Acknowledge(a) \/ LinkIncident(a)
    \/ Deliver
    \/ \E i \in DeliveryId : BackoffElapses(i)
    \/ \E p \in Pass : \/ StartRetention(p) \/ PruneAlerts(p)
                        \/ PruneAlertsFails(p) \/ PruneDeliveries(p)

Spec == Init /\ [][Next]_vars

\* Handlers, the delivery loop and the retention loop run, backoffs elapse,
\* and a destination that is tried again and again accepts eventually.
FairSpec ==
    /\ Spec
    /\ \A h \in Handler : WF_vars(Queue(h))
    /\ WF_vars(Deliver) /\ SF_vars(Send)
    /\ WF_vars(\E i \in DeliveryId : BackoffElapses(i))
    /\ \A p \in Pass : /\ WF_vars(StartRetention(p))
                       /\ WF_vars(PruneAlerts(p) \/ PruneAlertsFails(p))
                       /\ WF_vars(PruneDeliveries(p))

----------------------------------------------------------------------------
(* Properties *)

\* An alert is sent to a route once, although every evaluation of it queues it
\* again and several handlers may. It is sent again only when the record of the
\* sending is missing: the process ended or the UPDATE failed after the send,
\* or retention has removed the delivered row of an alert that still fires
\* (Queue, DeliverDue, RunOnce). Each of these makes for one more.
NotifiedOnce == [][Send => Subject(Item) \notin notified]_vars

\* Two alerts of the rule that both fired have a resolution between them, or
\* rows that retention removed: whatever is observed, in whatever order, and
\* whenever maintenance begins or somebody acknowledges, one episode does not
\* fire twice (Evaluate, Acknowledge). A rule that takes bad quality
\* for a breach and has a recovery threshold is left out: there a recovered
\* value of bad quality opens a new alert.
ResolvedBetweenFirings ==
    ~(rule.recovery /\ rule.missing = "firing") =>
    \A a, b \in AlertId :
        (/\ a < b /\ Exists(a) /\ Exists(b)
         /\ {alerts[a].state, alerts[b].state} \subseteq {"firing", "acknowledged"})
        => \E c \in a..b : ~Exists(c) \/ alerts[c].state = "resolved"

\* Every delivery is of an alert that exists and has fired, and those that the
\* worker has read stay until it records the outcome, so that the message names
\* the alert it is about. IDs are given out again, so this depends on a handler
\* queueing before retention can remove what was inserted after its evaluation
\* (Queue, DeliverDue, RunOnce).
DeliveriesHaveAlerts ==
    /\ \A i \in DeliveryId : Stored(i) =>
          LET a == deliveries[i].alert IN
          Exists(a) /\ alerts[a].state \in {"firing", "acknowledged"}
    /\ \A i \in worker.items : Stored(i)

\* An alert that keeps firing while observations keep being evaluated is
\* sent to every route, although the process may crash between evaluating and
\* queueing, a destination or a record of it may fail and retention runs
\* (handleCollectorBatch, Queue, DeliverDue).
FiringReachesRoutes ==
    \A a \in AlertId :
        (/\ <>[](CurrentState = "firing" /\ CurrentId = a)
         /\ []<><<\E h \in Handler : EvaluateAny(h)>>_vars)
        => \A r \in Route : <>(<<a, r>> \in notified)

----------------------------------------------------------------------------
(* The invariants from which these follow for every instance.              *)

Fired == {"firing", "acknowledged"}

\* The alert that a handler is to queue has fired, or is gone while a later one
\* keeps its ID from being given out again: what was inserted since its
\* evaluation is too recent for retention.
HandlerInv ==
    \A h \in Handler : handler[h].alert # 0 =>
        /\ handler[h].since <= now /\ now - handler[h].since <= MaxBusy
        /\ \A b \in AlertId :
              (b > handler[h].alert /\ Exists(b))
              => alerts[b].updated >= handler[h].since - MaxLate
        /\ Exists(handler[h].alert) => alerts[handler[h].alert].state \in Fired
        /\ ~Exists(handler[h].alert)
              => \E b \in AlertId : b > handler[h].alert /\ Exists(b)

RetentionInv == \A p \in Pass : retention[p].now <= now

\* An alert that fired is followed by its resolution.
EpisodeInv ==
    ~(rule.recovery /\ rule.missing = "firing") =>
    \A a, b \in AlertId :
        (b = a + 1 /\ Exists(a) /\ Exists(b) /\ alerts[a].state \in Fired)
        => alerts[b].state = "resolved"

\* What the worker has read and not finished is stored and was not delivered.
WorkerInv ==
    /\ \A i \in worker.items : /\ Stored(i)
                               /\ deliveries[i].state \in {"pending", "retry"}
    /\ worker.sent => worker.items # {}

\* A sending that is or will be on record is that of a delivered row, or of the
\* one the worker has just sent; and an alert has one row per route.
SentInv ==
    \A n \in notified : \E i \in DeliveryId :
        /\ Stored(i) /\ Subject(i) = n
        /\ deliveries[i].state = "delivered" \/ (worker.sent /\ i = Item)

Unique == \A i, j \in DeliveryId :
             Stored(i) /\ Stored(j) /\ Subject(i) = Subject(j) => i = j

=============================================================================
