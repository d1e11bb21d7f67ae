--------------------------- MODULE Alerts_proofs ---------------------------
(***************************************************************************)
(* What holds of the alert pipeline for every set of handlers, routes and  *)
(* retention passes, every rule and every window and bound; and, at the    *)
(* end, of the checks and polls whose results the rules evaluate.          *)
(***************************************************************************)
EXTENDS Alerts, Collection, SequenceTheorems, FiniteSetTheorems,
        WellFoundedInduction, TLAPS

----------------------------------------------------------------------------
(* Row identifiers *)

LEMMA Constants ==
    /\ MaxLate \in Nat /\ MaxBusy \in Nat /\ MaxAlert \in Nat /\ MaxDelivery \in Nat
    /\ MaxTime \in Nat /\ MaxIncident \in Nat /\ MaxCrash \in Nat
    /\ AlertWindow \in Nat /\ DeliveryWindow \in Nat /\ Limit \in Nat
BY BoundsAssumption, WindowAssumption, LimitAssumption

LEMMA StrictlyAbove ==
    ASSUME NEW x \in Int, NEW y \in Int, x # y, x <= y PROVE y > x
OBVIOUS

LEMMA Smallest ==
    ASSUME NEW S \in SUBSET Nat, S # {}
    PROVE  \E x \in S : \A y \in S : x <= y
<1> DEFINE R == OpToRel(<, Nat)
<1>1. \A y, z \in Nat : y < z => <<y, z>> \in R
  BY DEF OpToRel
<1>2. IsWellFoundedOn(R, Nat)
  BY NatLessThanWellFounded
<1> HIDE DEF R
<1>3. \E x \in S : \A y \in S : ~(<<y, x>> \in R)
  BY <1>2, WFMin
<1>4. PICK x \in S : \A y \in S : ~(<<y, x>> \in R)
  BY <1>3
<1>5. \A y \in S : ~(y < x)
  BY <1>1, <1>4
<1> QED
  BY <1>5

LEMMA Largest ==
    ASSUME NEW N \in Nat, NEW S \in SUBSET (1..N), S # {}
    PROVE  \E x \in S : \A y \in S : y <= x
<1> DEFINE T == {n \in 0..N : N - n \in S}
<1>1. \A x \in S : N - x \in T
  OBVIOUS
<1>2. T \in SUBSET Nat /\ T # {}
  <2>1. PICK x \in S : TRUE
    OBVIOUS
  <2>2. N - x \in T
    BY <1>1
  <2>3. T \in SUBSET Nat
    OBVIOUS
  <2> QED
    BY <2>2, <2>3
<1>3. PICK n \in T : \A m \in T : n <= m
  BY <1>2, Smallest
<1>4. N - n \in S /\ \A y \in S : y <= N - n
  <2> SUFFICES ASSUME NEW y \in S PROVE y <= N - n
    BY <1>3
  <2>1. n <= N - y
    BY <1>1, <1>3
  <2> QED
    BY <2>1, <1>3
<1> QED
  BY <1>4

\* What CurrentId chooses.
LEMMA CurrentFacts ==
    /\ CurrentId \in 0..MaxAlert
    /\ \A b \in AlertId : Exists(b) => b <= CurrentId
    /\ CurrentId # 0 => CurrentId \in AlertId /\ Exists(CurrentId)
<1> DEFINE S == {a \in AlertId : Exists(a)}
<1>1. CASE S = {}
  BY <1>1, Constants DEF CurrentId
<1>2. CASE S # {}
  <2>1. S \in SUBSET (1..MaxAlert)
    BY DEF AlertId
  <2>2. \E a \in S : \A b \in S : b <= a
    BY <1>2, <2>1, Constants, Largest
  <2>3. \E a \in AlertId : Exists(a) /\ \A b \in AlertId : Exists(b) => b <= a
    BY <2>2
  <2>4. /\ CurrentId \in AlertId /\ Exists(CurrentId)
        /\ \A b \in AlertId : Exists(b) => b <= CurrentId
    BY <2>3 DEF CurrentId
  <2> QED
    BY <2>4, Constants DEF AlertId
<1> QED
  BY <1>1, <1>2

\* Rows are inserted above the ones that are there.
LEMMA LastFacts ==
    /\ LastDelivery \in 0..MaxDelivery
    /\ \A i \in DeliveryId : Stored(i) => i <= LastDelivery
<1> DEFINE S == {a \in DeliveryId : Stored(a)}
<1>1. CASE S = {}
  BY <1>1, Constants DEF LastDelivery
<1>2. CASE S # {}
  <2>1. S \in SUBSET (1..MaxDelivery)
    BY DEF DeliveryId
  <2>2. \E a \in S : \A b \in S : b <= a
    BY <1>2, <2>1, Constants, Largest
  <2>3. \E a \in DeliveryId : Stored(a) /\ \A b \in DeliveryId : Stored(b) => b <= a
    BY <2>2
  <2>4. /\ LastDelivery \in DeliveryId
        /\ \A b \in DeliveryId : Stored(b) => b <= LastDelivery
    BY <2>3 DEF LastDelivery
  <2> QED
    BY <2>4, Constants DEF DeliveryId
<1> QED
  BY <1>1, <1>2

LEMMA ItemFacts ==
    ASSUME TypeOK, worker.items # {}
    PROVE  Item \in worker.items /\ Item \in DeliveryId
<1>1. worker.items \in SUBSET Nat /\ worker.items \subseteq DeliveryId
  BY DEF TypeOK, DeliveryId
<1>2. \E i \in worker.items : \A j \in worker.items : i <= j
  BY <1>1, Smallest
<1> QED
  BY <1>1, <1>2 DEF Item

----------------------------------------------------------------------------
(* What the steps do *)

States == {"pending", "firing", "acknowledged", "suppressed", "resolved"}

LEMMA AlertRows ==
    ASSUME TypeOK, NEW a \in AlertId
    PROVE  /\ Exists(a) => alerts[a] \in Alert
           /\ \A r \in Alert : r # NoRow
BY NoRowAssumption DEF TypeOK, Exists

LEMMA DeliveryRows ==
    ASSUME TypeOK, NEW i \in DeliveryId
    PROVE  /\ Stored(i) => deliveries[i] \in Delivery
           /\ \A d \in Delivery : d # NoRow
BY NoRowAssumption DEF TypeOK, Stored

\* What an evaluation returns and whether it inserts a row: an alert that has
\* fired is followed by a resolution and by nothing else.
LEMMA VerdictFacts ==
    ASSUME TypeOK, NEW o \in Observation, NEW at \in Time
    PROVE  /\ Verdict(o, at).state \in States
           /\ Verdict(o, at).opened \in Time
           /\ Verdict(o, at).insert \in BOOLEAN
           /\ (~Verdict(o, at).insert /\ CurrentId = 0)
                 => Verdict(o, at).state = "resolved"
           /\ (~Verdict(o, at).insert /\ CurrentId # 0)
                 => Verdict(o, at).state = alerts[CurrentId].state
           /\ (/\ Verdict(o, at).insert /\ CurrentId # 0
               /\ alerts[CurrentId].state \in Fired
               /\ ~(rule.recovery /\ rule.missing = "firing"))
                 => Verdict(o, at).state = "resolved"
<1>1. /\ o.level \in {"high", "band", "low", "none"} /\ o.good \in BOOLEAN
      /\ rule.recovery \in BOOLEAN /\ rule.duration \in Nat
      /\ maintenance \in BOOLEAN
  BY DEF TypeOK, Observation, RuleSettings
<1>2. FirstState(o) \in States /\ (~Breached(o) => FirstState(o) = "resolved")
  BY <1>1 DEF FirstState, Breached, States
<1>3. CASE CurrentId = 0
  BY <1>1, <1>2, <1>3 DEF Verdict, Breached
<1>4. CASE CurrentId # 0
  <2> PICK c : c = alerts[CurrentId]
    OBVIOUS
  <2>1. c \in Alert
    BY <1>4, CurrentFacts, AlertRows
  <2>2. c.state \in States /\ c.opened \in Time
    BY <2>1 DEF Alert, States
  <2>3. NextState(o, at, c) \in States
    BY <1>2, <2>2 DEF NextState, States
  <2>4. ASSUME c.state \in Fired, NextState(o, at, c) # c.state,
               ~(rule.recovery /\ rule.missing = "firing")
        PROVE  NextState(o, at, c) = "resolved"
    <3>1. c.state \in OpenStates /\ c.state # "pending" /\ c.state # "resolved"
      BY <2>4 DEF Fired, OpenStates
    <3>2. ~StillBreached(o, c)
      BY <2>4, <3>1 DEF NextState
    <3>3. ~Breached(o)
      BY <1>1, <2>4, <3>2 DEF StillBreached, Breached, Fired
    <3> QED
      BY <1>2, <3>1, <3>2, <3>3 DEF NextState
  <2>5. Verdict(o, at) = [state  |-> NextState(o, at, c),
                          opened |-> IF StillBreached(o, c) THEN c.opened ELSE at,
                          insert |-> NextState(o, at, c) # c.state]
    BY <1>4 DEF Verdict
  <2>6. /\ Verdict(o, at).state = NextState(o, at, c)
        /\ Verdict(o, at).insert = (NextState(o, at, c) # c.state)
    BY <2>5
  <2>7. Verdict(o, at).opened \in Time
    BY <2>2, <2>5
  <2> QED
    BY <1>4, <2>3, <2>4, <2>6, <2>7
<1> QED
  BY <1>3, <1>4

\* An evaluation leaves the table alone, or inserts one row above the others.
LEMMA EvaluateFacts ==
    ASSUME TypeOK, NEW h \in Handler, EvaluateAny(h)
    PROVE  /\ UNCHANGED <<now, rule, maintenance, deliveries, incidents, worker,
                          retention, notified, crashes>>
           /\ handler[h].alert = 0
           /\ \/ /\ alerts' = alerts
                 /\ handler' = [handler EXCEPT ![h] = NoAlert]
              \/ /\ alerts' = alerts /\ CurrentId # 0
                 /\ alerts[CurrentId].state = "firing"
                 /\ handler' = [handler EXCEPT ![h] = [alert |-> CurrentId,
                                                       since |-> now]]
              \/ \E row \in Alert :
                    /\ CurrentId + 1 \in AlertId
                    /\ row.updated >= now - MaxLate
                    /\ alerts' = [alerts EXCEPT ![CurrentId + 1] = row]
                    /\ handler' = [handler EXCEPT ![h] =
                                     IF row.state = "firing"
                                     THEN [alert |-> CurrentId + 1, since |-> now]
                                     ELSE NoAlert]
                    /\ (/\ CurrentId # 0 /\ alerts[CurrentId].state \in Fired
                        /\ ~(rule.recovery /\ rule.missing = "firing"))
                          => row.state = "resolved"
<1>1. PICK o \in Observations, at \in ((now - MaxLate)..now) \cap Time :
         Evaluate(h, o, at)
  BY DEF EvaluateAny
<1>2. o \in Observation /\ at \in Time /\ at >= now - MaxLate
  BY <1>1, ObservationsAssumption, Constants DEF Time, TypeOK
<1> PICK v : v = Verdict(o, at)
  OBVIOUS
<1> PICK row : row = [state |-> v.state, opened |-> v.opened, updated |-> at]
  OBVIOUS
<1>3. /\ v.state \in States /\ v.opened \in Time /\ v.insert \in BOOLEAN
      /\ (~v.insert /\ CurrentId = 0) => v.state = "resolved"
      /\ (~v.insert /\ CurrentId # 0) => v.state = alerts[CurrentId].state
      /\ (/\ v.insert /\ CurrentId # 0 /\ alerts[CurrentId].state \in Fired
          /\ ~(rule.recovery /\ rule.missing = "firing"))
           => v.state = "resolved"
  BY <1>2, VerdictFacts
<1>4. /\ handler[h].alert = 0
      /\ UNCHANGED <<now, rule, maintenance, deliveries, incidents, worker,
                     retention, notified, crashes>>
  BY <1>1 DEF Evaluate
<1>5. CASE v.insert
  <2>1. /\ CurrentId + 1 <= MaxAlert
        /\ alerts' = [alerts EXCEPT ![CurrentId + 1] = row]
        /\ handler' = [handler EXCEPT ![h] =
                         IF v.state = "firing"
                         THEN [alert |-> CurrentId + 1, since |-> now]
                         ELSE NoAlert]
    BY <1>1, <1>5 DEF Evaluate, MustQueue
  <2>2. row \in Alert /\ row.state = v.state /\ row.updated = at
    BY <1>2, <1>3 DEF Alert, States
  <2>3. CurrentId + 1 \in AlertId
    BY <2>1, CurrentFacts, Constants DEF AlertId
  <2> QED
    BY <1>2, <1>3, <1>4, <1>5, <2>1, <2>2, <2>3
<1>6. CASE ~v.insert
  <2>1. /\ alerts' = alerts
        /\ handler' = [handler EXCEPT ![h] =
                         IF v.state = "firing"
                         THEN [alert |-> CurrentId, since |-> now]
                         ELSE NoAlert]
    BY <1>1, <1>6 DEF Evaluate, MustQueue
  <2> QED
    BY <1>3, <1>4, <1>6, <2>1
<1> QED
  BY <1>3, <1>5, <1>6

\* The rows that an INSERT OR IGNORE adds are new, one for each route that the
\* alert had none for.
LEMMA InsertFacts ==
    ASSUME TypeOK, NEW a \in AlertId, InsertRows(a)
    PROVE  /\ deliveries' \in [DeliveryId -> Delivery \cup {NoRow}]
           /\ \A i \in DeliveryId :
                 \/ deliveries'[i] = deliveries[i]
                 \/ /\ ~Stored(i)
                    /\ \E r \in Route : ~Queued(a, r) /\ deliveries'[i] = NewDelivery(a, r)
           /\ \A i, j \in DeliveryId :
                 (/\ ~Stored(i) /\ ~Stored(j) /\ deliveries'[i] # NoRow
                  /\ deliveries'[j] = deliveries'[i]) => i = j
<1> DEFINE missing == {r \in Route : ~Queued(a, r)}
<1> PICK n : n = Cardinality(missing)
  OBVIOUS
<1>1. PICK order \in [1..n -> missing] :
         /\ \A i, j \in 1..n : order[i] = order[j] => i = j
         /\ deliveries' = [i \in DeliveryId |->
                              IF i - LastDelivery \in 1..n
                              THEN NewDelivery(a, order[i - LastDelivery])
                              ELSE deliveries[i]]
  BY DEF InsertRows
<1> PICK l : l = LastDelivery
  OBVIOUS
<1>2. l \in 0..MaxDelivery /\ \A i \in DeliveryId : Stored(i) => i <= l
  BY LastFacts
<1>3. \A r \in Route : NewDelivery(a, r) \in Delivery /\ NewDelivery(a, r).route = r
  BY Constants DEF NewDelivery, Delivery, Time
<1>4. \A i \in DeliveryId : i - l \in 1..n =>
         /\ order[i - l] \in missing
         /\ deliveries'[i] = NewDelivery(a, order[i - l])
         /\ deliveries'[i].route = order[i - l]
  BY <1>1, <1>3
<1>5. \A i \in DeliveryId : i - l \notin 1..n => deliveries'[i] = deliveries[i]
  BY <1>1
<1>6. \A i \in DeliveryId : i - l \in 1..n => ~Stored(i)
  BY <1>2, Constants DEF DeliveryId
<1>7. deliveries' \in [DeliveryId -> Delivery \cup {NoRow}]
  BY <1>1, <1>3, <1>4 DEF TypeOK
<1>8. ASSUME NEW i \in DeliveryId, NEW j \in DeliveryId, ~Stored(i), ~Stored(j),
             deliveries'[i] # NoRow, deliveries'[j] = deliveries'[i]
      PROVE  i = j
  <2>1. i - l \in 1..n /\ j - l \in 1..n
    BY <1>5, <1>8 DEF Stored
  <2>2. order[i - l] = order[j - l]
    BY <1>4, <1>8, <2>1
  <2>3. i - l = j - l
    BY <1>1, <2>1, <2>2
  <2> QED
    BY <1>2, <2>3, Constants DEF DeliveryId
<1>9. ASSUME NEW i \in DeliveryId
      PROVE  \/ deliveries'[i] = deliveries[i]
             \/ /\ ~Stored(i)
                /\ \E r \in Route : ~Queued(a, r) /\ deliveries'[i] = NewDelivery(a, r)
  BY <1>4, <1>5, <1>6
<1> QED
  BY <1>7, <1>8, <1>9

LEMMA UpdateFacts ==
    ASSUME TypeOK, NEW i \in DeliveryId, Stored(i),
           NEW st \in {"pending", "retry", "delivered"}, NEW t \in Time
    PROVE  \E d \in Delivery :
              /\ Update(i, st, t) = [deliveries EXCEPT ![i] = d]
              /\ d.state = st /\ d.alert = deliveries[i].alert
              /\ d.route = deliveries[i].route
<1>1. deliveries[i] \in Delivery
  BY DeliveryRows
<1> DEFINE d == [deliveries[i] EXCEPT !.state = st, !.due = FALSE, !.at = t]
<1>2. /\ d \in Delivery /\ d.state = st /\ d.alert = deliveries[i].alert
      /\ d.route = deliveries[i].route
  BY <1>1 DEF Delivery
<1>3. Update(i, st, t) = [deliveries EXCEPT ![i] = d]
  BY <1>1 DEF Update, TypeOK, Delivery
<1> QED
  BY <1>2, <1>3

\* What MarkDelivered, SendFails and BackoffElapses do to the table: at most one
\* row changes, and keeps its alert and route.
LEMMA RecordFacts ==
    ASSUME TypeOK, WorkerInv, MarkDelivered \/ RecordLost \/ SendFails
    PROVE  /\ Item \in worker.items /\ Item \in DeliveryId
           /\ \E d \in Delivery :
                /\ deliveries' = [deliveries EXCEPT ![Item] = d]
                /\ d.state = "delivered" \/ ~MarkDelivered
                /\ d.alert = deliveries[Item].alert /\ d.route = deliveries[Item].route
           /\ worker' = [items |-> worker.items \ {Item}, sent |-> FALSE]
           /\ UNCHANGED <<now, rule, maintenance, alerts, incidents, handler,
                          retention, crashes>>
<1> PICK i : i = Item
  OBVIOUS
<1>1. i \in DeliveryId /\ Stored(i) /\ i \in worker.items
  BY ItemFacts DEF MarkDelivered, RecordLost, SendFails, WorkerInv
<1>2. now \in Time /\ 0 \in Time
  BY Constants DEF TypeOK, Time
<1>3. CASE MarkDelivered
  BY <1>1, <1>2, <1>3, UpdateFacts DEF MarkDelivered, NextItem
<1>4. ASSUME deliveries' = deliveries, RecordLost \/ SendFails
      PROVE  \E d \in Delivery :
                /\ deliveries' = [deliveries EXCEPT ![i] = d]
                /\ d.state = "delivered" \/ ~MarkDelivered
                /\ d.alert = deliveries[i].alert /\ d.route = deliveries[i].route
  <2>1. deliveries[i] \in Delivery /\ deliveries' = [deliveries EXCEPT ![i] = deliveries[i]]
    BY <1>1, <1>4, DeliveryRows DEF TypeOK
  <2>2. ~MarkDelivered
    <3>1. CASE SendFails
      BY <3>1 DEF SendFails, MarkDelivered
    <3>2. CASE RecordLost /\ MarkDelivered
      <4>1. deliveries'[i] = deliveries[i] /\ deliveries[i].state # "delivered"
        BY <1>1, <1>4 DEF WorkerInv
      <4>2. PICK d \in Delivery : /\ deliveries' = [deliveries EXCEPT ![i] = d]
                                  /\ d.state = "delivered"
        BY <1>1, <1>2, <3>2, UpdateFacts DEF MarkDelivered
      <4> QED
        BY <1>1, <4>1, <4>2 DEF TypeOK
    <3> QED
      BY <1>4, <3>1, <3>2
  <2> QED
    BY <2>1, <2>2
<1>5. CASE SendFails /\ deliveries' # deliveries
  BY <1>1, <1>2, <1>5, UpdateFacts DEF SendFails, MarkDelivered, NextItem
<1>6. CASE RecordLost \/ (SendFails /\ deliveries' = deliveries)
  BY <1>1, <1>4, <1>6 DEF RecordLost, SendFails, NextItem, tables
<1> QED
  BY <1>3, <1>5, <1>6

LEMMA BackoffFacts ==
    ASSUME TypeOK, NEW i \in DeliveryId, BackoffElapses(i)
    PROVE  /\ Stored(i)
           /\ \E d \in Delivery :
                /\ deliveries' = [deliveries EXCEPT ![i] = d]
                /\ d.state = deliveries[i].state /\ d.alert = deliveries[i].alert
                /\ d.route = deliveries[i].route
           /\ UNCHANGED <<now, rule, maintenance, alerts, incidents, handler,
                          worker, retention, notified, crashes>>
<1>1. Stored(i) /\ deliveries[i] \in Delivery
  BY DeliveryRows DEF BackoffElapses
<1> DEFINE d == [deliveries[i] EXCEPT !.due = TRUE]
<1>2. /\ d \in Delivery /\ d.state = deliveries[i].state
      /\ d.alert = deliveries[i].alert /\ d.route = deliveries[i].route
  BY <1>1 DEF Delivery
<1>3. deliveries' = [deliveries EXCEPT ![i] = d]
  BY DEF BackoffElapses
<1> QED
  BY <1>1, <1>2, <1>3 DEF BackoffElapses

----------------------------------------------------------------------------
(* Types, and what the delivery worker holds *)

LEMMA InitType == Init => TypeOK /\ WorkerInv
<1> SUFFICES ASSUME Init PROVE TypeOK /\ WorkerInv
  OBVIOUS
<1>1. 0 \in Time /\ 0 \in 0..MaxAlert /\ 0 \in 0..MaxCrash
  BY Constants DEF Time
<1>2. now \in Time /\ rule \in RuleSettings /\ maintenance \in BOOLEAN
      /\ incidents \subseteq AlertId /\ notified \subseteq AlertId \X Route
      /\ crashes \in 0..MaxCrash
  BY <1>1, RulesAssumption DEF Init
<1>3. /\ alerts \in [AlertId -> Alert \cup {NoRow}]
      /\ deliveries \in [DeliveryId -> Delivery \cup {NoRow}]
  BY DEF Init
<1>4. handler \in [Handler -> [alert : 0..MaxAlert, since : Time]]
  BY <1>1 DEF Init, NoAlert
<1>5. worker \in [items : SUBSET DeliveryId, sent : BOOLEAN]
  BY DEF Init, NoItems
<1>6. retention \in [Pass -> [step : {"idle", "alerts", "deliveries"}, now : Time]]
  BY <1>1 DEF Init, NoPass
<1>7. WorkerInv
  BY DEF Init, NoItems, WorkerInv
<1> QED
  BY <1>2, <1>3, <1>4, <1>5, <1>6, <1>7 DEF TypeOK

LEMMA StepType == TypeOK /\ WorkerInv /\ [Next]_vars => (TypeOK /\ WorkerInv)'
<1> SUFFICES ASSUME TypeOK, WorkerInv, [Next]_vars PROVE (TypeOK /\ WorkerInv)'
  OBVIOUS
<1> USE DEF tables
<1>0. 0 \in Time /\ now \in Time /\ 0 \in 0..MaxAlert
  BY Constants DEF Time, TypeOK
<1>1. CASE UNCHANGED vars
  BY <1>1 DEF vars, TypeOK, WorkerInv, Stored
<1>2. CASE Tick
  <2>1. now' \in Time
    BY <1>2, Constants DEF Tick, Time, TypeOK
  <2> QED
    BY <1>2, <2>1 DEF Tick, TypeOK, WorkerInv, Stored
<1>3. CASE SetMaintenance
  BY <1>3 DEF SetMaintenance, TypeOK, WorkerInv, Stored
<1>4. CASE Crash
  <2>1. crashes' \in 0..MaxCrash
    BY <1>4, Constants DEF Crash, TypeOK
  <2>2. handler' \in [Handler -> [alert : 0..MaxAlert, since : Time]]
    BY <1>0, <1>4 DEF Crash, NoAlert
  <2>3. worker' \in [items : SUBSET DeliveryId, sent : BOOLEAN]
    BY <1>4 DEF Crash, NoItems
  <2>4. retention' \in [Pass -> [step : {"idle", "alerts", "deliveries"}, now : Time]]
    BY <1>0, <1>4 DEF Crash, NoPass
  <2>5. WorkerInv'
    BY <1>4 DEF Crash, NoItems, WorkerInv
  <2>6. notified' \subseteq AlertId \X Route
    BY <1>4 DEF Crash, TypeOK
  <2> QED
    BY <1>4, <2>1, <2>2, <2>3, <2>4, <2>5, <2>6 DEF Crash, TypeOK
<1>5. ASSUME NEW h \in Handler, EvaluateAny(h) PROVE (TypeOK /\ WorkerInv)'
  <2>1. UNCHANGED <<now, rule, maintenance, deliveries, incidents, worker,
                    retention, notified, crashes>>
    BY <1>5, EvaluateFacts
  <2>2. alerts' \in [AlertId -> Alert \cup {NoRow}]
    BY <1>5, EvaluateFacts DEF TypeOK
  <2>3. \A a \in 0..MaxAlert : [alert |-> a, since |-> now]
                                  \in [alert : 0..MaxAlert, since : Time]
    BY <1>0
  <2>4. NoAlert \in [alert : 0..MaxAlert, since : Time]
    BY <1>0 DEF NoAlert
  <2>5. CurrentId \in 0..MaxAlert
        /\ (CurrentId + 1 \in AlertId => CurrentId + 1 \in 0..MaxAlert)
    BY CurrentFacts, Constants DEF AlertId
  <2>6. \E x \in [alert : 0..MaxAlert, since : Time] :
           handler' = [handler EXCEPT ![h] = x]
    BY <1>5, <2>3, <2>4, <2>5, EvaluateFacts
  <2>7. handler' \in [Handler -> [alert : 0..MaxAlert, since : Time]]
    BY <2>6 DEF TypeOK
  <2> QED
    BY <2>1, <2>2, <2>7 DEF TypeOK, WorkerInv, Stored
<1>6. ASSUME NEW h \in Handler, Queue(h) PROVE (TypeOK /\ WorkerInv)'
  <2>1. NoAlert \in [alert : 0..MaxAlert, since : Time]
    BY <1>0 DEF NoAlert
  <2>2. handler' \in [Handler -> [alert : 0..MaxAlert, since : Time]]
    BY <1>6, <2>1 DEF Queue, TypeOK
  <2>3. handler[h].alert \in AlertId
    BY <1>6, Constants DEF Queue, TypeOK, AlertId
  <2>4. /\ deliveries' \in [DeliveryId -> Delivery \cup {NoRow}]
        /\ \A i \in DeliveryId : Stored(i) => deliveries'[i] = deliveries[i]
    BY <1>6, <2>3, InsertFacts DEF Queue, TypeOK
  <2>5. worker' = worker /\ worker.items \subseteq DeliveryId
    BY <1>6 DEF Queue, TypeOK
  <2>6. WorkerInv'
    BY <2>4, <2>5 DEF WorkerInv, Stored
  <2> QED
    BY <1>6, <2>2, <2>4, <2>6 DEF Queue, TypeOK
<1>7. ASSUME NEW a \in AlertId, Acknowledge(a) PROVE (TypeOK /\ WorkerInv)'
  <2>1. alerts[a] \in Alert
    BY <1>7, AlertRows DEF Acknowledge
  <2>2. alerts' = [alerts EXCEPT ![a] = [state |-> "acknowledged",
                                         opened |-> alerts[a].opened,
                                         updated |-> now]]
    BY <1>7 DEF Acknowledge, TypeOK
  <2>3. [state |-> "acknowledged", opened |-> alerts[a].opened, updated |-> now]
           \in Alert
    BY <1>0, <2>1 DEF Alert
  <2>4. alerts' \in [AlertId -> Alert \cup {NoRow}]
    BY <2>2, <2>3 DEF TypeOK
  <2> QED
    BY <1>7, <2>4 DEF Acknowledge, TypeOK, WorkerInv, Stored
<1>8. ASSUME NEW a \in AlertId, LinkIncident(a) PROVE (TypeOK /\ WorkerInv)'
  BY <1>8 DEF LinkIncident, TypeOK, WorkerInv, Stored
<1>9. CASE ReadDue
  <2>1. DueRows \subseteq DeliveryId
        /\ \A i \in DueRows : Stored(i) /\ deliveries[i].state \in {"pending", "retry"}
    BY DEF DueRows
  <2>2. worker' \in [items : SUBSET DeliveryId, sent : BOOLEAN]
    BY <1>9, <2>1 DEF ReadDue
  <2>3. WorkerInv'
    BY <1>9, <2>1 DEF ReadDue, WorkerInv, Stored
  <2> QED
    BY <1>9, <2>2, <2>3 DEF ReadDue, TypeOK
<1>10. CASE Send
  <2>1. /\ Item \in worker.items /\ Item \in DeliveryId
        /\ worker' = [worker EXCEPT !.sent = TRUE]
        /\ worker'.items = worker.items
        /\ worker' \in [items : SUBSET DeliveryId, sent : BOOLEAN]
    BY <1>10, ItemFacts DEF Send, TypeOK
  <2>2. WorkerInv'
    BY <1>10, <2>1 DEF Send, WorkerInv, Stored
  <2>3. deliveries[Item].alert \in AlertId /\ deliveries[Item].route \in Route
    BY <2>1, DeliveryRows DEF Delivery, WorkerInv
  <2>4. notified' \subseteq AlertId \X Route
    BY <1>10, <2>3 DEF Send, Subject, TypeOK
  <2> QED
    BY <1>10, <2>1, <2>2, <2>4 DEF Send, TypeOK
<1>11. CASE MarkDelivered \/ RecordLost \/ SendFails
  <2>1. PICK i : i = Item
    OBVIOUS
  <2>2. /\ i \in worker.items /\ i \in DeliveryId /\ Stored(i)
        /\ worker' = [items |-> worker.items \ {i}, sent |-> FALSE]
        /\ UNCHANGED <<now, rule, maintenance, alerts, incidents, handler,
                       retention, crashes>>
    BY <1>11, <2>1, RecordFacts DEF WorkerInv
  <2>3. PICK d \in Delivery : deliveries' = [deliveries EXCEPT ![i] = d]
    BY <1>11, <2>1, RecordFacts
  <2>4. deliveries' \in [DeliveryId -> Delivery \cup {NoRow}]
    BY <2>3 DEF TypeOK
  <2>5. worker' \in [items : SUBSET DeliveryId, sent : BOOLEAN]
    BY <2>2 DEF TypeOK
  <2>6. WorkerInv'
    BY <2>2, <2>3 DEF WorkerInv, Stored, TypeOK
  <2>7. notified' \subseteq AlertId \X Route
    BY <1>11 DEF MarkDelivered, RecordLost, SendFails, TypeOK
  <2> QED
    BY <2>2, <2>4, <2>5, <2>6, <2>7 DEF TypeOK
<1>12. ASSUME NEW i \in DeliveryId, BackoffElapses(i) PROVE (TypeOK /\ WorkerInv)'
  <2>1. PICK d \in Delivery : /\ deliveries' = [deliveries EXCEPT ![i] = d]
                              /\ d.state = deliveries[i].state
    BY <1>12, BackoffFacts
  <2>2. deliveries' \in [DeliveryId -> Delivery \cup {NoRow}]
    BY <2>1 DEF TypeOK
  <2>3. worker' = worker /\ worker.items \subseteq DeliveryId
    BY <1>12, BackoffFacts DEF TypeOK
  <2>4. WorkerInv'
    BY <2>1, <2>3, NoRowAssumption DEF WorkerInv, Stored, TypeOK
  <2> QED
    BY <1>12, <2>2, <2>4, BackoffFacts DEF TypeOK
<1>13. ASSUME NEW p \in Pass, StartRetention(p) PROVE (TypeOK /\ WorkerInv)'
  <2>1. [step |-> "alerts", now |-> now]
           \in [step : {"idle", "alerts", "deliveries"}, now : Time]
    BY <1>0
  <2>2. retention' \in [Pass -> [step : {"idle", "alerts", "deliveries"}, now : Time]]
    BY <1>13, <2>1 DEF StartRetention, TypeOK
  <2> QED
    BY <1>13, <2>2 DEF StartRetention, TypeOK, WorkerInv, Stored
<1>14. ASSUME NEW p \in Pass, PruneAlerts(p) PROVE (TypeOK /\ WorkerInv)'
  <2>1. retention' \in [Pass -> [step : {"idle", "alerts", "deliveries"}, now : Time]]
    BY <1>14 DEF PruneAlerts, TypeOK
  <2>2. alerts' \in [AlertId -> Alert \cup {NoRow}]
    BY <1>14 DEF PruneAlerts, TypeOK
  <2> QED
    BY <1>14, <2>1, <2>2 DEF PruneAlerts, TypeOK, WorkerInv, Stored
<1>15. ASSUME NEW p \in Pass, PruneAlertsFails(p) PROVE (TypeOK /\ WorkerInv)'
  <2>1. NoPass \in [step : {"idle", "alerts", "deliveries"}, now : Time]
    BY <1>0 DEF NoPass
  <2>2. retention' \in [Pass -> [step : {"idle", "alerts", "deliveries"}, now : Time]]
    BY <1>15, <2>1 DEF PruneAlertsFails, TypeOK
  <2> QED
    BY <1>15, <2>2 DEF PruneAlertsFails, TypeOK, WorkerInv, Stored
<1>16. ASSUME NEW p \in Pass, PruneDeliveries(p) PROVE (TypeOK /\ WorkerInv)'
  <2>1. NoPass \in [step : {"idle", "alerts", "deliveries"}, now : Time]
    BY <1>0 DEF NoPass
  <2>2. retention' \in [Pass -> [step : {"idle", "alerts", "deliveries"}, now : Time]]
    BY <1>16, <2>1 DEF PruneDeliveries, TypeOK
  <2>3. deliveries' \in [DeliveryId -> Delivery \cup {NoRow}]
    BY <1>16 DEF PruneDeliveries, TypeOK
  <2>4. worker' = worker /\ worker.items \subseteq DeliveryId
    BY <1>16 DEF PruneDeliveries, TypeOK
  <2>5. \A i \in worker.items : deliveries'[i] = deliveries[i]
    BY <1>16, <2>4 DEF PruneDeliveries, WorkerInv, Finished
  <2>6. WorkerInv'
    BY <2>4, <2>5 DEF WorkerInv, Stored
  <2>7. notified' \subseteq AlertId \X Route
    BY <1>16 DEF PruneDeliveries, TypeOK
  <2> QED
    BY <1>16, <2>2, <2>3, <2>6, <2>7 DEF PruneDeliveries, TypeOK
<1> QED
  BY <1>1, <1>2, <1>3, <1>4, <1>5, <1>6, <1>7, <1>8, <1>9, <1>10, <1>11, <1>12,
     <1>13, <1>14, <1>15, <1>16 DEF Next, Deliver

\* Types hold of every behaviour, and a delivery that the worker has read stays
\* in the table, undelivered, until the worker records its outcome: neither
\* retention nor a handler touches it (DeliverDue, RunOnce).
THEOREM TypeCorrect == Spec => [](TypeOK /\ WorkerInv)
BY InitType, StepType, PTL DEF Spec

----------------------------------------------------------------------------
(* Notifications are sent once *)

\* The steps that touch neither the deliveries nor the worker.
LEMMA QuietSteps ==
    ASSUME TypeOK, [Next]_vars
    PROVE  \/ UNCHANGED <<deliveries, worker, notified, crashes>>
           \/ Crash \/ ReadDue \/ Send \/ MarkDelivered \/ RecordLost \/ SendFails
           \/ \E h \in Handler : Queue(h)
           \/ \E i \in DeliveryId : BackoffElapses(i)
           \/ \E p \in Pass : PruneDeliveries(p)
<1> USE DEF tables
<1>1. ASSUME NEW h \in Handler, EvaluateAny(h)
      PROVE  UNCHANGED <<deliveries, worker, notified, crashes>>
  BY <1>1, EvaluateFacts
<1>2. ASSUME NEW a \in AlertId, Acknowledge(a) \/ LinkIncident(a)
      PROVE  UNCHANGED <<deliveries, worker, notified, crashes>>
  BY <1>2 DEF Acknowledge, LinkIncident
<1>3. ASSUME NEW p \in Pass, StartRetention(p) \/ PruneAlerts(p) \/ PruneAlertsFails(p)
      PROVE  UNCHANGED <<deliveries, worker, notified, crashes>>
  BY <1>3 DEF StartRetention, PruneAlerts, PruneAlertsFails
<1>4. ASSUME Tick \/ SetMaintenance \/ UNCHANGED vars
      PROVE  UNCHANGED <<deliveries, worker, notified, crashes>>
  BY <1>4 DEF Tick, SetMaintenance, vars
<1> QED
  BY <1>1, <1>2, <1>3, <1>4 DEF Next, Deliver

\* The row of a sending that is on record, by what changes around it.
LEMMA SentKept ==
    ASSUME SentInv, notified' \subseteq notified,
           \A n \in notified', i \in DeliveryId :
              (/\ Stored(i) /\ Subject(i) = n
               /\ deliveries[i].state = "delivered" \/ (worker.sent /\ i = Item))
              => (/\ Stored(i) /\ Subject(i) = n
                  /\ deliveries[i].state = "delivered" \/ (worker.sent /\ i = Item))'
    PROVE  SentInv'
<1> SUFFICES ASSUME NEW n \in notified'
             PROVE  \E i \in DeliveryId :
                      (/\ Stored(i) /\ Subject(i) = n
                       /\ deliveries[i].state = "delivered"
                          \/ (worker.sent /\ i = Item))'
  BY DEF SentInv
<1>1. PICK i \in DeliveryId :
         /\ Stored(i) /\ Subject(i) = n
         /\ deliveries[i].state = "delivered" \/ (worker.sent /\ i = Item)
  BY DEF SentInv
<1> QED
  BY <1>1

LEMMA StepSent ==
    TypeOK /\ WorkerInv /\ SentInv /\ Unique /\ [Next]_vars => (SentInv /\ Unique)'
<1> SUFFICES ASSUME TypeOK, WorkerInv, SentInv, Unique, [Next]_vars
             PROVE  (SentInv /\ Unique)'
  OBVIOUS
<1> USE DEF tables
<1>1. CASE UNCHANGED <<deliveries, worker, notified, crashes>>
  BY <1>1 DEF SentInv, Unique, Stored, Subject, Item
<1>2. CASE Crash
  <2>1. Unique'
    BY <1>2 DEF Crash, Unique, Stored, Subject
  <2>2. /\ deliveries' = deliveries /\ notified' \subseteq notified
        /\ worker.sent => Subject(Item) \notin notified'
    BY <1>2 DEF Crash
  <2>3. SentInv'
    <3>1. ASSUME NEW n \in notified', NEW i \in DeliveryId, Stored(i), Subject(i) = n,
                 deliveries[i].state = "delivered" \/ (worker.sent /\ i = Item)
          PROVE  (Stored(i) /\ Subject(i) = n /\ deliveries[i].state = "delivered")'
      BY <2>2, <3>1 DEF Stored, Subject
    <3> QED
      BY <2>2, <3>1, SentKept
  <2> QED
    BY <2>1, <2>3
<1>3. CASE ReadDue
  <2>1. deliveries' = deliveries /\ notified' = notified /\ ~worker.sent
    BY <1>3 DEF ReadDue, WorkerInv, TypeOK
  <2>2. Unique'
    BY <2>1 DEF Unique, Stored, Subject
  <2>3. SentInv'
    BY <2>1 DEF SentInv, Stored, Subject
  <2> QED
    BY <2>2, <2>3
<1>4. CASE Send
  <2>1. PICK i : i = Item
    OBVIOUS
  <2>2. /\ i \in DeliveryId /\ Stored(i) /\ ~worker.sent
        /\ worker'.items = worker.items /\ worker'.sent
        /\ deliveries' = deliveries /\ notified' = notified \cup {Subject(i)}
    BY <1>4, <2>1, ItemFacts DEF Send, WorkerInv, TypeOK
  <2>3. Unique'
    BY <2>2 DEF Unique, Stored, Subject
  <2>4. Item' = i
    BY <2>1, <2>2 DEF Item
  <2>5. SentInv'
    BY <2>2, <2>4 DEF SentInv, Stored, Subject
  <2> QED
    BY <2>3, <2>5
<1>5. CASE MarkDelivered \/ RecordLost \/ SendFails
  <2>1. PICK i : i = Item
    OBVIOUS
  <2>2. /\ i \in worker.items /\ i \in DeliveryId /\ Stored(i)
        /\ deliveries[i].state # "delivered"
    BY <1>5, <2>1, RecordFacts DEF WorkerInv
  <2>3. PICK d \in Delivery : /\ deliveries' = [deliveries EXCEPT ![i] = d]
                              /\ d.state = "delivered" \/ ~MarkDelivered
                              /\ d.alert = deliveries[i].alert
                              /\ d.route = deliveries[i].route
    BY <1>5, <2>1, RecordFacts
  <2>4. d # NoRow /\ deliveries'[i] = d
        /\ \A j \in DeliveryId : j # i => deliveries'[j] = deliveries[j]
    BY <2>2, <2>3, NoRowAssumption DEF TypeOK
  <2>5. \A j \in DeliveryId : (Stored(j)' <=> Stored(j)) /\ Subject(j)' = Subject(j)
    BY <2>2, <2>3, <2>4 DEF Stored, Subject
  <2>6. Unique'
    BY <2>5 DEF Unique
  <2>7. notified' \subseteq notified
    BY <1>5 DEF MarkDelivered, RecordLost, SendFails
  <2>8. worker.sent => MarkDelivered \/ Subject(i) \notin notified'
    BY <1>5, <2>1 DEF SendFails, RecordLost
  <2>9. ASSUME NEW n \in notified', NEW j \in DeliveryId, Stored(j), Subject(j) = n,
               deliveries[j].state = "delivered" \/ (worker.sent /\ j = i)
        PROVE  (Stored(j) /\ Subject(j) = n /\ deliveries[j].state = "delivered")'
    BY <2>2, <2>3, <2>4, <2>5, <2>8, <2>9
  <2>10. SentInv'
    BY <2>1, <2>7, <2>9, SentKept
  <2> QED
    BY <2>6, <2>10
<1>6. ASSUME NEW h \in Handler, Queue(h) PROVE (SentInv /\ Unique)'
  <2> PICK a : a = handler[h].alert
    OBVIOUS
  <2>1. a \in AlertId /\ notified' = notified /\ worker' = worker
    BY <1>6, Constants DEF Queue, TypeOK, AlertId
  <2>2. CASE ~Exists(a)
    <3>1. deliveries' = deliveries
      BY <1>6, <2>2 DEF Queue
    <3> QED
      BY <2>1, <3>1 DEF SentInv, Unique, Stored, Subject, Item
  <2>3. CASE InsertRows(a)
    <3>1. \A i \in DeliveryId :
             \/ deliveries'[i] = deliveries[i]
             \/ /\ ~Stored(i)
                /\ \E r \in Route : ~Queued(a, r) /\ deliveries'[i] = NewDelivery(a, r)
      BY <2>1, <2>3, InsertFacts
    <3>2. \A i, j \in DeliveryId :
             (/\ ~Stored(i) /\ ~Stored(j) /\ deliveries'[i] # NoRow
              /\ deliveries'[j] = deliveries'[i]) => i = j
      BY <2>1, <2>3, InsertFacts
    <3>3. \A r : NewDelivery(a, r).alert = a /\ NewDelivery(a, r).route = r
      BY DEF NewDelivery
    <3>4. Item' = Item
      BY <2>1 DEF Item
    <3>5. SentInv'
      <4>1. ASSUME NEW n \in notified', NEW i \in DeliveryId, Stored(i), Subject(i) = n,
                   deliveries[i].state = "delivered" \/ (worker.sent /\ i = Item)
            PROVE  (/\ Stored(i) /\ Subject(i) = n
                    /\ deliveries[i].state = "delivered" \/ (worker.sent /\ i = Item))'
        <5>1. deliveries'[i] = deliveries[i]
          BY <3>1, <4>1
        <5> QED
          BY <2>1, <3>4, <4>1, <5>1 DEF Stored, Subject
      <4> QED
        BY <2>1, <4>1, SentKept
    <3>6. ASSUME NEW i \in DeliveryId, NEW j \in DeliveryId, Stored(i)', Stored(j)',
                 deliveries'[i].alert = deliveries'[j].alert,
                 deliveries'[i].route = deliveries'[j].route
          PROVE  i = j
      <4>1. CASE Stored(i) /\ Stored(j)
        BY <3>1, <3>6, <4>1 DEF Unique, Subject
      <4>2. CASE ~Stored(i) /\ ~Stored(j)
        <5>1. deliveries'[i] # NoRow /\ deliveries'[j] # NoRow
          BY <3>6 DEF Stored
        <5>2. PICK r \in Route : deliveries'[i] = NewDelivery(a, r)
          BY <3>1, <4>2, <5>1 DEF Stored
        <5>3. PICK q \in Route : deliveries'[j] = NewDelivery(a, q)
          BY <3>1, <4>2, <5>1 DEF Stored
        <5>4. q = r
          BY <3>3, <3>6, <5>2, <5>3
        <5> QED
          BY <3>2, <4>2, <5>1, <5>2, <5>3, <5>4
      <4>3. ASSUME NEW x \in DeliveryId, NEW y \in DeliveryId, Stored(x), ~Stored(y),
                   deliveries'[y] # NoRow, deliveries'[x].alert = deliveries'[y].alert,
                   deliveries'[x].route = deliveries'[y].route
            PROVE  FALSE
        <5>1. deliveries'[x] = deliveries[x]
          BY <3>1, <4>3
        <5>2. PICK r \in Route : ~Queued(a, r) /\ deliveries'[y] = NewDelivery(a, r)
          BY <3>1, <4>3 DEF Stored
        <5> QED
          BY <3>3, <4>3, <5>1, <5>2 DEF Queued
      <4> QED
        BY <3>6, <4>1, <4>2, <4>3 DEF Stored
    <3>7. Unique'
      BY <3>6 DEF Unique, Subject
    <3> QED
      BY <3>5, <3>7
  <2> QED
    BY <1>6, <2>2, <2>3 DEF Queue
<1>7. ASSUME NEW i \in DeliveryId, BackoffElapses(i) PROVE (SentInv /\ Unique)'
  <2>1. PICK d \in Delivery : /\ deliveries' = [deliveries EXCEPT ![i] = d]
                              /\ d.state = deliveries[i].state
                              /\ d.alert = deliveries[i].alert
                              /\ d.route = deliveries[i].route
    BY <1>7, BackoffFacts
  <2>2. Stored(i) /\ worker' = worker /\ notified' = notified /\ Item' = Item
    BY <1>7, BackoffFacts DEF Item
  <2>3. \A j \in DeliveryId :
           /\ Stored(j)' <=> Stored(j)
           /\ Subject(j)' = Subject(j)
           /\ Stored(j) => deliveries'[j].state = deliveries[j].state
    BY <2>1, <2>2, NoRowAssumption DEF TypeOK, Stored, Subject
  <2>4. Unique'
    BY <2>3 DEF Unique
  <2>5. SentInv'
    BY <2>2, <2>3 DEF SentInv
  <2> QED
    BY <2>4, <2>5
<1>8. ASSUME NEW p \in Pass, PruneDeliveries(p) PROVE (SentInv /\ Unique)'
  <2>1. \A i \in DeliveryId : deliveries'[i] =
           IF Finished(i, retention[p].now) THEN NoRow ELSE deliveries[i]
    BY <1>8 DEF PruneDeliveries
  <2>2. /\ worker' = worker /\ notified' \subseteq notified /\ Item' = Item
        /\ \A i \in DeliveryId : Finished(i, retention[p].now)
              => Subject(i) \notin notified'
    BY <1>8 DEF PruneDeliveries, Item
  <2>3. \A i \in DeliveryId : Stored(i)' =>
           Stored(i) /\ deliveries'[i] = deliveries[i] /\ Subject(i)' = Subject(i)
    BY <2>1 DEF Stored, Subject
  <2>4. Unique'
    BY <2>3 DEF Unique
  <2>5. ASSUME NEW n \in notified', NEW i \in DeliveryId, Stored(i), Subject(i) = n,
               deliveries[i].state = "delivered" \/ (worker.sent /\ i = Item)
        PROVE  (/\ Stored(i) /\ Subject(i) = n
                /\ deliveries[i].state = "delivered" \/ (worker.sent /\ i = Item))'
    <3>1. deliveries'[i] = deliveries[i]
      BY <2>1, <2>2, <2>5
    <3> QED
      BY <2>2, <2>5, <3>1 DEF Stored, Subject
  <2>6. SentInv'
    BY <2>2, <2>5, SentKept
  <2> QED
    BY <2>4, <2>6
<1> QED
  BY <1>1, <1>2, <1>3, <1>4, <1>5, <1>6, <1>7, <1>8, QuietSteps

\* An alert is sent to a route again only when the record of its sending is
\* missing: the process ended or the UPDATE failed after the send, or retention
\* removed the delivered row. For any number of handlers that queue it, routes,
\* retention passes, crashes and lost records (Queue, DeliverDue, RunOnce).
THEOREM NotifiedTheorem == Spec => NotifiedOnce
<1>1. Init => SentInv /\ Unique
  BY DEF Init, SentInv, Unique, Stored
<1>2. ASSUME TypeOK, WorkerInv, SentInv, Unique, Send
      PROVE  Subject(Item) \notin notified
  <2>1. /\ Item \in DeliveryId /\ Stored(Item) /\ ~worker.sent
        /\ deliveries[Item].state # "delivered"
    BY <1>2, ItemFacts DEF Send, WorkerInv, TypeOK
  <2> QED
    BY <1>2, <2>1 DEF SentInv, Unique
<1>3. TypeOK /\ WorkerInv /\ SentInv /\ Unique
         => [Send => Subject(Item) \notin notified]_vars
  BY <1>2
<1> QED
  BY <1>1, <1>3, InitType, StepType, StepSent, PTL DEF Spec, NotifiedOnce

----------------------------------------------------------------------------
(* An alert that fired is followed by its resolution *)

\* The steps that change the alerts; the rule never changes.
LEMMA AlertSteps ==
    ASSUME TypeOK, [Next]_vars
    PROVE  /\ rule' = rule
           /\ \/ UNCHANGED alerts
              \/ \E h \in Handler : EvaluateAny(h)
              \/ \E a \in AlertId : Acknowledge(a)
              \/ \E p \in Pass : PruneAlerts(p)
<1> USE DEF tables
<1>1. ASSUME NEW h \in Handler, EvaluateAny(h) PROVE rule' = rule
  BY <1>1, EvaluateFacts
<1>2. ASSUME NEW h \in Handler, Queue(h) PROVE rule' = rule /\ UNCHANGED alerts
  BY <1>2 DEF Queue
<1>3. ASSUME NEW a \in AlertId, Acknowledge(a) PROVE rule' = rule
  BY <1>3 DEF Acknowledge
<1>4. ASSUME NEW a \in AlertId, LinkIncident(a) PROVE rule' = rule /\ UNCHANGED alerts
  BY <1>4 DEF LinkIncident
<1>5. ASSUME NEW p \in Pass, PruneAlerts(p) PROVE rule' = rule
  BY <1>5 DEF PruneAlerts
<1>6. ASSUME NEW p \in Pass, StartRetention(p) \/ PruneAlertsFails(p) \/ PruneDeliveries(p)
      PROVE  rule' = rule /\ UNCHANGED alerts
  BY <1>6 DEF StartRetention, PruneAlertsFails, PruneDeliveries
<1>7. ASSUME NEW i \in DeliveryId, BackoffElapses(i) PROVE rule' = rule /\ UNCHANGED alerts
  BY <1>7 DEF BackoffElapses
<1>8. ASSUME Tick \/ SetMaintenance \/ Crash \/ Deliver \/ UNCHANGED vars
      PROVE  rule' = rule /\ UNCHANGED alerts
  BY <1>8 DEF Tick, SetMaintenance, Crash, Deliver, ReadDue, Send, MarkDelivered, RecordLost,
              SendFails, vars
<1> QED
  BY <1>1, <1>2, <1>3, <1>4, <1>5, <1>6, <1>7, <1>8 DEF Next

LEMMA AcknowledgeFacts ==
    ASSUME TypeOK, NEW a \in AlertId, Acknowledge(a)
    PROVE  /\ Exists(a) /\ alerts[a].state = "firing"
           /\ \A b \in AlertId : Exists(b)' <=> Exists(b)
           /\ \A b \in AlertId : b # a => alerts'[b] = alerts[b]
           /\ alerts'[a].state = "acknowledged" /\ alerts'[a].updated = now
<1> PICK r : r = [state |-> "acknowledged", opened |-> alerts[a].opened, updated |-> now]
  OBVIOUS
<1>1. alerts' = [alerts EXCEPT ![a] = r]
  BY DEF Acknowledge, TypeOK
<1>2. Exists(a) /\ alerts[a].state = "firing" /\ alerts[a] \in Alert
  BY AlertRows DEF Acknowledge
<1>3. r \in Alert /\ r.state = "acknowledged" /\ r.updated = now
  BY <1>2 DEF Alert, TypeOK
<1>4. r # NoRow
  BY <1>3, NoRowAssumption
<1> QED
  BY <1>1, <1>2, <1>3, <1>4 DEF Exists, TypeOK

LEMMA PruneFacts ==
    ASSUME TypeOK, NEW p \in Pass, PruneAlerts(p)
    PROVE  /\ \A a \in AlertId : Exists(a)' => Exists(a) /\ alerts'[a] = alerts[a]
           /\ \A a \in AlertId : ~Prunable(a, retention[p].now) => alerts'[a] = alerts[a]
           /\ \A i \in DeliveryId : Stored(i) =>
                 alerts'[deliveries[i].alert] = alerts[deliveries[i].alert]
<1>1. \A a \in AlertId : alerts'[a] = IF Prunable(a, retention[p].now) THEN NoRow
                                                                   ELSE alerts[a]
  BY DEF PruneAlerts
<1>2. \A i \in DeliveryId : Stored(i) => deliveries[i].alert \in AlertId
  BY DeliveryRows DEF Delivery
<1>3. \A i \in DeliveryId : Stored(i) => ~Prunable(deliveries[i].alert, retention[p].now)
  BY <1>2 DEF PruneAlerts
<1> QED
  BY <1>1, <1>2, <1>3 DEF Exists

LEMMA StepEpisode == TypeOK /\ EpisodeInv /\ [Next]_vars => EpisodeInv'
<1> SUFFICES ASSUME TypeOK, EpisodeInv, [Next]_vars,
                    ~(rule'.recovery /\ rule'.missing = "firing"),
                    NEW a \in AlertId, NEW b \in AlertId, b = a + 1,
                    Exists(a)', Exists(b)', alerts'[a].state \in Fired
             PROVE  alerts'[b].state = "resolved"
  BY DEF EpisodeInv
<1>1. ~(rule.recovery /\ rule.missing = "firing")
  BY AlertSteps
<1>2. CASE UNCHANGED alerts
  BY <1>1, <1>2 DEF EpisodeInv, Exists
<1>3. ASSUME NEW h \in Handler, EvaluateAny(h) PROVE alerts'[b].state = "resolved"
  <2>1. CASE alerts' = alerts
    BY <1>1, <2>1 DEF EpisodeInv, Exists
  <2>2. CASE alerts' # alerts
    <3> PICK c : c = CurrentId
      OBVIOUS
    <3>1. PICK row \in Alert :
             /\ c + 1 \in AlertId
             /\ alerts' = [alerts EXCEPT ![c + 1] = row]
             /\ (c # 0 /\ alerts[c].state \in Fired) => row.state = "resolved"
      BY <1>1, <1>3, <2>2, EvaluateFacts
    <3>2. c \in 0..MaxAlert /\ \A x \in AlertId : Exists(x) => x <= c
      BY CurrentFacts
    <3>3. alerts'[c + 1] = row
          /\ \A x \in AlertId : x # c + 1 => alerts'[x] = alerts[x]
      BY <3>1 DEF TypeOK
    <3>4. b <= c + 1
      BY <3>2, <3>3, Constants DEF Exists, AlertId
    <3>5. a # c + 1 /\ Exists(a) /\ alerts[a].state \in Fired
      BY <3>2, <3>3, <3>4, Constants DEF Exists, AlertId
    <3>6. CASE b = c + 1
      BY <3>1, <3>2, <3>3, <3>5, <3>6, Constants DEF AlertId
    <3>7. CASE b # c + 1
      BY <1>1, <3>3, <3>5, <3>7 DEF EpisodeInv, Exists
    <3> QED
      BY <3>6, <3>7
  <2> QED
    BY <2>1, <2>2
<1>4. ASSUME NEW x \in AlertId, Acknowledge(x) PROVE alerts'[b].state = "resolved"
  <2>1. Exists(a) /\ Exists(b) /\ alerts[a].state \in Fired
    BY <1>4, AcknowledgeFacts DEF Fired
  <2>2. alerts[b].state = "resolved"
    BY <1>1, <2>1 DEF EpisodeInv
  <2> QED
    BY <1>4, <2>2, AcknowledgeFacts
<1>5. ASSUME NEW p \in Pass, PruneAlerts(p) PROVE alerts'[b].state = "resolved"
  BY <1>1, <1>5, PruneFacts DEF EpisodeInv
<1> QED
  BY <1>2, <1>3, <1>4, <1>5, AlertSteps

\* Whatever is observed, in whatever order, whenever maintenance begins,
\* somebody acknowledges or retention runs: between two alerts of a rule that
\* fired there is a resolution, or a row that retention removed (Evaluate).
THEOREM EpisodeTheorem == Spec => []ResolvedBetweenFirings
<1>1. Init => EpisodeInv
  BY DEF Init, EpisodeInv, Exists
<1>2. TypeOK /\ EpisodeInv => ResolvedBetweenFirings
  <2> SUFFICES ASSUME TypeOK, EpisodeInv, ~(rule.recovery /\ rule.missing = "firing"),
                      NEW a \in AlertId, NEW b \in AlertId, a < b, Exists(a),
                      alerts[a].state \in {"firing", "acknowledged"}
               PROVE  \E c \in a..b : ~Exists(c) \/ alerts[c].state = "resolved"
    BY DEF ResolvedBetweenFirings
  <2>1. a + 1 \in a..b /\ a + 1 \in AlertId
    BY Constants DEF AlertId
  <2>2. ~Exists(a + 1) \/ alerts[a + 1].state = "resolved"
    BY <2>1 DEF EpisodeInv, Fired
  <2> QED
    BY <2>1, <2>2
<1> QED
  BY <1>1, <1>2, InitType, StepType, StepEpisode, PTL DEF Spec

----------------------------------------------------------------------------
(* Deliveries are of alerts that fired *)

OfFired == \A i \in DeliveryId : Stored(i) =>
              /\ Exists(deliveries[i].alert)
              /\ alerts[deliveries[i].alert].state \in Fired

\* Clocks only advance, and so do retention passes.
LEMMA StepRetention == TypeOK /\ RetentionInv /\ [Next]_vars => RetentionInv'
<1> SUFFICES ASSUME TypeOK, RetentionInv, [Next]_vars, NEW p \in Pass
             PROVE  retention'[p].now <= now'
  BY DEF RetentionInv
<1> USE DEF tables
<1>0. retention[p].now <= now /\ retention[p].now \in Nat /\ now \in Nat
  BY Constants DEF RetentionInv, TypeOK, Time
<1>1. ASSUME NEW q \in Pass, StartRetention(q) PROVE retention'[p].now <= now'
  BY <1>0, <1>1 DEF StartRetention, TypeOK
<1>2. ASSUME NEW q \in Pass, PruneAlerts(q) PROVE retention'[p].now <= now'
  BY <1>0, <1>2 DEF PruneAlerts, TypeOK
<1>3. ASSUME NEW q \in Pass, PruneAlertsFails(q) \/ PruneDeliveries(q)
      PROVE  retention'[p].now <= now'
  BY <1>0, <1>3 DEF PruneAlertsFails, PruneDeliveries, NoPass, TypeOK
<1>4. CASE Crash
  BY <1>0, <1>4 DEF Crash, NoPass
<1>5. CASE Tick
  BY <1>0, <1>5 DEF Tick
<1>6. ASSUME UNCHANGED <<now, retention>> PROVE retention'[p].now <= now'
  BY <1>0, <1>6
<1>7. CASE SetMaintenance \/ Deliver \/ UNCHANGED vars
  BY <1>6, <1>7 DEF SetMaintenance, Deliver, ReadDue, Send, MarkDelivered, RecordLost, SendFails, vars
<1>8. ASSUME NEW h \in Handler, EvaluateAny(h) PROVE retention'[p].now <= now'
  BY <1>6, <1>8, EvaluateFacts
<1>9. ASSUME NEW h \in Handler, Queue(h) PROVE retention'[p].now <= now'
  BY <1>6, <1>9 DEF Queue
<1>10. ASSUME NEW a \in AlertId, Acknowledge(a) \/ LinkIncident(a)
       PROVE  retention'[p].now <= now'
  BY <1>6, <1>10 DEF Acknowledge, LinkIncident
<1>11. ASSUME NEW i \in DeliveryId, BackoffElapses(i) PROVE retention'[p].now <= now'
  BY <1>6, <1>11 DEF BackoffElapses
<1> QED
  BY <1>1, <1>2, <1>3, <1>4, <1>5, <1>7, <1>8, <1>9, <1>10, <1>11 DEF Next

\* The conjuncts of HandlerInv for an alert a evaluated at time t.
Held(a, t) ==
    /\ t <= now /\ now - t <= MaxBusy
    /\ \A b \in AlertId : (b > a /\ Exists(b)) => alerts[b].updated >= t - MaxLate
    /\ Exists(a) => alerts[a].state \in Fired
    /\ ~Exists(a) => \E b \in AlertId : b > a /\ Exists(b)

LEMMA HeldIsHandlerInv ==
    HandlerInv <=> \A h \in Handler :
                      handler[h].alert # 0 => Held(handler[h].alert, handler[h].since)
BY DEF HandlerInv, Held

\* An alert that was evaluated stays, or its ID stays taken, while retention's
\* window is longer than an observation may be late and a handler busy.
LEMMA HeldStep ==
    ASSUME AlertWindow >= MaxLate + MaxBusy, TypeOK, RetentionInv,
           NEW a \in AlertId, NEW t \in Time, Held(a, t), [Next]_vars,
           now' = now \/ (now' = now + 1 /\ now - t < MaxBusy)
    PROVE  Held(a, t)'
<1>0. /\ now \in Nat /\ t \in Nat /\ a \in Nat
      /\ MaxLate \in Nat /\ MaxBusy \in Nat /\ AlertWindow \in Nat
      /\ \A b \in AlertId : b \in Nat
      /\ \A b \in AlertId : Exists(b) => alerts[b].updated \in Nat
  BY Constants, AlertRows DEF TypeOK, Time, AlertId, Alert
<1>1. (t <= now /\ now - t <= MaxBusy)'
  BY <1>0 DEF Held
<1>2. CASE UNCHANGED alerts
  BY <1>1, <1>2 DEF Held, Exists
<1>3. ASSUME NEW h \in Handler, EvaluateAny(h) PROVE Held(a, t)'
  <2>1. CASE alerts' = alerts
    BY <1>1, <2>1 DEF Held, Exists
  <2>2. CASE alerts' # alerts
    <3> PICK c : c = CurrentId
      OBVIOUS
    <3>1. PICK row \in Alert : /\ c + 1 \in AlertId
                               /\ row.updated >= now - MaxLate
                               /\ alerts' = [alerts EXCEPT ![c + 1] = row]
      BY <1>3, <2>2, EvaluateFacts
    <3>2. c \in Nat /\ \A x \in AlertId : Exists(x) => x <= c
      BY CurrentFacts, Constants
    <3>3. alerts'[c + 1] = row /\ row # NoRow
          /\ \A x \in AlertId : x # c + 1 => alerts'[x] = alerts[x]
      BY <3>1, NoRowAssumption DEF TypeOK
    <3>4. a <= c
      <4>1. CASE Exists(a)
        BY <3>2, <4>1
      <4>2. CASE ~Exists(a)
        <5>1. PICK b \in AlertId : b > a /\ Exists(b)
          BY <4>2 DEF Held
        <5>2. b <= c /\ b \in Nat /\ a \in Nat
          BY <1>0, <3>2, <5>1
        <5> QED
          BY <3>2, <5>1, <5>2
      <4> QED
        BY <4>1, <4>2
    <3>5. row.updated \in Nat
      BY <3>1, Constants DEF Alert, Time
    <3>6. row.updated >= t - MaxLate
      BY <1>0, <3>1, <3>5 DEF Held
    <3>7. a # c + 1 /\ alerts'[a] = alerts[a]
      BY <1>0, <3>2, <3>3, <3>4
    <3>8. \A b \in AlertId : (b > a /\ Exists(b)') => alerts'[b].updated >= t - MaxLate
      BY <3>3, <3>6 DEF Held, Exists
    <3>9. \A b \in AlertId : Exists(b) => Exists(b)'
      BY <3>3 DEF Exists
    <3> QED
      BY <1>1, <3>7, <3>8, <3>9 DEF Held, Exists
  <2> QED
    BY <2>1, <2>2
<1>4. ASSUME NEW x \in AlertId, Acknowledge(x) PROVE Held(a, t)'
  <2>1. now >= t - MaxLate
    BY <1>0 DEF Held
  <2>2. \A b \in AlertId : (b > a /\ Exists(b)') => alerts'[b].updated >= t - MaxLate
    BY <1>4, <2>1, AcknowledgeFacts DEF Held
  <2>3. Exists(a)' => alerts'[a].state \in Fired
    BY <1>4, AcknowledgeFacts DEF Held, Fired
  <2> QED
    BY <1>1, <1>4, <2>2, <2>3, AcknowledgeFacts DEF Held
<1>5. ASSUME NEW p \in Pass, PruneAlerts(p) PROVE Held(a, t)'
  <2>1. retention[p].now <= now /\ retention[p].now \in Nat
    BY Constants DEF RetentionInv, TypeOK, Time
  <2>2. ASSUME NEW b \in AlertId, b > a, Exists(b) PROVE Exists(b)'
    <3>1. alerts[b].updated >= t - MaxLate
      BY <2>2 DEF Held
    <3>2. ~(alerts[b].updated < retention[p].now - AlertWindow)
      BY <1>0, <2>1, <2>2, <3>1 DEF Held
    <3>3. alerts'[b] = alerts[b]
      BY <1>5, <3>2, PruneFacts DEF Prunable
    <3> QED
      BY <2>2, <3>3 DEF Exists
  <2>3. ASSUME Exists(a), ~Exists(a)' PROVE \E b \in AlertId : b > a /\ Exists(b)
    <3>1. Prunable(a, retention[p].now)
      BY <1>5, <2>3, PruneFacts DEF Exists
    <3>2. a # CurrentId
      BY <2>3, <3>1 DEF Prunable, Held, Fired
    <3>3. CurrentId \in AlertId /\ Exists(CurrentId) /\ a <= CurrentId
      BY <1>0, <2>3, CurrentFacts, Constants DEF AlertId
    <3>4. a \in Int /\ CurrentId \in Int
      BY <1>0, <3>3, Constants DEF AlertId
    <3>5. CurrentId > a
      BY <3>2, <3>3, <3>4, StrictlyAbove, Zenon
    <3> QED
      BY <3>3, <3>5
  <2>4. \A b \in AlertId : (b > a /\ Exists(b)') => alerts'[b].updated >= t - MaxLate
    BY <1>5, PruneFacts DEF Held
  <2>5. Exists(a)' => alerts'[a].state \in Fired
    BY <1>5, PruneFacts DEF Held
  <2>6. ~Exists(a)' => \E b \in AlertId : b > a /\ Exists(b)'
    BY <2>2, <2>3 DEF Held
  <2> QED
    BY <1>1, <2>4, <2>5, <2>6 DEF Held
<1> QED
  BY <1>2, <1>3, <1>4, <1>5, AlertSteps

\* What becomes of the alert a handler is to queue.
LEMMA HandlerSteps ==
    ASSUME TypeOK, [Next]_vars, NEW h \in Handler, handler'[h].alert # 0
    PROVE  \/ EvaluateAny(h)
           \/ /\ handler'[h] = handler[h]
              /\ now' = now \/ (now' = now + 1 /\ now - handler[h].since < MaxBusy)
<1> USE DEF tables
<1>1. CASE Tick
  BY <1>1 DEF Tick
<1>2. CASE Crash
  BY <1>2 DEF Crash, NoAlert
<1>3. ASSUME NEW g \in Handler, EvaluateAny(g), g # h
      PROVE  handler'[h] = handler[h] /\ now' = now
  <2>1. \E x : handler' = [handler EXCEPT ![g] = x]
    BY <1>3, EvaluateFacts
  <2> QED
    BY <1>3, <2>1, EvaluateFacts DEF TypeOK
<1>4. ASSUME NEW g \in Handler, Queue(g) PROVE handler'[h] = handler[h] /\ now' = now
  BY <1>4 DEF Queue, NoAlert, TypeOK
<1>5. ASSUME NEW a \in AlertId, Acknowledge(a) \/ LinkIncident(a)
      PROVE  handler' = handler /\ now' = now
  BY <1>5 DEF Acknowledge, LinkIncident
<1>6. ASSUME NEW p \in Pass, \/ StartRetention(p) \/ PruneAlerts(p)
                             \/ PruneAlertsFails(p) \/ PruneDeliveries(p)
      PROVE  handler' = handler /\ now' = now
  BY <1>6 DEF StartRetention, PruneAlerts, PruneAlertsFails, PruneDeliveries
<1>7. ASSUME NEW i \in DeliveryId, BackoffElapses(i) PROVE handler' = handler /\ now' = now
  BY <1>7 DEF BackoffElapses
<1>8. CASE SetMaintenance \/ Deliver \/ UNCHANGED vars
  BY <1>8 DEF SetMaintenance, Deliver, ReadDue, Send, MarkDelivered, RecordLost, SendFails, vars
<1> QED
  BY <1>1, <1>2, <1>3, <1>4, <1>5, <1>6, <1>7, <1>8 DEF Next

\* The alert that an evaluation hands over is the newest one, and fires.
LEMMA HeldAtFirst ==
    ASSUME TypeOK, NEW h \in Handler, EvaluateAny(h), handler'[h].alert # 0
    PROVE  Held(handler[h].alert, handler[h].since)'
<1> PICK c : c = CurrentId
  OBVIOUS
<1>1. /\ c \in 0..MaxAlert /\ \A b \in AlertId : Exists(b) => b <= c
      /\ c # 0 => c \in AlertId /\ Exists(c)
  BY CurrentFacts
<1>2. now' = now /\ now \in Nat /\ MaxBusy \in Nat
  BY EvaluateFacts, Constants DEF TypeOK, Time
<1> PICK a : a = handler'[h].alert
  OBVIOUS
<1> PICK t : t = handler'[h].since
  OBVIOUS
<1>3. t = now /\ a \in AlertId /\ Exists(a)' /\ alerts'[a].state = "firing"
      /\ \A b \in AlertId : Exists(b)' => b <= a
  <2>1. CASE /\ alerts' = alerts
             /\ handler' = [handler EXCEPT ![h] = NoAlert]
    BY <2>1 DEF NoAlert, TypeOK
  <2>2. CASE /\ alerts' = alerts /\ c # 0
             /\ alerts[c].state = "firing"
             /\ handler' = [handler EXCEPT ![h] = [alert |-> c, since |-> now]]
    BY <1>1, <2>2 DEF TypeOK, Exists
  <2>3. CASE \E row \in Alert :
                /\ c + 1 \in AlertId
                /\ alerts' = [alerts EXCEPT ![c + 1] = row]
                /\ handler' = [handler EXCEPT ![h] =
                                 IF row.state = "firing"
                                 THEN [alert |-> c + 1, since |-> now]
                                 ELSE NoAlert]
    <3>1. PICK row \in Alert :
                /\ c + 1 \in AlertId
                /\ alerts' = [alerts EXCEPT ![c + 1] = row]
                /\ handler' = [handler EXCEPT ![h] =
                                 IF row.state = "firing"
                                 THEN [alert |-> c + 1, since |-> now]
                                 ELSE NoAlert]
      BY <2>3
    <3>2. row.state = "firing" /\ a = c + 1 /\ t = now
      BY <3>1 DEF TypeOK, NoAlert
    <3>3. alerts'[c + 1] = row /\ row # NoRow
          /\ \A x \in AlertId : x # c + 1 => alerts'[x] = alerts[x]
      BY <3>1, NoRowAssumption DEF TypeOK
    <3>4. \A b \in AlertId : Exists(b)' => b <= c + 1
      BY <1>1, <3>3, Constants DEF Exists, AlertId
    <3> QED
      BY <3>1, <3>2, <3>3, <3>4 DEF Exists
  <2> QED
    BY <2>1, <2>2, <2>3, EvaluateFacts
<1>4. \A b \in AlertId : ~(b > a /\ Exists(b)')
  BY <1>3, Constants DEF AlertId
<1>5. (t <= now /\ now - t <= MaxBusy)'
  BY <1>2, <1>3
<1>6. Exists(a)' => alerts'[a].state \in Fired
  BY <1>3 DEF Fired
<1>7. Held(a, t)'
  BY <1>3, <1>4, <1>5, <1>6 DEF Held
<1> QED
  BY <1>7 DEF Held

LEMMA StepHandler ==
    ASSUME AlertWindow >= MaxLate + MaxBusy
    PROVE  TypeOK /\ RetentionInv /\ HandlerInv /\ [Next]_vars => HandlerInv'
<1> SUFFICES ASSUME TypeOK, RetentionInv, HandlerInv, [Next]_vars,
                    NEW h \in Handler, handler'[h].alert # 0
             PROVE  Held(handler[h].alert, handler[h].since)'
  BY HeldIsHandlerInv DEF HandlerInv, Held
<1>1. CASE EvaluateAny(h)
  BY <1>1, HeldAtFirst
<1>2. CASE /\ handler'[h] = handler[h]
           /\ now' = now \/ (now' = now + 1 /\ now - handler[h].since < MaxBusy)
  <2> PICK a : a = handler[h].alert
    OBVIOUS
  <2> PICK t : t = handler[h].since
    OBVIOUS
  <2>1. a \in AlertId /\ t \in Time
    BY <1>2, Constants DEF TypeOK, AlertId
  <2>2. Held(a, t)
    BY <1>2 DEF HandlerInv, Held
  <2>3. Held(a, t)'
    BY <1>2, <2>1, <2>2, HeldStep
  <2>4. a = handler'[h].alert /\ t = handler'[h].since
    BY <1>2
  <2> QED
    BY <2>3, <2>4 DEF Held
<1> QED
  BY <1>1, <1>2, HandlerSteps

\* Rows of the deliveries table keep their alert, and new ones are of the alert
\* that a handler held.
LEMMA RowSteps ==
    ASSUME TypeOK, WorkerInv, [Next]_vars, NEW i \in DeliveryId, Stored(i)'
    PROVE  \/ Stored(i) /\ deliveries'[i].alert = deliveries[i].alert
           \/ \E h \in Handler : /\ Queue(h) /\ Exists(handler[h].alert)
                                 /\ deliveries'[i].alert = handler[h].alert
<1>1. CASE UNCHANGED <<deliveries, worker, notified, crashes>>
  BY <1>1 DEF Stored
<1>2. CASE Crash \/ ReadDue
  BY <1>2 DEF Crash, ReadDue, Stored, tables
<1>3. CASE Send
  BY <1>3 DEF Send, Stored, tables
<1>4. CASE MarkDelivered \/ RecordLost \/ SendFails
  <2>1. Stored(Item) /\ Item \in DeliveryId
    BY <1>4, ItemFacts DEF MarkDelivered, RecordLost, SendFails, WorkerInv
  <2> QED
    BY <1>4, <2>1, RecordFacts DEF Stored, TypeOK
<1>5. ASSUME NEW h \in Handler, Queue(h)
      PROVE  \/ Stored(i) /\ deliveries'[i].alert = deliveries[i].alert
             \/ /\ Queue(h) /\ Exists(handler[h].alert)
                /\ deliveries'[i].alert = handler[h].alert
  <2> PICK a : a = handler[h].alert
    OBVIOUS
  <2>1. a \in AlertId
    BY <1>5, Constants DEF Queue, TypeOK, AlertId
  <2>2. CASE ~Exists(a)
    BY <1>5, <2>2 DEF Queue, Stored
  <2>3. CASE Exists(a) /\ InsertRows(a)
    <3>1. deliveries'[i] = deliveries[i] \/ \E r \in Route : deliveries'[i] = NewDelivery(a, r)
      BY <2>1, <2>3, InsertFacts
    <3>2. \A r : NewDelivery(a, r).alert = a
      BY DEF NewDelivery
    <3> QED
      BY <1>5, <2>3, <3>1, <3>2 DEF Stored
  <2> QED
    BY <1>5, <2>2, <2>3 DEF Queue
<1>6. ASSUME NEW j \in DeliveryId, BackoffElapses(j)
      PROVE  Stored(i) /\ deliveries'[i].alert = deliveries[i].alert
  BY <1>6, BackoffFacts DEF Stored, TypeOK
<1>7. ASSUME NEW p \in Pass, PruneDeliveries(p)
      PROVE  Stored(i) /\ deliveries'[i].alert = deliveries[i].alert
  BY <1>7 DEF PruneDeliveries, Stored
<1> QED
  BY <1>1, <1>2, <1>3, <1>4, <1>5, <1>6, <1>7, QuietSteps

LEMMA StepFired ==
    TypeOK /\ WorkerInv /\ HandlerInv /\ OfFired /\ [Next]_vars => OfFired'
<1> SUFFICES ASSUME TypeOK, WorkerInv, HandlerInv, OfFired, [Next]_vars,
                    NEW i \in DeliveryId, Stored(i)'
             PROVE  /\ Exists(deliveries[i].alert)'
                    /\ alerts'[deliveries'[i].alert].state \in Fired
  BY DEF OfFired
<1> PICK a : a = deliveries'[i].alert
  OBVIOUS
<1>1. Exists(a)' /\ alerts'[a].state \in Fired
  <2>1. CASE \E h \in Handler : /\ Queue(h) /\ Exists(handler[h].alert)
                                /\ a = handler[h].alert
    <3>1. PICK h \in Handler : Queue(h) /\ Exists(a) /\ a = handler[h].alert
      BY <2>1
    <3>2. alerts' = alerts /\ a # 0
      BY <3>1 DEF Queue
    <3>3. alerts[a].state \in Fired
      BY <3>1, <3>2 DEF HandlerInv
    <3> QED
      BY <3>1, <3>2, <3>3 DEF Exists
  <2>2. CASE Stored(i) /\ a = deliveries[i].alert
    <3>1. a \in AlertId /\ Exists(a) /\ alerts[a].state \in Fired
      BY <2>2, DeliveryRows DEF OfFired, Delivery
    <3>2. CASE UNCHANGED alerts
      BY <3>1, <3>2 DEF Exists
    <3>3. ASSUME NEW h \in Handler, EvaluateAny(h) PROVE alerts'[a] = alerts[a]
      <4>1. a <= CurrentId /\ CurrentId \in Nat /\ a # CurrentId + 1
        BY <3>1, CurrentFacts, Constants DEF AlertId
      <4>2. alerts' = alerts \/ \E row : alerts' = [alerts EXCEPT ![CurrentId + 1] = row]
        BY <3>3, EvaluateFacts
      <4> QED
        BY <3>1, <4>1, <4>2 DEF TypeOK
    <3>4. ASSUME NEW x \in AlertId, Acknowledge(x)
          PROVE  Exists(a)' /\ alerts'[a].state \in Fired
      BY <3>1, <3>4, AcknowledgeFacts DEF Fired
    <3>5. ASSUME NEW p \in Pass, PruneAlerts(p) PROVE alerts'[a] = alerts[a]
      BY <2>2, <3>5, PruneFacts
    <3> QED
      BY <3>1, <3>2, <3>3, <3>4, <3>5, AlertSteps DEF Exists
  <2> QED
    BY <2>1, <2>2, RowSteps
<1> QED
  BY <1>1 DEF Exists

\* As long as the window of retention is longer than an observation may be late
\* and a handler busy together, every delivery is of an alert that exists and
\* has fired, and those the worker has read stay: although IDs are given out
\* again, handlers keep them while other handlers insert and retention removes
\* rows, and retention runs at any time (Evaluate, Queue, DeliverDue, RunOnce).
THEOREM DeliveriesTheorem ==
    ASSUME AlertWindow >= MaxLate + MaxBusy
    PROVE  Spec => []DeliveriesHaveAlerts
<1>1. Init => RetentionInv /\ HandlerInv /\ OfFired
  BY DEF Init, RetentionInv, HandlerInv, OfFired, NoPass, NoAlert, Stored
<1>2. TypeOK /\ RetentionInv /\ HandlerInv /\ [Next]_vars => HandlerInv'
  BY StepHandler
<1>3. WorkerInv /\ OfFired => DeliveriesHaveAlerts
  BY DEF WorkerInv, OfFired, DeliveriesHaveAlerts, Fired
<1> QED
  BY <1>1, <1>2, <1>3, InitType, StepType, StepRetention, StepFired, PTL DEF Spec

----------------------------------------------------------------------------
(* The results of the central checks that are to reach the rules *)

LEMMA RemovedSeq ==
    ASSUME NEW S, NEW s \in Seq(S), NEW e
    PROVE  RemoveFirst(s, e) \in Seq(S)
<1> DEFINE I == {i \in 1..Len(s) : s[i] = e}
<1>1. CASE I = {}
  BY <1>1 DEF RemoveFirst
<1>2. CASE I # {}
  <2>1. I \in SUBSET Nat /\ I \subseteq 1..Len(s)
    BY LenProperties
  <2>2. \E x \in I : \A y \in I : x <= y
    BY <1>2, <2>1, Smallest
  <2>3. Min(I) \in I
    BY <2>2 DEF Min
  <2>4. RemoveFirst(s, e) = RemoveAt(s, Min(I))
    BY <1>2 DEF RemoveFirst, SelectInSeq
  <2>5. PICK n \in 1..Len(s) : n = Min(I)
    BY <2>1, <2>3
  <2>6. /\ Len(s) \in Nat /\ n - 1 \in Int /\ n + 1 \in Int /\ 1 \in Int
        /\ \A i \in 1..(n - 1) : s[i] \in S
        /\ \A i \in (n + 1)..Len(s) : s[i] \in S
    <3>1. Len(s) \in Nat
      BY LenProperties
    <3>2. n \in 1..Len(s)
      BY <2>5
    <3> HIDE DEF I
    <3>3. \A i \in 1..Len(s) : s[i] \in S
      BY ElementOfSeq
    <3> QED
      BY <3>1, <3>2, <3>3
  <2>7. SubSeq(s, 1, n - 1) \in Seq(S)
    BY <2>6, SubSeqProperties
  <2>8. SubSeq(s, n + 1, Len(s)) \in Seq(S)
    <3>1. Len(s) \in Int
      BY <2>6
    <3> QED
      BY <2>6, <3>1, SubSeqProperties
  <2> QED
    BY <2>4, <2>5, <2>7, <2>8, ConcatProperties DEF RemoveAt
<1> QED
  BY <1>1, <1>2

LEMMA FirstSeq ==
    ASSUME NEW S, NEW q \in Seq(S), q # <<>>, NEW n \in Nat \ {0}
    PROVE  First(n, q) \in Seq(S) /\ First(n, q) # <<>>
<1> DEFINE m == IF n < Len(q) THEN n ELSE Len(q)
<1>1. m \in 1..Len(q)
  BY LenProperties, EmptySeq
<1>2. SubSeq(q, 1, m) \in Seq(S) /\ Len(SubSeq(q, 1, m)) = m
  BY <1>1, LenProperties, SubSeqProperties
<1> QED
  BY <1>1, <1>2 DEF First

LEMMA QueuedSeq ==
    ASSUME NEW S, NEW q \in Seq(S), NEW T \in SUBSET S, IsFiniteSet(T),
           NEW new \in SetToSeqs(T)
    PROVE  q \o new \in Seq(S)
<1>1. Cardinality(T) \in Nat
  BY FS_CardinalityType
<1>2. new \in [1..Cardinality(T) -> T]
  <2>1. Cardinality(T) = Cardinality(T)
    BY DEF Cardinality, Cardinality
  <2> QED
    BY <2>1, Zenon DEF SetToSeqs
<1>3. new \in [1..Cardinality(T) -> S]
  BY <1>2
<1>4. new \in Seq(S)
  BY <1>1, <1>3
<1> QED
  BY <1>4, ConcatProperties

LEMMA ResultSets ==
    ASSUME NEW S, NEW s \in Seq(S), NEW e \in S
    PROVE  /\ ToSet(Append(s, e)) = ToSet(s) \cup {e}
           /\ s # <<>> => ToSet(s) = {Head(s)} \cup ToSet(Tail(s))
           /\ ToSet(<<>>) = {}
<1>1. ToSet(Append(s, e)) = ToSet(s) \cup {e}
  <2> DEFINE t == Append(s, e)
  <2>1. /\ Len(s) \in Nat /\ DOMAIN s = 1..Len(s) /\ DOMAIN t = 1..(Len(s) + 1)
        /\ \A i \in 1..Len(s) : t[i] = s[i]
        /\ t[Len(s) + 1] = e
    BY AppendProperties, LenProperties
  <2> HIDE DEF t
  <2>2. ASSUME NEW i \in 1..(Len(s) + 1)
        PROVE  t[i] \in ToSet(s) \cup {e}
    <3>1. i \in 1..Len(s) \/ i = Len(s) + 1
      BY <2>1
    <3> QED
      BY <2>1, <3>1 DEF ToSet
  <2>3. ASSUME NEW i \in 1..Len(s) PROVE  s[i] \in ToSet(t)
    <3>1. i \in DOMAIN t /\ t[i] = s[i]
      BY <2>1
    <3> QED
      BY <3>1, Zenon DEF ToSet
  <2>4. e \in ToSet(t)
    <3>1. Len(s) + 1 \in DOMAIN t
      BY <2>1
    <3> QED
      BY <2>1, <3>1, Zenon DEF ToSet
  <2>5. \A x \in ToSet(t) : x \in ToSet(s) \cup {e}
    BY <2>1, <2>2, Zenon DEF ToSet
  <2>6. \A x \in ToSet(s) : x \in ToSet(t)
    BY <2>1, <2>3, Zenon DEF ToSet
  <2>7. ToSet(t) = ToSet(s) \cup {e}
    BY <2>4, <2>5, <2>6
  <2> QED
    BY <2>7 DEF t
<1>2. ASSUME s # <<>>
      PROVE  ToSet(s) = {Head(s)} \cup ToSet(Tail(s))
  <2>1. /\ Len(s) \in Nat \ {0} /\ DOMAIN s = 1..Len(s) /\ Head(s) = s[1]
        /\ Tail(s) \in Seq(S) /\ DOMAIN Tail(s) = 1..(Len(s) - 1)
        /\ \A i \in 1..(Len(s) - 1) : Tail(s)[i] = s[i + 1]
    BY <1>2
  <2>2. ASSUME NEW i \in 1..Len(s)
        PROVE  s[i] \in {Head(s)} \cup ToSet(Tail(s))
    <3>1. i = 1 \/ (i - 1 \in 1..(Len(s) - 1) /\ s[i] = Tail(s)[i - 1])
      BY <2>1
    <3> QED
      BY <2>1, <3>1 DEF ToSet
  <2>3. ASSUME NEW i \in 1..(Len(s) - 1) PROVE  Tail(s)[i] \in ToSet(s)
    <3>1. i + 1 \in 1..Len(s) /\ Tail(s)[i] = s[i + 1]
      BY <2>1
    <3> QED
      BY <2>1, <3>1 DEF ToSet
  <2>4. Head(s) \in ToSet(s)
    BY <2>1 DEF ToSet
  <2> QED
    BY <2>1, <2>2, <2>3, <2>4 DEF ToSet
<1>3. ToSet(<<>>) = {}
  BY DEF ToSet
<1> QED
  BY <1>1, <1>2, <1>3

LEMMA DueFinite ==
    ASSUME NEW T \in SUBSET (Check \cup Profile)
    PROVE  IsFiniteSet(T)
<1>1. IsFiniteSet(Check \cup Profile)
  BY CollectionAssumption DEF Source
<1> QED
  BY <1>1, FS_Subset

\* RoundInv with only what a step that leaves the round alone can disturb.
LEMMA DueOnly ==
    ASSUME RoundInv, checkDue' \in Seq(Check),
           UNCHANGED <<round, unseen>>
    PROVE  RoundInv'
BY DEF RoundInv

LEMMA RoundStart ==
    /\ IdleRound = [pc |-> "idle", work |-> <<>>, results |-> <<>>]
    /\ IdleRound \in [pc : {"idle", "store", "ingest"},
                                 work : Seq(Check), results : Seq(Check)]
    /\ ToSet(<<>>) = {}
<1>1. <<>> \in Seq(Check)
  BY EmptySeq
<1> QED
  BY <1>1 DEF IdleRound, ToSet

\* A step that ends the round leaves nothing unseen.
LEMMA EndRound ==
    ASSUME checkDue' \in Seq(Check), round' = IdleRound,
           unseen' = {}
    PROVE  RoundInv'
<1>1. /\ round'.pc = "idle" /\ round'.results = <<>>
      /\ round' \in [pc : {"idle", "store", "ingest"},
                     work : Seq(Check), results : Seq(Check)]
  BY RoundStart
<1>2. round'.pc # "store" /\ round'.pc # "ingest"
  BY <1>1
<1> QED
  BY <1>1, <1>2, RoundStart DEF RoundInv

LEMMA RoundInit == CollectionInit => RoundInv
<1> SUFFICES ASSUME CollectionInit PROVE RoundInv
  OBVIOUS
<1>1. /\ checkDue = <<>> /\ round = IdleRound /\ unseen = {}
  BY DEF CollectionInit
<1>2. checkDue \in Seq(Check)
  BY <1>1, EmptySeq
<1>3. /\ round.pc = "idle" /\ round.results = <<>>
      /\ round \in [pc : {"idle", "store", "ingest"},
                    work : Seq(Check), results : Seq(Check)]
  BY <1>1, RoundStart
<1>4. round.pc # "store" /\ round.pc # "ingest"
  BY <1>3
<1> QED
  BY <1>1, <1>2, <1>3, <1>4, RoundStart DEF RoundInv

LEMMA TickRound ==
    ASSUME RoundInv, TimePasses
    PROVE  RoundInv'
<1>1. PICK new \in SetToSeqs({c \in Check : wait[c] = 1}) :
         checkDue' = checkDue \o new
  BY Zenon DEF TimePasses
<1>2. IsFiniteSet({c \in Check : wait[c] = 1})
  BY DueFinite
<1>3. checkDue' \in Seq(Check)
  BY <1>1, <1>2, QueuedSeq DEF RoundInv
<1> QED
  BY <1>3, DueOnly DEF TimePasses

LEMMA SaveRound ==
    ASSUME RoundInv, NEW c \in Check, SaveCheck(c)
    PROVE  RoundInv'
<1>1. checkDue' \in Seq(Check)
  BY AppendProperties DEF SaveCheck, RoundInv
<1> QED
  BY <1>1, DueOnly DEF SaveCheck

LEMMA DeleteRound ==
    ASSUME RoundInv, NEW c \in Check, DeleteCheck(c)
    PROVE  RoundInv'
<1>1. checkDue' \in Seq(Check)
  BY RemovedSeq DEF DeleteCheck, RoundInv
<1> QED
  BY <1>1, DueOnly DEF DeleteCheck

LEMMA RunDueRound ==
    ASSUME RoundInv, RunDue
    PROVE  RoundInv'
<1> DEFINE w == First(CheckLimit, checkDue)
<1>1. w \in Seq(Check) /\ w # <<>>
  BY FirstSeq, CollectionAssumption DEF RunDue, RoundInv
<1>2. round' = [pc |-> "store", work |-> w, results |-> <<>>]
  BY DEF RunDue, IdleRound
<1> HIDE DEF w
<1>3. <<>> \in Seq(Check)
  BY EmptySeq
<1>4. /\ round.pc = "idle" /\ UNCHANGED <<checkDue, unseen>>
  BY DEF RunDue
<1>5. unseen = {}
  BY <1>4, RoundStart DEF RoundInv
<1>6. /\ round' \in [pc : {"idle", "store", "ingest"},
                     work : Seq(Check), results : Seq(Check)]
      /\ round'.pc = "store" /\ round'.work # <<>>
      /\ round'.pc # "idle" /\ round'.pc # "ingest"
  BY <1>1, <1>2, <1>3
<1> QED
  BY <1>4, <1>5, <1>6 DEF RoundInv

LEMMA StoreResultRound ==
    ASSUME RoundInv, StoreResult
    PROVE  RoundInv'
<1> DEFINE c == Head(round.work)
<1>1. /\ round.work \in Seq(Check) /\ round.work # <<>>
      /\ round.results \in Seq(Check) /\ checkDue \in Seq(Check)
  BY DEF RoundInv, StoreResult
<1>2. c \in Check /\ Tail(round.work) \in Seq(Check)
  BY <1>1, HeadTailProperties
<1>3. /\ Append(round.results, c) \in Seq(Check)
      /\ Append(round.results, c) # <<>>
  BY <1>1, <1>2, AppendProperties
<1>4. ToSet(Append(round.results, c))
         = ToSet(round.results) \cup {c}
  BY <1>1, <1>2, ResultSets
<1>5. /\ round' = [round EXCEPT !.work = Tail(@), !.results = Append(@, c)]
      /\ checkDue' = RemoveFirst(checkDue, c)
      /\ unseen' = unseen \cup {c}
      /\ round.pc = "store"
  BY DEF StoreResult
<1> HIDE DEF c
<1>6. /\ round' \in [pc : {"idle", "store", "ingest"},
                     work : Seq(Check), results : Seq(Check)]
      /\ round'.pc = "store" /\ round'.results = Append(round.results, c)
      /\ round'.pc # "idle" /\ round'.pc # "ingest"
  BY <1>2, <1>3, <1>5 DEF RoundInv
<1>7. checkDue' \in Seq(Check)
  BY <1>1, <1>5, RemovedSeq
<1>8. unseen \subseteq ToSet(round.results)
  BY DEF RoundInv
<1>9. unseen' \subseteq ToSet(round'.results)
  BY <1>4, <1>5, <1>6, <1>8
<1> QED
  BY <1>3, <1>6, <1>7, <1>9 DEF RoundInv, ToSet

LEMMA StoredRound ==
    ASSUME RoundInv, AllStored
    PROVE  RoundInv'
<1>1. /\ round.pc = "store" /\ round.work = <<>>
      /\ round' = [round EXCEPT !.pc = "ingest"]
      /\ UNCHANGED <<checkDue, unseen>>
  BY DEF AllStored
<1>2. /\ round' \in [pc : {"idle", "store", "ingest"},
                     work : Seq(Check), results : Seq(Check)]
      /\ round'.pc = "ingest" /\ round'.results = round.results
      /\ round'.pc # "idle" /\ round'.pc # "store"
      /\ round.results # <<>>
  BY <1>1 DEF RoundInv
<1> QED
  BY <1>1, <1>2 DEF RoundInv, ToSet

\* What the loop has left when it turns to the next result.
LEMMA NextResultRound ==
    ASSUME RoundInv, round.pc = "ingest", NextResult,
           UNCHANGED checkDue,
           unseen' \subseteq ToSet(round.results) \ {Head(round.results)}
    PROVE  RoundInv'
<1> DEFINE rest == Tail(round.results)
<1>1. /\ round.results \in Seq(Check) /\ round.results # <<>>
      /\ checkDue' \in Seq(Check)
  BY DEF RoundInv
<1>2. /\ rest \in Seq(Check) /\ Len(rest) = Len(round.results) - 1
      /\ Head(round.results) \in Check
  BY <1>1, HeadTailProperties
<1>3. ToSet(round.results)
         = {Head(round.results)} \cup ToSet(rest)
  BY <1>1, <1>2, ResultSets
<1>4. unseen' \subseteq ToSet(rest)
  BY <1>3
<1> HIDE DEF rest
<1>5. CASE Len(round.results) = 1
  <2>1. rest = <<>>
    BY <1>2, <1>5, EmptySeq
  <2>2. unseen' = {}
    BY <1>4, <2>1, RoundStart
  <2> QED
    BY <1>1, <1>5, <2>2, EndRound DEF NextResult
<1>6. CASE Len(round.results) # 1
  <2>1. rest # <<>>
    <3>1. Len(round.results) \in Nat \ {0}
      BY <1>1, EmptySeq
    <3>2. Len(rest) # 0
      BY <1>2, <1>6, <3>1
    <3> QED
      BY <3>2, EmptySeq
  <2>2. round' = [round EXCEPT !.results = rest]
    BY <1>6 DEF NextResult, rest
  <2>3. /\ round' \in [pc : {"idle", "store", "ingest"},
                       work : Seq(Check), results : Seq(Check)]
        /\ round'.pc = "ingest" /\ round'.results = rest
        /\ round'.pc # "idle" /\ round'.pc # "store"
    BY <1>2, <2>2 DEF RoundInv
  <2> QED
    BY <1>1, <1>4, <2>1, <2>3 DEF RoundInv, ToSet
<1> QED
  BY <1>5, <1>6

LEMMA IngestRound ==
    ASSUME RoundInv, IngestResult \/ IngestFails
    PROVE  RoundInv'
<1>1. unseen \subseteq ToSet(round.results)
  BY DEF RoundInv
<1>2. CASE IngestResult
  BY <1>1, <1>2, NextResultRound DEF IngestResult
<1>3. CASE IngestFails
  BY <1>1, <1>3, NextResultRound DEF IngestFails
<1> QED
  BY <1>2, <1>3

LEMMA LostRound ==
    ASSUME RoundInv, LoopsEnd \/ RoundFails
    PROVE  RoundInv'
<1>1. /\ unseen \subseteq ToSet(round.results)
      /\ checkDue \in Seq(Check)
  BY DEF RoundInv
<1>2. CASE LoopsEnd
  BY <1>1, <1>2, EndRound DEF LoopsEnd
<1>3. CASE RoundFails
  BY <1>1, <1>3, EndRound DEF RoundFails
<1> QED
  BY <1>2, <1>3

LEMMA RoundStep ==
    ASSUME RoundInv,
           [CollectionNext]_collectionVars
    PROVE  RoundInv'
<1>1. CASE UNCHANGED <<checkDue, round, unseen>>
  BY <1>1, DueOnly DEF RoundInv
<1>2. CASE UNCHANGED collectionVars
  BY <1>1, <1>2 DEF collectionVars
<1>3. CASE \/ Fill \/ Reclaim
           \/ \E p \in Profile : DeleteProfile(p) \/ SaveProfile(p)
  BY <1>1, <1>3 DEF Fill, Reclaim,
                    DeleteProfile, SaveProfile
<1>4. CASE PollStep \/ EmitFails
  BY <1>1, <1>4 DEF PollStep, RunDueSNMP,
     PollDevice, EmitPoll, PollRefused,
     EmitFails
<1>5. CASE StoreFails \/ StoreRefused \/ ProcessStops \/ ConnectPanics
  BY <1>5, LostRound DEF StoreFails, StoreRefused, ProcessStops, ConnectPanics
<1>6. CASE CheckStep
  BY <1>5, <1>6, RunDueRound, StoreResultRound, StoredRound, IngestRound
     DEF CheckStep
<1>7. CASE TimePasses
  BY <1>7, TickRound
<1>8. CASE \E c \in Check : DeleteCheck(c) \/ SaveCheck(c)
  BY <1>8, SaveRound, DeleteRound
<1> QED
  BY <1>2, <1>3, <1>4, <1>5, <1>6, <1>7, <1>8 DEF CollectionNext

\* A round of checks routes every result that it stores to the rules, except
\* those that a failure of their own, a later result that is not stored (its
\* schedule was deleted meanwhile) or the end of the process keeps from them
\* (RunDue and checkLoop), for any number of due checks and any limit.
THEOREM ResultsReachRules == CollectionSpec => []StoredReachesRules
<1>1. RoundInv => StoredReachesRules
  BY RoundStart DEF RoundInv, StoredReachesRules
<1>2. RoundInv /\ [CollectionNext]_collectionVars
         => RoundInv'
  BY RoundStep
<1> QED
  BY <1>1, <1>2, RoundInit, PTL DEF CollectionSpec

----------------------------------------------------------------------------
(* The queues of the loops *)

\* q lists the elements of S, each of them once.
Lists(q, U, S) ==
    q \in Seq(U) /\ ToSet(q) = S /\ IsInjective(q)

LEMMA ListsByIndex ==
    ASSUME NEW U, NEW S, NEW q \in Seq(U)
    PROVE  Lists(q, U, S) <=>
             /\ \A i \in 1..Len(q) : q[i] \in S
             /\ \A x \in S : \E i \in 1..Len(q) : q[i] = x
             /\ \A i, j \in 1..Len(q) : q[i] = q[j] => i = j
<1>1. DOMAIN q = 1..Len(q)
  BY LenProperties
<1>2. ToSet(q) = {q[i] : i \in 1..Len(q)}
  BY <1>1 DEF ToSet
<1>3. ToSet(q) = S <=> /\ \A i \in 1..Len(q) : q[i] \in S
                       /\ \A x \in S : \E i \in 1..Len(q) : q[i] = x
  BY <1>2
<1>4. IsInjective(q)
         <=> \A i, j \in 1..Len(q) : q[i] = q[j] => i = j
  BY <1>1, Zenon DEF IsInjective
<1> QED
  BY <1>3, <1>4 DEF Lists

LEMMA ListsAppend ==
    ASSUME NEW U, NEW S, NEW q, Lists(q, U, S), NEW e \in U, e \notin S
    PROVE  Lists(Append(q, e), U, S \cup {e})
<1> DEFINE t == Append(q, e)
<1>1. q \in Seq(U)
  BY DEF Lists
<1>2. /\ \A i \in 1..Len(q) : q[i] \in S
      /\ \A x \in S : \E i \in 1..Len(q) : q[i] = x
      /\ \A i, j \in 1..Len(q) : q[i] = q[j] => i = j
  BY <1>1, ListsByIndex
<1>3. /\ t \in Seq(U) /\ Len(q) \in Nat /\ Len(t) = Len(q) + 1
      /\ \A i \in 1..Len(q) : t[i] = q[i]
      /\ t[Len(q) + 1] = e
  BY <1>1, AppendProperties, LenProperties
<1> HIDE DEF t
<1>4. \A i \in 1..Len(t) : i \in 1..Len(q) \/ i = Len(q) + 1
  BY <1>3
<1>5. \A i \in 1..Len(t) : t[i] \in S \cup {e}
  BY <1>2, <1>3, <1>4
<1>6. \A x \in S \cup {e} : \E i \in 1..Len(t) : t[i] = x
  <2>1. Len(q) + 1 \in 1..Len(t) /\ 1..Len(q) \subseteq 1..Len(t)
    BY <1>3
  <2> QED
    BY <1>2, <1>3, <2>1
<1>7. \A i, j \in 1..Len(t) : t[i] = t[j] => i = j
  BY <1>2, <1>3, <1>4
<1>8. Lists(t, U, S \cup {e})
  BY <1>3, <1>5, <1>6, <1>7, ListsByIndex
<1> QED
  BY <1>8 DEF t

LEMMA ListsRemove ==
    ASSUME NEW U, NEW S, NEW q, Lists(q, U, S), NEW e
    PROVE  Lists(RemoveFirst(q, e), U, S \ {e})
<1> DEFINE t == RemoveFirst(q, e)
<1>1. q \in Seq(U)
  BY DEF Lists
<1>2. /\ \A i \in 1..Len(q) : q[i] \in S
      /\ \A x \in S : \E i \in 1..Len(q) : q[i] = x
      /\ \A i, j \in 1..Len(q) : q[i] = q[j] => i = j
  BY <1>1, ListsByIndex
<1>3. CASE \A i \in 1..Len(q) : q[i] # e
  <2>1. t = q /\ S \ {e} = S
    BY <1>2, <1>3 DEF RemoveFirst
  <2> QED
    BY <2>1
<1>4. CASE \E i \in 1..Len(q) : q[i] = e
  <2> DEFINE I == {i \in 1..Len(q) : q[i] = e}
  <2>1. PICK n \in 1..Len(q) : q[n] = e
    BY <1>4
  <2>2. I = {n}
    BY <1>2, <2>1
  <2>3. Min(I) = n
    <3>1. n <= n
      BY <1>1, LenProperties
    <3> QED
      BY <2>2, <3>1 DEF Min
  <2>4. t = RemoveAt(q, n)
    BY <1>4, <2>2, <2>3 DEF RemoveFirst, SelectInSeq
  <2>5. t = SubSeq(q, 1, n - 1) \o SubSeq(q, n + 1, Len(q))
    BY <2>4 DEF RemoveAt
  <2> HIDE DEF I, t
  <2>6. Len(q) \in Nat /\ n \in Nat /\ 1 <= n /\ n <= Len(q)
    BY <1>1, LenProperties
  <2>7. \A i \in 1..Len(q) : q[i] \in U
    BY <1>1, ElementOfSeq
  <2>8. /\ SubSeq(q, 1, n - 1) \in Seq(U) /\ Len(SubSeq(q, 1, n - 1)) = n - 1
        /\ \A i \in 1..(n - 1) : SubSeq(q, 1, n - 1)[i] = q[i]
    <3>1. 1 \in Int /\ n - 1 \in Int /\ \A i \in 1..(n - 1) : q[i] \in U
      BY <2>6, <2>7
    <3>2. /\ SubSeq(q, 1, n - 1) \in Seq(U)
          /\ Len(SubSeq(q, 1, n - 1)) = IF 1 <= n - 1 THEN n - 1 - 1 + 1 ELSE 0
          /\ \A i \in 1..(n - 1 - 1 + 1) : SubSeq(q, 1, n - 1)[i] = q[1 + i - 1]
      BY <3>1, SubSeqProperties
    <3> QED
      BY <2>6, <3>2
  <2>9. /\ SubSeq(q, n + 1, Len(q)) \in Seq(U)
        /\ Len(SubSeq(q, n + 1, Len(q))) = Len(q) - n
        /\ \A i \in 1..(Len(q) - n) : SubSeq(q, n + 1, Len(q))[i] = q[n + i]
    <3>1. n + 1 \in Int /\ Len(q) \in Int /\ \A i \in (n + 1)..Len(q) : q[i] \in U
      BY <2>6, <2>7
    <3>2. /\ SubSeq(q, n + 1, Len(q)) \in Seq(U)
          /\ Len(SubSeq(q, n + 1, Len(q)))
                = IF n + 1 <= Len(q) THEN Len(q) - (n + 1) + 1 ELSE 0
          /\ \A i \in 1..(Len(q) - (n + 1) + 1) :
                SubSeq(q, n + 1, Len(q))[i] = q[n + 1 + i - 1]
      BY <3>1, SubSeqProperties
    <3> QED
      BY <2>6, <3>2
  <2> DEFINE a == SubSeq(q, 1, n - 1)
             b == SubSeq(q, n + 1, Len(q))
  <2>10. /\ t \in Seq(U) /\ Len(t) = Len(a) + Len(b)
         /\ \A i \in 1..(Len(a) + Len(b)) :
               t[i] = IF i <= Len(a) THEN a[i] ELSE b[i - Len(a)]
    BY <2>5, <2>8, <2>9, ConcatProperties
  <2> HIDE DEF a, b
  <2>11. /\ Len(t) = Len(q) - 1
         /\ \A i \in 1..(Len(q) - 1) : t[i] = IF i < n THEN q[i] ELSE q[i + 1]
    <3>1. /\ Len(a) = n - 1 /\ Len(b) = Len(q) - n
          /\ \A i \in 1..(n - 1) : a[i] = q[i]
          /\ \A i \in 1..(Len(q) - n) : b[i] = q[n + i]
      BY <2>8, <2>9 DEF a, b
    <3>2. Len(t) = Len(q) - 1
      BY <2>6, <2>10, <3>1
    <3>3. ASSUME NEW i \in 1..(Len(q) - 1)
          PROVE  t[i] = IF i < n THEN q[i] ELSE q[i + 1]
      <4>1. t[i] = IF i <= n - 1 THEN a[i] ELSE b[i - (n - 1)]
        BY <2>6, <2>10, <3>1
      <4>2. CASE i < n
        BY <2>6, <3>1, <4>1, <4>2
      <4>3. CASE ~(i < n)
        <5>1. i - (n - 1) \in 1..(Len(q) - n) /\ n + (i - (n - 1)) = i + 1
          BY <2>6, <4>3
        <5>2. b[i - (n - 1)] = q[i + 1]
          BY <3>1, <5>1
        <5> QED
          BY <2>6, <4>1, <4>3, <5>2
      <4> QED
        BY <4>2, <4>3
    <3> QED
      BY <3>2, <3>3
  <2>12. \A i \in 1..Len(t) : t[i] \in S \ {e}
    BY <1>2, <2>1, <2>6, <2>11
  <2>13. \A x \in S \ {e} : \E i \in 1..Len(t) : t[i] = x
    <3> SUFFICES ASSUME NEW x \in S \ {e} PROVE \E i \in 1..Len(t) : t[i] = x
      OBVIOUS
    <3>1. PICK i \in 1..Len(q) : q[i] = x
      BY <1>2
    <3>2. i # n
      BY <2>1, <3>1
    <3>3. CASE i < n
      BY <2>6, <2>11, <3>1, <3>3
    <3>4. CASE i > n
      <4>1. i - 1 \in 1..Len(t) /\ t[i - 1] = x
        BY <2>6, <2>11, <3>1, <3>4
      <4> QED
        BY <4>1
    <3> QED
      BY <2>6, <3>2, <3>3, <3>4
  <2>14. \A i, j \in 1..Len(t) : t[i] = t[j] => i = j
    BY <1>2, <2>6, <2>11
  <2>15. Lists(t, U, S \ {e})
    BY <2>10, <2>12, <2>13, <2>14, ListsByIndex
  <2> QED
    BY <2>15 DEF t
<1> QED
  BY <1>3, <1>4

LEMMA ListsQueued ==
    ASSUME NEW U, NEW S, NEW q, Lists(q, U, S), NEW T \in SUBSET U, IsFiniteSet(T),
           S \cap T = {}, NEW new \in SetToSeqs(T)
    PROVE  Lists(q \o new, U, S \cup T)
<1> DEFINE t == q \o new
           m == Cardinality(T)
<1>1. q \in Seq(U)
  BY DEF Lists
<1>2. /\ \A i \in 1..Len(q) : q[i] \in S
      /\ \A x \in S : \E i \in 1..Len(q) : q[i] = x
      /\ \A i, j \in 1..Len(q) : q[i] = q[j] => i = j
  BY <1>1, ListsByIndex
<1>3. m \in Nat
  BY FS_CardinalityType
<1>4. /\ new \in [1..m -> T]
      /\ \A i, j \in 1..m : i # j => new[i] # new[j]
  BY Zenon DEF SetToSeqs
<1>5. \A x \in T : \E i \in 1..m : new[i] = x
  <2>1. new \in Injection(1..m, T)
    BY <1>4, Zenon DEF Injection, IsInjective
  <2>2. IsFiniteSet(1..m) /\ Cardinality(1..m) = m
    <3>1. 1 \in Int /\ m \in Int
      BY <1>3
    <3>2. /\ IsFiniteSet(1..m)
          /\ Cardinality(1..m) = IF 1 > m THEN 0 ELSE m - 1 + 1
      BY <3>1, FS_Interval
    <3> QED
      BY <1>3, <3>2
  <2>3. new \in Surjection(1..m, T)
    BY <2>1, <2>2, FS_Injection
  <2> QED
    BY <2>3 DEF Surjection
<1> HIDE DEF m
<1>6. new \in Seq(U) /\ Len(new) = m
  BY <1>3, <1>4
<1>7. /\ t \in Seq(U) /\ Len(t) = Len(q) + m
      /\ \A i \in 1..(Len(q) + m) : t[i] = IF i <= Len(q) THEN q[i] ELSE new[i - Len(q)]
  BY <1>1, <1>6, ConcatProperties
<1>8. Len(q) \in Nat
  BY <1>1, LenProperties
<1> HIDE DEF t
<1>9. \A i \in 1..Len(t) : \/ i \in 1..Len(q) /\ t[i] = q[i]
                           \/ /\ ~(i \in 1..Len(q)) /\ i - Len(q) \in 1..m
                              /\ t[i] = new[i - Len(q)]
  BY <1>3, <1>7, <1>8
<1>10. \A i \in 1..m : new[i] \in T
  BY <1>4
<1>11. \A i \in 1..Len(t) : t[i] \in S \cup T
  BY <1>2, <1>9, <1>10
<1>12. \A x \in S \cup T : \E i \in 1..Len(t) : t[i] = x
  <2>1. ASSUME NEW i \in 1..Len(q) PROVE i \in 1..Len(t) /\ t[i] = q[i]
    BY <1>3, <1>7, <1>8
  <2>2. ASSUME NEW i \in 1..m
        PROVE  Len(q) + i \in 1..Len(t) /\ t[Len(q) + i] = new[i]
    <3>1. /\ Len(q) + i \in 1..(Len(q) + m) /\ ~(Len(q) + i <= Len(q))
          /\ Len(q) + i - Len(q) = i
      BY <1>3, <1>8
    <3> QED
      BY <1>7, <3>1
  <2> QED
    BY <1>2, <1>5, <2>1, <2>2
<1>13. ASSUME NEW i \in 1..Len(t), NEW j \in 1..Len(t), t[i] = t[j]
       PROVE  i = j
  <2>1. CASE i \in 1..Len(q) /\ j \in 1..Len(q)
    BY <1>2, <1>9, <1>13, <2>1
  <2>2. CASE ~(i \in 1..Len(q)) /\ ~(j \in 1..Len(q))
    <3>1. i - Len(q) = j - Len(q)
      BY <1>4, <1>9, <1>13, <2>2
    <3> QED
      BY <1>7, <1>8, <3>1
  <2>3. CASE ~(i \in 1..Len(q) <=> j \in 1..Len(q))
    BY <1>2, <1>9, <1>10, <1>13, <2>3
  <2> QED
    BY <2>1, <2>2, <2>3
<1>14. Lists(t, U, S \cup T)
  BY <1>7, <1>11, <1>12, <1>13, ListsByIndex
<1> QED
  BY <1>14 DEF t

\* Collection's types and QueueInv, by what the steps change: the schedules ...
DueChecks == {c \in saved \cap Check : wait[c] = 0}
DueProfiles == {p \in saved \cap Profile : wait[p] = 0}
Schedules ==
    /\ wait \in [Check \cup Profile -> 0..Interval]
    /\ saved \subseteq Check \cup Profile
    /\ \A s \in (Check \cup Profile) \ saved : wait[s] = 0
    /\ Lists(checkDue, Check, DueChecks) /\ Lists(pollDue, Profile, DueProfiles)

\* ... the round of the checks ...
Round ==
    /\ RoundInv
    /\ Len(round.work) + Len(round.results) <= CheckLimit

\* ... the polls, and the rest.
Polls ==
    /\ polls \in Seq(Profile) /\ Len(polls) <= PollLimit
    /\ \/ poll = NoPoll
       \/ poll.of \in Profile /\ {poll.ok, poll.answers} \subseteq BOOLEAN
Others ==
    /\ full \in BOOLEAN /\ faults \in 0..MaxFaults
    /\ unseen \subseteq Check

LEMMA CollectionParts ==
    (CollectionTypeOK /\ QueueInv /\ RoundInv)
       <=> (Schedules /\ Round /\ Polls /\ Others)
<1>1. Source = Check \cup Profile
  BY DEF Source
<1>2. (/\ RoundInv /\ pollDue \in Seq(Profile)
       /\ ToSet(checkDue) = DueChecks /\ IsInjective(checkDue)
       /\ ToSet(pollDue) = DueProfiles /\ IsInjective(pollDue))
      <=> (/\ RoundInv /\ Lists(checkDue, Check, DueChecks)
           /\ Lists(pollDue, Profile, DueProfiles))
  BY Zenon DEF Lists, RoundInv
<1>3. RoundInv => round.pc \in {"idle", "store", "ingest"}
  BY DEF RoundInv
<1> QED
  BY <1>1, <1>2, <1>3 DEF CollectionTypeOK, QueueInv, Schedules,
     Round, Polls, Others, DueChecks, DueProfiles

LEMMA SchedulesKept ==
    ASSUME Schedules, UNCHANGED <<wait, saved, checkDue, pollDue>>
    PROVE  Schedules'
BY DEF Schedules, DueChecks, DueProfiles

\* A source is run and scheduled again, or is deleted.
LEMMA RescheduledCheck ==
    ASSUME Schedules,
           NEW c \in Check, c \in saved,
           wait' = [wait EXCEPT ![c] = Interval],
           checkDue' = RemoveFirst(checkDue, c),
           UNCHANGED <<saved, pollDue>>
    PROVE  Schedules'
<1>1. Interval \in Nat \ {0} /\ Check \cap Profile = {}
  BY CollectionAssumption
<1>2. wait' \in [Check \cup Profile -> 0..Interval]
  BY <1>1 DEF Schedules
<1>3. \A s \in Check \cup Profile : wait'[s] = IF s = c THEN Interval ELSE wait[s]
  BY DEF Schedules
<1>4. DueChecks' = DueChecks \ {c}
  BY <1>1, <1>3 DEF DueChecks
<1>5. DueProfiles' = DueProfiles
  BY <1>1, <1>3 DEF DueProfiles
<1>6. Lists(checkDue', Check, DueChecks')
  BY <1>4, ListsRemove DEF Schedules
<1>7. Lists(pollDue', Profile, DueProfiles')
  BY <1>5 DEF Schedules
<1>8. \A s \in (Check \cup Profile) \ saved : wait'[s] = 0
  BY <1>3 DEF Schedules
<1> QED
  BY <1>2, <1>6, <1>7, <1>8 DEF Schedules, Lists

LEMMA RescheduledProfile ==
    ASSUME Schedules,
           NEW p \in Profile, p \in saved,
           wait' = [wait EXCEPT ![p] = Interval],
           pollDue' = RemoveFirst(pollDue, p),
           UNCHANGED <<saved, checkDue>>
    PROVE  Schedules'
<1>1. Interval \in Nat \ {0} /\ Check \cap Profile = {}
  BY CollectionAssumption
<1>2. wait' \in [Check \cup Profile -> 0..Interval]
  BY <1>1 DEF Schedules
<1>3. \A s \in Check \cup Profile : wait'[s] = IF s = p THEN Interval ELSE wait[s]
  BY DEF Schedules
<1>4. DueProfiles' = DueProfiles \ {p}
  BY <1>1, <1>3 DEF DueProfiles
<1>5. DueChecks' = DueChecks
  BY <1>1, <1>3 DEF DueChecks
<1>6. Lists(pollDue', Profile, DueProfiles')
  BY <1>4, ListsRemove DEF Schedules
<1>7. Lists(checkDue', Check, DueChecks')
  BY <1>5 DEF Schedules
<1>8. \A s \in (Check \cup Profile) \ saved : wait'[s] = 0
  BY <1>3 DEF Schedules
<1> QED
  BY <1>2, <1>6, <1>7, <1>8 DEF Schedules, Lists

LEMMA DeletedProfile ==
    ASSUME Schedules, NEW p \in Profile,
           DeleteProfile(p)
    PROVE  Schedules'
<1>1. Interval \in Nat /\ Check \cap Profile = {}
  BY CollectionAssumption
<1>2. /\ saved' = saved \ {p} /\ wait' = [wait EXCEPT ![p] = 0]
      /\ pollDue' = RemoveFirst(pollDue, p) /\ checkDue' = checkDue
  BY DEF DeleteProfile
<1>3. /\ wait' \in [Check \cup Profile -> 0..Interval]
      /\ saved' \subseteq Check \cup Profile
  BY <1>1, <1>2 DEF Schedules
<1>4. \A s \in Check \cup Profile : wait'[s] = IF s = p THEN 0 ELSE wait[s]
  BY <1>2 DEF Schedules
<1>5. DueProfiles' = DueProfiles \ {p}
  BY <1>1, <1>2, <1>4 DEF DueProfiles
<1>6. DueChecks' = DueChecks
  BY <1>1, <1>2, <1>4 DEF DueChecks
<1>7. Lists(pollDue', Profile, DueProfiles')
  BY <1>2, <1>5, ListsRemove DEF Schedules
<1>8. Lists(checkDue', Check, DueChecks')
  BY <1>2, <1>6 DEF Schedules
<1>9. \A s \in (Check \cup Profile) \ saved' : wait'[s] = 0
  BY <1>2, <1>4 DEF Schedules
<1> QED
  BY <1>3, <1>7, <1>8, <1>9 DEF Schedules, Lists

LEMMA DeletedCheck ==
    ASSUME Schedules, NEW c \in Check,
           DeleteCheck(c)
    PROVE  Schedules'
<1>1. Interval \in Nat /\ Check \cap Profile = {}
  BY CollectionAssumption
<1>2. /\ saved' = saved \ {c} /\ wait' = [wait EXCEPT ![c] = 0]
      /\ checkDue' = RemoveFirst(checkDue, c) /\ pollDue' = pollDue
  BY DEF DeleteCheck
<1>3. /\ wait' \in [Check \cup Profile -> 0..Interval]
      /\ saved' \subseteq Check \cup Profile
  BY <1>1, <1>2 DEF Schedules
<1>4. \A s \in Check \cup Profile : wait'[s] = IF s = c THEN 0 ELSE wait[s]
  BY <1>2 DEF Schedules
<1>5. DueChecks' = DueChecks \ {c}
  BY <1>1, <1>2, <1>4 DEF DueChecks
<1>6. DueProfiles' = DueProfiles
  BY <1>1, <1>2, <1>4 DEF DueProfiles
<1>7. Lists(checkDue', Check, DueChecks')
  BY <1>2, <1>5, ListsRemove DEF Schedules
<1>8. Lists(pollDue', Profile, DueProfiles')
  BY <1>2, <1>6 DEF Schedules
<1>9. \A s \in (Check \cup Profile) \ saved' : wait'[s] = 0
  BY <1>2, <1>4 DEF Schedules
<1> QED
  BY <1>3, <1>7, <1>8, <1>9 DEF Schedules, Lists

LEMMA SavedCheck ==
    ASSUME Schedules, NEW c \in Check,
           SaveCheck(c)
    PROVE  Schedules'
<1>1. Check \cap Profile = {}
  BY CollectionAssumption
<1>2. /\ c \notin saved /\ saved' = saved \cup {c}
      /\ checkDue' = Append(checkDue, c) /\ UNCHANGED <<wait, pollDue>>
  BY DEF SaveCheck
<1>3. DueChecks' = DueChecks \cup {c} /\ c \notin DueChecks
  BY <1>2 DEF DueChecks, Schedules
<1>4. DueProfiles' = DueProfiles
  BY <1>1, <1>2 DEF DueProfiles
<1>5. Lists(checkDue', Check, DueChecks')
  BY <1>2, <1>3, ListsAppend DEF Schedules
<1>6. Lists(pollDue', Profile, DueProfiles')
  BY <1>2, <1>4 DEF Schedules
<1> QED
  BY <1>2, <1>5, <1>6 DEF Schedules, Lists

LEMMA SavedProfile ==
    ASSUME Schedules, NEW p \in Profile,
           SaveProfile(p)
    PROVE  Schedules'
<1>1. Check \cap Profile = {}
  BY CollectionAssumption
<1>2. /\ p \notin saved /\ saved' = saved \cup {p}
      /\ pollDue' = Append(pollDue, p) /\ UNCHANGED <<wait, checkDue>>
  BY DEF SaveProfile
<1>3. DueProfiles' = DueProfiles \cup {p} /\ p \notin DueProfiles
  BY <1>2 DEF DueProfiles, Schedules
<1>4. DueChecks' = DueChecks
  BY <1>1, <1>2 DEF DueChecks
<1>5. Lists(pollDue', Profile, DueProfiles')
  BY <1>2, <1>3, ListsAppend DEF Schedules
<1>6. Lists(checkDue', Check, DueChecks')
  BY <1>2, <1>4 DEF Schedules
<1> QED
  BY <1>2, <1>5, <1>6 DEF Schedules, Lists

LEMMA Ticked ==
    ASSUME Schedules, TimePasses
    PROVE  Schedules'
<1> DEFINE C == {c \in Check : wait[c] = 1}
           P == {p \in Profile : wait[p] = 1}
<1>1. Interval \in Nat
  BY CollectionAssumption
<1>2. /\ wait' = [s \in Check \cup Profile |-> IF wait[s] > 0 THEN wait[s] - 1 ELSE 0]
      /\ saved' = saved
  BY DEF TimePasses, Source
<1>3. /\ wait' \in [Check \cup Profile -> 0..Interval]
      /\ \A s \in Check \cup Profile :
            /\ wait'[s] = 0 <=> wait[s] = 0 \/ wait[s] = 1
            /\ wait[s] = 1 => s \in saved
  BY <1>1, <1>2 DEF Schedules
<1>4. /\ DueChecks' = DueChecks \cup C /\ DueChecks \cap C = {}
      /\ DueProfiles' = DueProfiles \cup P /\ DueProfiles \cap P = {}
  <2>1. DueChecks' = DueChecks \cup C
    BY <1>2, <1>3 DEF DueChecks
  <2>2. DueProfiles' = DueProfiles \cup P
    BY <1>2, <1>3 DEF DueProfiles
  <2>3. DueChecks \cap C = {} /\ DueProfiles \cap P = {}
    BY DEF DueChecks, DueProfiles
  <2> QED
    BY <2>1, <2>2, <2>3
<1>5. IsFiniteSet(C) /\ IsFiniteSet(P)
  BY DueFinite
<1>6. PICK new \in SetToSeqs(C) : checkDue' = checkDue \o new
  BY Zenon DEF TimePasses
<1>7. PICK more \in SetToSeqs(P) : pollDue' = pollDue \o more
  BY Zenon DEF TimePasses
<1>8. C \in SUBSET Check /\ P \in SUBSET Profile
  OBVIOUS
<1> HIDE DEF C, P
<1>9. Lists(checkDue', Check, DueChecks')
  BY <1>4, <1>5, <1>6, <1>8, ListsQueued DEF Schedules
<1>10. Lists(pollDue', Profile, DueProfiles')
  BY <1>4, <1>5, <1>7, <1>8, ListsQueued DEF Schedules
<1>11. \A s \in (Check \cup Profile) \ saved' : wait'[s] = 0
  BY <1>2, <1>3 DEF Schedules
<1> QED
  BY <1>2, <1>3, <1>9, <1>10, <1>11 DEF Schedules, Lists

\* What a round takes from its queue.
LEMMA FirstOf ==
    ASSUME NEW S, NEW q \in Seq(S), q # <<>>, NEW n \in Nat \ {0}
    PROVE  /\ Len(First(n, q)) <= n
           /\ ToSet(First(n, q)) \subseteq ToSet(q)
<1> DEFINE m == IF n < Len(q) THEN n ELSE Len(q)
           t == First(n, q)
<1>1. Len(q) \in Nat /\ DOMAIN q = 1..Len(q)
  BY LenProperties
<1>2. m \in 1..Len(q) /\ m <= n
  BY <1>1, EmptySeq
<1>3. t = SubSeq(q, 1, m)
  BY DEF First
<1>4. \A i \in 1..m : q[i] \in S
  BY <1>1, <1>2, ElementOfSeq
<1> HIDE DEF m, t
<1>5. /\ t \in Seq(S) /\ Len(t) = IF 1 <= m THEN m - 1 + 1 ELSE 0
      /\ \A i \in 1..(m - 1 + 1) : t[i] = q[1 + i - 1]
  BY <1>1, <1>2, <1>3, <1>4, SubSeqProperties
<1>6. /\ DOMAIN t = 1..m /\ Len(t) = m
      /\ \A i \in 1..m : i \in 1..Len(q) /\ t[i] = q[i]
  BY <1>1, <1>2, <1>5, LenProperties
<1>7. ToSet(t) \subseteq ToSet(q)
  BY <1>1, <1>6 DEF ToSet
<1> QED
  BY <1>2, <1>6, <1>7 DEF t

LEMMA WorkIsChecks ==
    ASSUME RoundInv
    PROVE  ToSet(round.work) \subseteq Check
<1>1. round.work \in Seq(Check)
  BY DEF RoundInv
<1>2. \A i \in DOMAIN round.work : round.work[i] \in Check
  BY <1>1, LenProperties, ElementOfSeq
<1> QED
  BY <1>2 DEF ToSet

LEMMA IdleRoundIsRound ==
    ASSUME RoundInv',
           round' = IdleRound
    PROVE  Round'
<1>1. round'.work = <<>> /\ round'.results = <<>>
  BY RoundStart
<1>2. Len(round'.work) + Len(round'.results) <= CheckLimit
  <2>1. Len(<<>>) = 0 /\ CheckLimit \in Nat
    BY EmptySeq, CollectionAssumption
  <2> QED
    BY <1>1, <2>1
<1> QED
  BY <1>1, <1>2, RoundStart DEF Round, ToSet

LEMMA RoundLengths ==
    ASSUME NEW w \in Nat, NEW n \in Nat, NEW limit \in Nat, w + n <= limit
    PROVE  /\ \A x, y : x = w - 1 /\ y = n + 1 => x + y <= limit
           /\ \A x, y : x = w /\ y = n - 1 => x + y <= limit
OBVIOUS

LEMMA RoundNext ==
    ASSUME Schedules, Round,
           [CollectionNext]_collectionVars
    PROVE  Round'
<1>1. RoundInv' /\ RoundInv
  BY RoundStep DEF Round
<1>2. /\ round.work \in Seq(Check) /\ round.results \in Seq(Check)
      /\ checkDue \in Seq(Check)
      /\ Len(round.work) \in Nat /\ Len(round.results) \in Nat
      /\ CheckLimit \in Nat \ {0}
  BY <1>1, LenProperties, CollectionAssumption DEF RoundInv
<1>3. /\ Len(round.work) \in Nat /\ Len(round.results) \in Nat
      /\ CheckLimit \in Nat
  BY <1>2
<1>4. CASE UNCHANGED round
  BY <1>1, <1>4 DEF Round
<1>5. CASE UNCHANGED collectionVars
  BY <1>4, <1>5 DEF collectionVars
<1>6. CASE TimePasses \/ Fill \/ Reclaim
  BY <1>4, <1>6 DEF TimePasses, Fill, Reclaim
<1>7. ASSUME NEW c \in Check, DeleteCheck(c) \/ SaveCheck(c) PROVE Round'
  BY <1>4, <1>7 DEF DeleteCheck, SaveCheck
<1>8. ASSUME NEW p \in Profile, DeleteProfile(p) \/ SaveProfile(p)
      PROVE  Round'
  BY <1>4, <1>8 DEF DeleteProfile, SaveProfile
<1>9. CASE PollStep \/ EmitFails
  BY <1>4, <1>9 DEF PollStep, RunDueSNMP,
     PollDevice, EmitPoll, PollRefused,
     EmitFails
<1>10. CASE StoreFails \/ StoreRefused \/ ProcessStops \/ ConnectPanics
  BY <1>1, <1>10, IdleRoundIsRound DEF StoreFails, StoreRefused, RoundFails,
     ProcessStops, ConnectPanics, LoopsEnd
<1>11. CASE RunDue
  <2>1. /\ checkDue # <<>>
        /\ round'.work = First(CheckLimit, checkDue)
        /\ round'.results = <<>>
    BY <1>11 DEF RunDue, IdleRound
  <2>2. Len(round'.work) <= CheckLimit
    BY <1>2, <2>1, FirstOf
  <2>3. Len(round'.work) \in Nat /\ Len(round'.results) = 0
    BY <1>1, <2>1, LenProperties, EmptySeq DEF RoundInv
  <2>4. Len(round'.work) + Len(round'.results) <= CheckLimit
    BY <1>2, <2>2, <2>3
  <2> QED
    BY <1>1, <2>4 DEF Round
<1>12. CASE StoreResult
  <2>1. /\ round.work # <<>>
        /\ round'.work = Tail(round.work)
        /\ round'.results = Append(round.results, Head(round.work))
    BY <1>1, <1>12 DEF StoreResult, RoundInv
  <2>2. Head(round.work) \in Check /\ Len(Tail(round.work)) = Len(round.work) - 1
    BY <1>2, <2>1, HeadTailProperties
  <2>4. Len(round'.results) = Len(round.results) + 1
    BY <1>2, <2>1, <2>2, AppendProperties
  <2>5. Len(round'.work) + Len(round'.results) <= CheckLimit
    <3>1. Len(round'.work) = Len(round.work) - 1
      BY <2>1, <2>2, Zenon
    <3>2. Len(round.work) + Len(round.results) <= CheckLimit
      BY DEF Round
    <3> QED
      BY <1>3, <2>4, <3>1, <3>2, RoundLengths, Zenon
  <2> QED
    BY <1>1, <2>5 DEF Round
<1>13. CASE AllStored
  <2>1. round'.work = round.work /\ round'.results = round.results
    BY <1>1, <1>13 DEF AllStored, RoundInv
  <2> QED
    BY <1>1, <2>1 DEF Round
<1>14. CASE IngestResult \/ IngestFails
  <2>1. NextResult /\ round.results # <<>>
    BY <1>1, <1>14 DEF IngestResult, IngestFails,
                       RoundInv
  <2>2. CASE round' = IdleRound
    BY <1>1, <2>2, IdleRoundIsRound
  <2>3. CASE round' = [round EXCEPT !.results = Tail(@)]
    <3>1. round'.work = round.work /\ round'.results = Tail(round.results)
      BY <1>1, <2>3 DEF RoundInv
    <3>2. Len(round'.results) = Len(round.results) - 1
      BY <1>2, <2>1, <3>1, HeadTailProperties
    <3>3. Len(round'.work) + Len(round'.results) <= CheckLimit
      <4>1. Len(round'.work) = Len(round.work)
        BY <3>1
      <4>2. Len(round.work) + Len(round.results) <= CheckLimit
        BY DEF Round
      <4> QED
        BY <1>3, <3>2, <4>1, <4>2, RoundLengths, Zenon
    <3> QED
      BY <1>1, <3>3 DEF Round
  <2> QED
    BY <2>1, <2>2, <2>3 DEF NextResult
<1> QED
  BY <1>5, <1>6, <1>7, <1>8, <1>9, <1>10, <1>11, <1>12, <1>13, <1>14
     DEF CollectionNext, CheckStep

\* A poll reschedules the profile it is about, unless that was deleted.
LEMMA Advanced ==
    ASSUME Schedules, NEW p \in Profile,
           Advance(p), UNCHANGED <<saved, checkDue>>
    PROVE  Schedules'
<1>1. CASE p \in saved
  BY <1>1, RescheduledProfile DEF Advance
<1>2. CASE p \notin saved
  BY <1>2, SchedulesKept DEF Advance
<1> QED
  BY <1>1, <1>2

LEMMA SchedulesNext ==
    ASSUME Schedules, Round, Polls,
           [CollectionNext]_collectionVars
    PROVE  Schedules'
<1>1. CASE UNCHANGED <<wait, saved, checkDue, pollDue>>
  BY <1>1, SchedulesKept
<1>2. CASE UNCHANGED collectionVars
  BY <1>1, <1>2 DEF collectionVars
<1>3. CASE Fill \/ Reclaim \/ ProcessStops \/ ConnectPanics
           \/ StoreFails \/ StoreRefused \/ EmitFails
  BY <1>1, <1>3 DEF Fill, Reclaim, ProcessStops, ConnectPanics, LoopsEnd,
     StoreFails, StoreRefused, RoundFails, EmitFails
<1>4. CASE RunDue \/ AllStored \/ IngestResult \/ IngestFails
           \/ RunDueSNMP
  BY <1>1, <1>4 DEF RunDue, AllStored,
     IngestResult, IngestFails, RunDueSNMP
<1>5. CASE StoreResult
  <2> DEFINE c == Head(round.work)
  <2>1. round.work \in Seq(Check) /\ round.work # <<>>
    BY <1>5 DEF StoreResult, Round, RoundInv
  <2>2. c \in Check
    BY <2>1, HeadTailProperties
  <2>3. /\ wait' = [wait EXCEPT ![c] = Interval]
        /\ checkDue' = RemoveFirst(checkDue, c)
        /\ UNCHANGED <<saved, pollDue>> /\ c \in saved
    BY <1>5 DEF StoreResult
  <2> QED
    BY <2>2, <2>3, RescheduledCheck
<1>6. ASSUME polls # <<>> PROVE Head(polls) \in Profile
  BY <1>6, HeadTailProperties DEF Polls
<1>7. CASE PollDevice
  BY <1>1, <1>6, <1>7, Advanced DEF PollDevice
<1>8. CASE PollRefused
  BY <1>6, <1>8, Advanced DEF PollRefused
<1>9. CASE EmitPoll
  <2>1. poll.of \in Profile
    BY <1>9 DEF EmitPoll, Polls
  <2> QED
    BY <1>1, <1>9, <2>1, Advanced DEF EmitPoll
<1>10. CASE TimePasses
  BY <1>10, Ticked
<1>11. CASE \/ \E c \in Check : DeleteCheck(c) \/ SaveCheck(c)
            \/ \E p \in Profile : DeleteProfile(p) \/ SaveProfile(p)
  BY <1>11, DeletedCheck, SavedCheck, DeletedProfile, SavedProfile
<1> QED
  BY <1>2, <1>3, <1>4, <1>5, <1>7, <1>8, <1>9, <1>10, <1>11
     DEF CollectionNext, CheckStep, PollStep

LEMMA PollsNext ==
    ASSUME Schedules, Polls,
           [CollectionNext]_collectionVars
    PROVE  Polls'
<1>1. PollLimit \in Nat \ {0}
  BY CollectionAssumption
<1>2. ASSUME polls' = <<>> PROVE polls' \in Seq(Profile) /\ Len(polls') <= PollLimit
  BY <1>1, <1>2, EmptySeq
<1>3. ASSUME polls # <<>>, polls' = Tail(polls)
      PROVE  polls' \in Seq(Profile) /\ Len(polls') <= PollLimit /\ Head(polls) \in Profile
  <2>1. /\ Tail(polls) \in Seq(Profile) /\ Len(Tail(polls)) = Len(polls) - 1
        /\ Head(polls) \in Profile /\ Len(polls) \in Nat
    BY <1>3, HeadTailProperties, LenProperties DEF Polls
  <2>2. Len(polls) <= PollLimit
    BY DEF Polls
  <2> QED
    BY <1>1, <1>3, <2>1, <2>2
<1>4. CASE UNCHANGED <<polls, poll>>
  BY <1>4 DEF Polls
<1>5. CASE ProcessStops \/ ConnectPanics
  BY <1>2, <1>5 DEF ProcessStops, ConnectPanics, LoopsEnd, Polls
<1>6. CASE RunDueSNMP
  <2>1. /\ pollDue \in Seq(Profile) /\ pollDue # <<>>
        /\ polls' = First(PollLimit, pollDue) /\ poll' = poll
    BY <1>6 DEF RunDueSNMP, Schedules, Lists
  <2>2. polls' \in Seq(Profile) /\ Len(polls') <= PollLimit
    BY <1>1, <2>1, FirstSeq, FirstOf
  <2> QED
    BY <2>1, <2>2 DEF Polls
<1>7. CASE PollDevice
  <2>1. polls # <<>> /\ polls' = Tail(polls)
    BY <1>7 DEF PollDevice
  <2>2. PICK answers \in BOOLEAN :
           poll' = [pc |-> "emit", of |-> Head(polls), answers |-> answers,
                    ok |-> PollOK(Head(polls), answers)]
    BY <1>7, Zenon DEF PollDevice
  <2>3. PollOK(Head(polls), answers) \in BOOLEAN
    BY DEF PollOK
  <2>4. /\ poll'.of = Head(polls) /\ poll'.answers = answers
        /\ poll'.ok = PollOK(Head(polls), answers)
    BY <2>2
  <2>5. {poll'.ok, poll'.answers} \subseteq BOOLEAN
    BY <2>3, <2>4
  <2>6. /\ polls' \in Seq(Profile) /\ Len(polls') <= PollLimit
        /\ poll'.of \in Profile
    BY <1>3, <2>1, <2>4
  <2> QED
    BY <2>5, <2>6 DEF Polls
<1>8. CASE PollRefused
  BY <1>3, <1>8 DEF PollRefused, Polls
<1>9. CASE EmitPoll \/ EmitFails
  BY <1>9 DEF EmitPoll, EmitFails, Polls
<1>10. CASE UNCHANGED collectionVars \/ CheckStep \/ StoreFails
  BY <1>4, <1>10 DEF collectionVars, CheckStep, RunDue,
     StoreResult, StoreRefused, AllStored, IngestResult,
     StoreFails, RoundFails, IngestFails
<1>11. CASE \/ TimePasses \/ Fill \/ Reclaim
            \/ \E c \in Check : DeleteCheck(c) \/ SaveCheck(c)
            \/ \E p \in Profile : DeleteProfile(p) \/ SaveProfile(p)
  BY <1>4, <1>11 DEF TimePasses, Fill, Reclaim,
     DeleteCheck, SaveCheck, DeleteProfile, SaveProfile
<1> QED
  BY <1>5, <1>6, <1>7, <1>8, <1>9, <1>10, <1>11
     DEF CollectionNext, PollStep

LEMMA OthersNext ==
    ASSUME Round, Others,
           [CollectionNext]_collectionVars
    PROVE  Others'
<1>1. /\ full \in BOOLEAN /\ faults \in 0..MaxFaults /\ MaxFaults \in Nat
      /\ unseen \subseteq Check
  BY CollectionAssumption DEF Others
<1>2. Fault => faults' \in 0..MaxFaults
  BY <1>1 DEF Fault
<1>3. /\ round.work # <<>> => Head(round.work) \in Check
      /\ round.results # <<>> => Head(round.results) \in Check
      /\ ToSet(round.results) \subseteq Check
  <2>1. round.work \in Seq(Check) /\ round.results \in Seq(Check)
    BY DEF Round, RoundInv
  <2>2. \A i \in DOMAIN round.results : round.results[i] \in Check
    BY <2>1, LenProperties, ElementOfSeq
  <2> QED
    BY <2>1, <2>2, HeadTailProperties DEF ToSet
<1>4. round.pc = "ingest" => round.results # <<>>
  BY DEF Round, RoundInv
<1>5. CASE UNCHANGED <<full, faults, unseen>>
  BY <1>5 DEF Others
<1>6. CASE Fill \/ Reclaim \/ ProcessStops \/ ConnectPanics
  BY <1>1, <1>2, <1>6 DEF Fill, Reclaim,
     ProcessStops, ConnectPanics, LoopsEnd, Others
<1>7. CASE StoreResult \/ StoreFails \/ StoreRefused
  BY <1>1, <1>2, <1>3, <1>7 DEF StoreResult, StoreFails, StoreRefused,
     RoundFails, Others
<1>8. CASE IngestResult \/ IngestFails
  BY <1>1, <1>3, <1>4, <1>8 DEF IngestResult,
     IngestFails, Others
<1>9. CASE \/ EmitFails \/ \E c \in Check : DeleteCheck(c)
           \/ \E p \in Profile : DeleteProfile(p)
  BY <1>1, <1>2, <1>9 DEF EmitFails,
     DeleteCheck, DeleteProfile, Others
<1>10. CASE UNCHANGED collectionVars \/ RunDue \/ AllStored
            \/ PollStep
  BY <1>5, <1>10 DEF collectionVars, RunDue, AllStored,
     PollStep, RunDueSNMP, PollDevice, PollRefused,
     EmitPoll
<1>11. CASE \/ TimePasses \/ \E c \in Check : SaveCheck(c)
            \/ \E p \in Profile : SaveProfile(p)
  BY <1>5, <1>11 DEF TimePasses, SaveCheck, SaveProfile
<1> QED
  BY <1>6, <1>7, <1>8, <1>9, <1>10, <1>11 DEF CollectionNext, CheckStep

LEMMA CollectionStart ==
    ASSUME CollectionInit
    PROVE  Schedules /\ Round /\ Polls /\ Others
<1>1. /\ wait = [s \in Check \cup Profile |-> 0] /\ checkDue = <<>> /\ pollDue = <<>>
      /\ saved = {} /\ round = IdleRound /\ polls = <<>>
      /\ poll = NoPoll /\ full = FALSE /\ faults = 0
      /\ unseen = {}
  BY DEF CollectionInit, Source
<1>2. /\ Interval \in Nat /\ CheckLimit \in Nat /\ PollLimit \in Nat
      /\ MaxFaults \in Nat
  BY CollectionAssumption
<1>3. \A U : <<>> \in Seq(U) /\ Len(<<>>) = 0
  BY EmptySeq
<1>4. \A U : Lists(<<>>, U, {})
  BY <1>3 DEF Lists, ToSet, IsInjective
<1>5. DueChecks = {} /\ DueProfiles = {}
  BY <1>1 DEF DueChecks, DueProfiles
<1>6. Schedules
  BY <1>1, <1>2, <1>4, <1>5 DEF Schedules
<1>7. round.work = <<>> /\ round.results = <<>>
  BY <1>1, RoundStart
<1>8. Round
  BY <1>2, <1>3, <1>7, RoundInit, RoundStart DEF Round
<1>9. Polls
  <2>1. polls \in Seq(Profile) /\ Len(polls) = 0
    BY <1>1, <1>3
  <2>2. Len(polls) <= PollLimit
    BY <1>2, <2>1
  <2> QED
    BY <1>1, <2>1, <2>2 DEF Polls
<1>10. Others
  <2>1. full \in BOOLEAN
    BY <1>1, Zenon
  <2>2. faults \in 0..MaxFaults
    BY <1>1, <1>2
  <2>3. unseen \subseteq Check
    BY <1>1
  <2> QED
    BY <2>1, <2>2, <2>3 DEF Others
<1> QED
  BY <1>6, <1>8, <1>9, <1>10

\* The queues of the two loops hold exactly the saved sources whose time has
\* come, each of them once, and a round never holds more than its limit
\* (RunDue, Due, Advance), with any number of sources, in any order of faults.
THEOREM QueuesAreDue == CollectionSpec => []CollectionTypeOK
<1> DEFINE Inv == CollectionTypeOK /\ QueueInv /\ RoundInv
<1>1. CollectionInit => Inv
  BY CollectionStart, CollectionParts
<1>2. Inv /\ [CollectionNext]_collectionVars => Inv'
  <2> SUFFICES ASSUME Inv, [CollectionNext]_collectionVars PROVE Inv'
    OBVIOUS
  <2>1. Schedules /\ Round /\ Polls /\ Others
    BY CollectionParts
  <2>2. Schedules' /\ Round' /\ Polls' /\ Others'
    BY <2>1, SchedulesNext, RoundNext, PollsNext, OthersNext
  <2> QED
    BY <2>2, CollectionParts, PTL
<1> QED
  BY <1>1, <1>2, PTL DEF CollectionSpec

============================================================================
