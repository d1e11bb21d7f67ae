------------------------------ MODULE MCAlerts ------------------------------
(* Small instances of the alert pipeline. *)
EXTENDS Alerts

\* A rule that fires at once, one that waits and has a recovery threshold,
\* and one that takes missing data for a breach.
AtOnce   == [duration |-> 0, recovery |-> FALSE, missing |-> "unknown"]
Delayed  == [duration |-> 1, recovery |-> TRUE,  missing |-> "healthy"]
Watchdog == [duration |-> 1, recovery |-> FALSE, missing |-> "firing"]

EveryRule == {AtOnce, Delayed, Watchdog}

Good(l) == [level |-> l, good |-> TRUE]
Bad(l)  == [level |-> l, good |-> FALSE]

\* To each of these rules a value of bad quality is like no value or like a
\* good one in the band.
EveryObservation == {Good("high"), Good("band"), Good("low"), Bad("none")}
=============================================================================
