SPECIFICATION FairSpec
CONSTANTS
    Handler = {h1, h2}
    Pass = {p1}
    Route = {r1}
    NoRow = NoRow
    Rules <- EveryRule
    Observations <- EveryObservation
    Limit = 1
    AlertWindow = 1
    DeliveryWindow = 1
    MaxAlert = 2
    MaxDelivery = 2
    MaxTime = 2
    MaxLate = 1
    MaxBusy = 0
    MaxIncident = 1
    MaxCrash = 1
INVARIANTS DeliveriesHaveAlerts ResolvedBetweenFirings
PROPERTIES NotifiedOnce FiringReachesRoutes
