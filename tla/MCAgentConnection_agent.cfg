SPECIFICATION FairSpec
CONSTANTS
    RateLimit = 1
    MaxRequest = 2
    MaxCredential = 3
    MaxSample = 2
    MaxCall = 2
    None = None
INVARIANTS StoredIsPrefix NeverBricked AcknowledgedIsStored
PROPERTIES SamplesGetThrough
CHECK_DEADLOCK FALSE
