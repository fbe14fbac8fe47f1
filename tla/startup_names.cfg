SPECIFICATION Spec
CONSTANTS
    Reserved <- MCReserved
    Envs <- NamesEnvs
    Word = 200
    Calls <- MCCalls
    Events <- MCEvents
    NoEvent = NoEvent
    Seeds <- MCSeeds
    MaxLength = 5
INVARIANTS
    NoPanic VerdictFollowsOrigin BrandKept OneCallPerEvent HostBound
    SignedCallsAccepted
