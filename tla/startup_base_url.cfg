SPECIFICATION Spec
CONSTANTS
    Reserved <- MCReserved
    Envs <- SlashEnvs
    Word = 200
    Calls <- MCCalls
    Events = {}
    NoEvent = NoEvent
    Seeds <- MCSeeds
    MaxLength = 3
INVARIANTS SignedCallsAccepted
