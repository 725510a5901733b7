CONSTANTS
    a = a
    b = b
    Agents = {a}
    Options = {1}
    Sector <- FirstSector
    MaxRestarts = 1
    None = None
SPECIFICATION FairSpec
INVARIANTS
    TypeInv
    NoVoiceBeforeAccept
    AgentHasAnAcceptedCall
    HandlersTakeTurns
PROPERTIES
    OneAgentAnswers
    WaitingIsTakenOrEnds
    EndedIsForgotten
CHECK_DEADLOCK FALSE
