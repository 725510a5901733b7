CONSTANTS
    a = a
    b = b
    Agents = {a, b}
    Options = {1}
    Sector <- FirstSector
    MaxRestarts = 0
    None = None
SPECIFICATION FairSpec
PROPERTY WaitingCallEnds
CHECK_DEADLOCK FALSE
