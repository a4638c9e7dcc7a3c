SPECIFICATION LiveCodesSpec
CONSTANTS
    Protocols = {1, 2}
    PingBuffer = 1
    c1 = c1
    Callers = {c1}
    Setups <- TwoSetups
    NoMessage = NoMessage
INVARIANTS
    TurnConserved
    ReportsNeverBlock
    CodesAgree
PROPERTIES
    RunReturns
    DisconnectReturns
    ReadLoopMoves
CHECK_DEADLOCK FALSE
