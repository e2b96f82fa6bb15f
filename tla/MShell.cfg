SPECIFICATION FairSpec
CONSTANTS
    p1 = p1
    p2 = p2
    f = f
    g = g
    m = m
    Pid <- Pids
    Shell = Shell
    Login = Login
    NoGroup = NoGroup
    Line <- Lines
    File <- Files
    Missing <- m
    MaxLines = 3
    MaxStale = 1
    MaxFds = 3
CHECK_DEADLOCK FALSE
INVARIANTS
    TypeOK
    OwnGroup
    ForegroundHasTerminal
    ZombieHasSignal
    OnlyProgramsStay
    StreamsAsTyped
PROPERTIES
    ForegroundIsOver
    TerminalReturns
    WaitReturns
