SPECIFICATION FairSpec
CONSTANTS
    AddrTypes <- AllAddresses
    NetFaults <- AllNetFaults
    CommandLines <- DaemonLines
    ConfFiles <- Files
    INT_MAX = 7
    ShellLines <- Proxied
    BareTypes <- BareBios
    K = 2
    RECENT_COMPILE_DATE = 2
    MAX_REASONABLE_TIME = 8
    TLS_RTT_UNREASONABLE = 4
    Epoch = 10
    MaxTicks = 0
    BootClocks <- Clocks
    ClockJumps <- NoJumps
    FalseTimes <- NoLiars
    CENTURY = 9
    HttpHeads <- Heads
    MAX_HTTP_HEADERS_SIZE = 5
    Certs <- GoodPeer
CHECK_DEADLOCK FALSE
INVARIANTS
    
    TunnelAligned
    AnswerThenSuccess
    SteadyTimerPositive
    SourceIdsArePlaces
    LastEntryDecides
PROPERTIES
    CloseEnds
