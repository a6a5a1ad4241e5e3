SPECIFICATION FairSpec
CONSTANTS
    AddrTypes <- DomainOnly
    NetFaults <- NoFaults
    CommandLines <- NoLines
    ConfFiles <- NoFiles
    INT_MAX = 7
    ShellLines <- Direct
    BareTypes <- NoTypes
    K = 2
    RECENT_COMPILE_DATE = 2
    MAX_REASONABLE_TIME = 8
    TLS_RTT_UNREASONABLE = 4
    Epoch = 10
    MaxTicks = 5
    BootClocks <- Clocks
    ClockJumps <- BackAndForth
    FalseTimes <- Liars
    CENTURY = 9
    HttpHeads <- Heads
    MAX_HTTP_HEADERS_SIZE = 5
    Certs <- Peers
CHECK_DEADLOCK FALSE
INVARIANTS
    TypeOK
    OnlyVerified
    ClockClose
    HttpDateWhole
