SPECIFICATION Spec
CONSTANTS
    RECENT_COMPILE_DATE = 1
    TLSDATED_MAX_DATE = 9
    should_save_disk = FALSE
    dry_run = TRUE
    should_sync_hwclock = FALSE
    MayFail <- SetterDies
    PipeRoom = 2
    NotifyRoom = 1
    should_dbus = FALSE
    should_load_disk = TRUE
    max_tries = 2
    wait_between_tries = 2
    NumSources = 1
    MAX_SANE_BACKOFF = 3
    kDelta = 1
    BootTimes <- SaneBoot
    BootDisks <- None
    JumpTimes <- None
    Answers <- SaneAndTooLate
    Requests <- None
    Faults <- ChildFaults
    Wakes <- RouteUp
    MaxExpired = 1
CHECK_DEADLOCK FALSE
INVARIANTS
    ChildKnown
    ChildGuarded
    DeathsNoticed
    BackoffBounded
