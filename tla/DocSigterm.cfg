SPECIFICATION Spec
CONSTANTS
    RECENT_COMPILE_DATE = 1
    TLSDATED_MAX_DATE = 9
    should_save_disk = TRUE
    dry_run = FALSE
    should_sync_hwclock = FALSE
    MayFail <- None
    PipeRoom = 4
    NotifyRoom = 1
    should_dbus = TRUE
    should_load_disk = TRUE
    max_tries = 1
    wait_between_tries = 1
    NumSources = 1
    MAX_SANE_BACKOFF = 1
    kDelta = 1
    BootTimes <- SaneBoot
    BootDisks <- None
    JumpTimes <- None
    Answers <- NetTime
    Requests <- None
    Faults <- OneSigterm
    Wakes <- None
    MaxExpired = 1
CHECK_DEADLOCK FALSE
PROPERTIES
    OnlyNetToDisk
