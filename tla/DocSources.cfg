SPECIFICATION Spec
CONSTANTS
    RECENT_COMPILE_DATE = 1
    TLSDATED_MAX_DATE = 9
    should_save_disk = TRUE
    dry_run = FALSE
    should_sync_hwclock = FALSE
    MayFail <- None
    PipeRoom = 2
    NotifyRoom = 1
    should_dbus = TRUE
    should_load_disk = TRUE
    max_tries = 2
    wait_between_tries = 1
    NumSources = 2
    MAX_SANE_BACKOFF = 1
    kDelta = 1
    BootTimes <- SaneBoot
    BootDisks <- None
    JumpTimes <- None
    Answers <- None
    Requests <- None
    Faults <- None
    Wakes <- None
    MaxExpired = 1
CHECK_DEADLOCK FALSE
PROPERTIES
    SourcesRotate
