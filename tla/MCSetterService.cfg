SPECIFICATION FairSpec
CONSTANTS
    RECENT_COMPILE_DATE = 1
    TLSDATED_MAX_DATE = 5
    should_save_disk = TRUE
    dry_run = FALSE
    should_sync_hwclock = TRUE
    MayFail <- MC_AllFail
    PipeRoom = 2
    NotifyRoom = 2
    SentTimes <- MC_Sent
    BootTimes <- MC_Boot
CHECK_DEADLOCK FALSE
INVARIANTS TypeOK AppliedEverywhere DiskIsNetTime
PROPERTIES
    ServesInOrder DiskAfterClocks OrphanExits
