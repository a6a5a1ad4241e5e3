---------------------------- MODULE SetterService ----------------------------
(***************************************************************************)
(* The setter coprocess served to any client that speaks its wire          *)
(* protocol: a positive word for a network time, a negative one for a time *)
(* from elsewhere, 0 to shut down.  The client reads status words when it  *)
(* likes and may go away at any moment.  Module Tlsdated puts the real     *)
(* daemon in the client's place.                                           *)
(***************************************************************************)
EXTENDS TimeSetter

CONSTANTS
    SentTimes,   \* the times a client sends
    BootTimes    \* what the clocks show, and the timestamp file may hold, at start

ASSUME ServiceAssumption ==
    /\ SentTimes \subseteq Nat
    /\ BootTimes \subseteq Nat /\ BootTimes # {}

vars == <<daemon, setterVars>>

Words == {FromNet(t) : t \in SentTimes} \cup {Local(-t) : t \in SentTimes}

Init ==
    /\ SetterInit
    /\ daemon = "up"
    /\ \E t \in BootTimes : clock = Local(t) /\ rtc = Local(t)
    /\ disk \in {FromNet(t) : t \in {b \in BootTimes : is_sane_time(b)}} \cup {NoTime}

\* action_sync_and_save's write(): the event fires when the pipe has room.
ClientSend ==
    /\ daemon = "up" /\ setter # "dead"
    /\ Len(time_pipe) < PipeRoom
    /\ \E w \in Words \cup {NoTime} : time_pipe' = Append(time_pipe, w)
    /\ UNCHANGED <<daemon, setter, local, notify_pipe, stores>>

ClientRead ==
    /\ daemon = "up" /\ notify_pipe # <<>>
    /\ notify_pipe' = Tail(notify_pipe)
    /\ UNCHANGED <<daemon, setter, local, time_pipe, stores>>

\* The client exits or is killed: its ends of both pipes are closed.
ClientExit ==
    /\ daemon = "up"
    /\ daemon' = "down"
    /\ UNCHANGED setterVars

Next == \/ (SetterStep \/ SetterKilled) /\ UNCHANGED daemon
        \/ ClientSend \/ ClientRead \/ ClientExit

Spec == Init /\ [][Next]_vars

\* The kernel schedules the coprocess; nothing is assumed of the client.
FairSpec == Spec /\ WF_vars(SetterStep /\ UNCHANGED daemon)

-----------------------------------------------------------------------------
(* Correctness.                                                            *)

TypeOK == SetterTypeOK

\* When the setter is about to answer a sane time, every store it is
\* configured to keep shows that time: no partial failure of
\* time_setter_coprocess is answered as a success.
AppliedEverywhere ==
    setter = "notify" /\ is_sane_time(tv.sec) =>
        /\ status = "TIME_SET"
        /\ ~dry_run =>
            /\ clock = tv
            /\ should_sync_hwclock => rtc = tv
            /\ save /\ should_save_disk => disk = tv

\* The timestamp file only ever holds a sane time that came from the network:
\* a word the client flagged negative is applied to the clock but never saved,
\* whatever fails on the way.
DiskIsNetTime == disk = NoTime \/ (disk.net /\ is_sane_time(disk.sec))

\* The file is never ahead of the clocks: a time reaches the disk only after
\* the system clock (and, when it is kept, the hardware clock) shows it.
DiskAfterClocks ==
    [][disk' \in {disk, NoTime}
        \/ (disk' = clock /\ (should_sync_hwclock => rtc = clock))]_vars

\* The privileged process does not outlive the daemon: once its client is
\* gone, and whatever is still in the pipes, it terminates.
OrphanExits == daemon = "down" ~> setter = "dead"

-----------------------------------------------------------------------------
(* Refinement.                                                             *)

Serving == setter \in {"settimeofday", "rtc_write", "save", "notify"}

Todo == IF Serving THEN <<IF save THEN tv ELSE Negated(tv)>> \o time_pipe ELSE time_pipe

Left ==
    {s \in {"clock", "rtc", "disk", "idle"} :
        \/ s = "clock" /\ setter = "settimeofday"
        \/ s = "rtc" /\ setter \in {"settimeofday", "rtc_write"} /\ should_sync_hwclock
        \/ s = "disk" /\ setter \in {"settimeofday", "rtc_write", "save"} /\ save /\ SaveFd
        \/ s = "idle" /\ ~Serving}

State == IF setter = "die" THEN status ELSE IF setter = "dead" THEN "dead" ELSE "up"

Service == INSTANCE TimeService
            WITH Accepted <- Words \cup {NoTime},
                 todo <- Todo, left <- Left, answers <- notify_pipe, state <- State

\* The coprocess, whose every system call may fail or be the last before it is
\* killed, serves the words in order and completely, and answers each once.
ServesInOrder == Service!Spec
=============================================================================
