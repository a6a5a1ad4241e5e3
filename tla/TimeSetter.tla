----------------------------- MODULE TimeSetter -----------------------------
(***************************************************************************)
(* The privileged coprocess (tlsdate-setter.c).  It reads times from one   *)
(* pipe, applies each to the system clock, the hardware clock and the      *)
(* timestamp file, and answers with a status word on a second pipe.  Every *)
(* system call that touches state other processes see is a step of its     *)
(* own, so the daemon, a crash or an outside clock change may come between *)
(* any two of them.                                                        *)
(***************************************************************************)
EXTENDS TlsdateDefs, Sequences

CONSTANTS
    should_save_disk, dry_run, should_sync_hwclock,  \* struct opts
    MayFail,     \* the failures explored: subset of Failures
    PipeRoom,    \* words the pipe from the daemon takes
    NotifyRoom   \* words the pipe to the daemon takes before the setter waits

Failures == {"open", "sandbox", "settimeofday", "rtc_write", "save", "kill"}

ASSUME SetterAssumption ==
    /\ should_save_disk \in BOOLEAN
    /\ dry_run \in BOOLEAN
    /\ should_sync_hwclock \in BOOLEAN
    /\ MayFail \subseteq Failures
    /\ PipeRoom \in Nat /\ PipeRoom > 1
    /\ NotifyRoom \in Nat /\ NotifyRoom > 0

VARIABLES
    daemon,       \* "up" while tlsdated holds its ends of the two pipes,
                  \* "boot" before it has started, "down" once it is gone
    setter,       \* where the coprocess is
    status,       \* its local variable status, "UNINIT" until assigned
    tv, save,     \* the time being applied and whether it goes to disk
    time_pipe,    \* words from the daemon, positive, negative or 0
    notify_pipe,  \* status words to the daemon
    clock,        \* CLOCK_REALTIME
    rtc,          \* the hardware clock
    disk          \* the timestamp file, NoTime when it holds no time

pipes == <<time_pipe, notify_pipe>>
local == <<status, tv, save>>
stores == <<clock, rtc, disk>>
setterVars == <<setter, local, pipes, stores>>

SetterPC == {"start", "read", "settimeofday", "rtc_write", "save",
             "notify", "die", "dead"}

-----------------------------------------------------------------------------
(* The coprocess.                                                          *)

\* save_fd != -1
SaveFd == should_save_disk /\ ~dry_run

\* goto notify_and_die
Die(s) == setter' = "die" /\ status' = s

\* Opens the timestamp file (or tries to unlink it) and enters the sandbox.
Start ==
    /\ setter = "start"
    /\ \/ /\ SaveFd /\ "open" \in MayFail
          /\ Die("NO_SAVE")
          /\ disk' \in {disk, NoTime}
       \/ /\ "sandbox" \in MayFail
          /\ Die("NO_SBOX")
          /\ UNCHANGED disk
       \/ /\ setter' = "read"
          /\ UNCHANGED <<status, disk>>
    /\ UNCHANGED <<tv, save, pipes, clock, rtc>>

\* Mutant: the sign of the word is ignored.
SavesToDisk_Always(m) == TRUE

\* save: a negative word is not for the disk.
SavesToDisk(m) == m.sec >= 0

\* Mutant: the dry run applies the time too.
FirstStep_Always == "settimeofday"

\* Where the handling of a sane time begins.
FirstStep == IF dry_run THEN "notify" ELSE "settimeofday"

\* Mutant: the read takes everything there is, and uses the first word.
Unread_Nothing == <<>>

\* What a read of one time_t leaves in the pipe.
Unread == Tail(time_pipe)

\* Takes one word off the pipe.  A negative word is a time that must not go
\* to disk, 0 asks for a clean shutdown, and an insane time is answered with
\* whatever status holds already.
ReadTime ==
    /\ setter = "read"
    /\ time_pipe # <<>>
    /\ LET m == Head(time_pipe)
           w == IF m.sec < 0 THEN Negated(m) ELSE m
           t == w.sec
       IN  /\ time_pipe' = Unread
           /\ tv' = w
           /\ save' = SavesToDisk(m)
           /\ \/ t = 0 /\ Die("EXIT")
              \/ /\ is_sane_time(t)
                 /\ setter' = FirstStep
                 /\ status' = IF dry_run THEN "TIME_SET" ELSE "BAD_TIME"
              \/ /\ t # 0 /\ ~is_sane_time(t)
                 /\ setter' = "notify"
                 /\ UNCHANGED status
    /\ UNCHANGED <<notify_pipe, stores>>

\* Mutant: end of pipe is taken for an interrupted read.
ReadEnd_Continue ==
    /\ setter = "read"
    /\ time_pipe = <<>> /\ daemon = "down"
    /\ UNCHANGED <<setter, local, pipes, stores>>

\* End of pipe: the daemon is gone and everything it wrote has been read.
ReadEnd ==
    /\ setter = "read"
    /\ time_pipe = <<>> /\ daemon = "down"
    /\ Die("READ_ERR")
    /\ UNCHANGED <<tv, save, pipes, stores>>

\* Mutant: the hardware clock is left alone.
AfterClock_NoRtc == "save"

AfterClock == IF should_sync_hwclock THEN "rtc_write" ELSE "save"

SetTimeOfDay ==
    /\ setter = "settimeofday"
    /\ \/ /\ "settimeofday" \in MayFail
          /\ Die("SET_ERR")
          /\ UNCHANGED clock
       \/ /\ clock' = tv
          /\ setter' = AfterClock
          /\ UNCHANGED status
    /\ UNCHANGED <<tv, save, pipes, rtc, disk>>

\* Mutant: the result of rtc_write is ignored.
RtcWrite_Ignored ==
    /\ setter = "rtc_write"
    /\ rtc' \in {tv} \cup (IF "rtc_write" \in MayFail THEN {rtc} ELSE {})
    /\ setter' = "save"
    /\ UNCHANGED <<local, pipes, clock, disk>>

RtcWrite ==
    /\ setter = "rtc_write"
    /\ \/ /\ "rtc_write" \in MayFail
          /\ Die("NO_RTC")
          /\ UNCHANGED rtc
       \/ /\ rtc' = tv
          /\ setter' = "save"
          /\ UNCHANGED status
    /\ UNCHANGED <<tv, save, pipes, clock, disk>>

\* One pwritev() over the old timestamp.
SaveTimestamp ==
    /\ setter = "save"
    /\ \/ /\ save /\ SaveFd /\ "save" \in MayFail
          /\ Die("NO_SAVE")
          /\ UNCHANGED disk
       \/ /\ disk' = IF save /\ SaveFd THEN tv ELSE disk
          /\ setter' = "notify" /\ status' = "TIME_SET"
    /\ UNCHANGED <<tv, save, pipes, clock, rtc>>

\* The ints that writing status can put on the pipe: any, when it was never
\* assigned.
Written == IF status = "UNINIT" THEN SETTER_STATUS \cup {BOGUS} ELSE {status}

\* Mutant: the write does not wait for room.
Notify_NoWait ==
    /\ setter \in {"notify", "die"} /\ daemon = "up"
    /\ \E s \in Written : notify_pipe' = Append(notify_pipe, s)
    /\ setter' = IF setter = "notify" THEN "read" ELSE "dead"
    /\ tv' = NoTime /\ save' = TRUE
    /\ UNCHANGED <<status, time_pipe, stores>>

\* write (notify_fd, &status): waits while the pipe is full; SIGPIPE ends the
\* coprocess when the daemon has closed the other end.  tv and save are locals
\* of one turn of the loop.
Notify ==
    /\ setter \in {"notify", "die"}
    /\ \/ /\ daemon = "up" /\ Len(notify_pipe) < NotifyRoom
          /\ \E s \in Written : notify_pipe' = Append(notify_pipe, s)
          /\ setter' = IF setter = "notify" THEN "read" ELSE "dead"
       \/ /\ daemon = "down"
          /\ setter' = "dead"
          /\ UNCHANGED notify_pipe
    /\ tv' = NoTime /\ save' = TRUE
    /\ UNCHANGED <<status, time_pipe, stores>>

\* The coprocess is killed from outside, between any two of its steps.
SetterKilled ==
    /\ "kill" \in MayFail
    /\ setter # "dead"
    /\ setter' = "dead"
    /\ UNCHANGED <<local, pipes, stores>>

SetterStep == Start \/ ReadTime \/ ReadEnd \/ SetTimeOfDay \/ RtcWrite
                \/ SaveTimestamp \/ Notify

SetterInit ==
    /\ setter = "start"
    /\ status = "UNINIT"
    /\ tv = NoTime
    /\ save = TRUE
    /\ time_pipe = <<>>
    /\ notify_pipe = <<>>

SetterTypeOK ==
    /\ daemon \in {"boot", "up", "down"}
    /\ setter \in SetterPC
    /\ status \in SETTER_STATUS \cup {"UNINIT"}
    /\ tv \in Time
    /\ save \in BOOLEAN
    /\ time_pipe \in Seq(Time) /\ Len(time_pipe) <= PipeRoom
    /\ notify_pipe \in Seq(SETTER_STATUS \cup {BOGUS}) /\ Len(notify_pipe) <= NotifyRoom
    /\ clock \in Time
    /\ rtc \in Time
    /\ disk \in Time

\* A dry run (-p) answers its client like a real one, shutdown included, and
\* touches neither clock nor disk (where nobody else sets the clock).
DryRunTouchesNothing == [][~dry_run]_stores
=============================================================================
