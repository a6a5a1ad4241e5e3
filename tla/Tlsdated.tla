------------------------------ MODULE Tlsdated ------------------------------
(***************************************************************************)
(* The daemon: its libevent loop and every handler under src/events, the   *)
(* D-Bus service, the tlsdate child it spawns, and the setter coprocess of *)
(* module TimeSetter on the other end of two pipes.                        *)
(*                                                                         *)
(* Simplifications.                                                        *)
(*  - Durations are left out: an armed timer may expire at any poll.       *)
(*  - The monotonic clock stands still at 0, so the delta between the two  *)
(*    clocks is the value of the real-time clock, and a clock that merely  *)
(*    ticks does not change state.                                         *)
(*  - There is no proxy resolver: events[E_RESOLVER] is NULL, as on every  *)
(*    platform but Chromium OS.                                            *)
(***************************************************************************)
EXTENDS TimeSetter, FiniteSets, Functions

CONSTANTS
    should_dbus, should_load_disk,         \* struct opts
    max_tries, wait_between_tries,
    NumSources,                            \* length of the list opts.sources
    MAX_SANE_BACKOFF,
    kDelta,                                \* CONTINUITY_INTERVAL
    \* What the environment does in a run:
    BootTimes,      \* what the clock may show when the machine comes up
    BootDisks,      \* network times an earlier run may have left on disk
    JumpTimes,      \* times the clock may jump to at any moment
    Answers,        \* times a tlsdate child prints
    Requests,       \* times a D-Bus client asks for
    Faults,         \* subset of DaemonFaults
    Wakes,          \* the sources of wakes: subset of WakeEvents
    MaxExpired      \* timers and wakes that may be due at one poll

DaemonFaults == {"fork", "truncate", "silent", "stop", "stdin", "sigterm",
                 "sigterm2", "restart"}
WakeEvents == {"E_STEADYSTATE", "E_CONTINUITY", "E_ROUTEUP", "E_DBUS"}

ASSUME DaemonAssumption ==
    /\ should_dbus \in BOOLEAN
    /\ should_load_disk \in BOOLEAN
    /\ max_tries \in Nat \ {0}
    /\ wait_between_tries \in Nat \ {0}
    /\ NumSources \in Nat \ {0}
    /\ MAX_SANE_BACKOFF \in Nat
    /\ kDelta \in Nat
    /\ BootTimes \subseteq Nat /\ BootTimes # {}
    /\ BootDisks \subseteq {t \in Nat : is_sane_time(t)}
    /\ JumpTimes \subseteq Nat
    /\ Answers \subseteq Nat
    /\ Requests \subseteq Nat
    /\ Faults \subseteq DaemonFaults
    /\ Wakes \subseteq WakeEvents
    /\ MaxExpired \in Nat

VARIABLES
    \* struct state
    last_sync_type, last_time, clock_delta,
    tries, backoff, running, tlsdate_pid, exitting,
    term_sync, term_time,   \* history: last_sync_type and the clock when the
                            \* first SIGTERM was handled
    cur_source,     \* index into opts.sources, 0 for NULL
    \* libevent
    armed,          \* events that have been added and not deleted
    save_queue, net_queue,  \* events found ready, by priority
    loop,           \* "poll" between two batches of callbacks, else "run"
    sigchld, sigterm,  \* signals caught and not delivered to the loop yet
    notify_fd,      \* the daemon's read end of notify_pipe is open
    \* the tlsdate child
    child,          \* its process state, "none" once reaped
    child_source,   \* the source the last child was started with
    monitor_pipe,   \* its standard output
    stopped         \* children whose stop is waiting to be collected

timeVars == <<last_sync_type, last_time, clock_delta>>
exitVars == <<exitting, term_sync, term_time>>
tryVars == <<tries, backoff, running, tlsdate_pid>>
eventVars == <<armed, save_queue, net_queue, loop>>
signalVars == <<sigchld, sigterm>>
childVars == <<child, child_source, monitor_pipe, stopped>>
vars == <<daemon, setterVars, timeVars, tryVars, exitVars, cur_source,
          eventVars, signalVars, notify_fd, childVars>>

Timers == {"E_TLSDATE", "E_TLSDATE_TIMEOUT"}
\* Events without EV_PERSIST, added again by every trigger_event.
OneShot == Timers \cup {"E_TLSDATE_STATUS", "E_SAVE"}
\* E_SAVE_HUP is E_SAVE delivered with EV_READ: nobody reads the pipe any more.
Events == OneShot \cup WakeEvents
            \cup {"E_SAVE_HUP", "E_SIGCHLD", "E_SIGTERM", "E_TIME_SET"}
PRI_SAVE == {"E_SAVE", "E_SAVE_HUP", "E_SIGTERM", "E_TLSDATE_TIMEOUT"}
NetFiles == {"E_TIME_SET", "E_TLSDATE_STATUS", "E_ROUTEUP", "E_DBUS"}
NetTimers == {"E_TLSDATE", "E_STEADYSTATE", "E_CONTINUITY"}

ChildState == {"none", "alive", "wrote", "exit0", "exit1"}
Zombie == {"exit0", "exit1"}
\* A word on the child's standard output: a 32-bit time, or fewer bytes.
Truncated == -1

-----------------------------------------------------------------------------
(* libevent, as far as the daemon uses it.                                 *)

\* The queue without e, which is in it at most once.
Drop(q, e) ==
    IF \E i \in 1 .. Len(q) : q[i] = e
    THEN LET n == CHOOSE i \in 1 .. Len(q) : q[i] = e
         IN  [i \in 1 .. (Len(q) - 1) |-> IF i < n THEN q[i] ELSE q[i + 1]]
    ELSE q

\* event_del of the events that a callback adds anew or deletes, where they
\* may be queued.  E_SAVE is queued under either of its two names.
DropIf(q, e, cond) == IF cond THEN Drop(q, e) ELSE q
DelSave(q, S) == DropIf(DropIf(q, "E_SAVE", "E_SAVE" \in S), "E_SAVE_HUP", "E_SAVE" \in S)
DelNet(q, S) == DropIf(DropIf(q, "E_TLSDATE", "E_TLSDATE" \in S),
                       "E_TLSDATE_STATUS", "E_TLSDATE_STATUS" \in S)

\* The loop calls the callback of e: a pass of the loop runs the queue of the
\* highest priority that is not empty, first come first served.
Callback(e) ==
    /\ daemon = "up" /\ loop = "run"
    /\ \/ e \in PRI_SAVE /\ save_queue # <<>> /\ e = Head(save_queue)
       \/ /\ e \notin PRI_SAVE /\ save_queue = <<>>
          /\ net_queue # <<>> /\ e = Head(net_queue)

\* The callback of e has added and deleted these events (trigger_event deletes
\* before it adds); it has returned unless more.  Events without EV_PERSIST
\* were removed before the callback was called.  The loop polls again once the
\* queue it is running is empty.
Ran(e, more, added, deleted) ==
    LET once == IF e = "E_SAVE_HUP" THEN {"E_SAVE"} ELSE {e} \cap OneShot
        rest(q, run) == IF run /\ ~more THEN Tail(q) ELSE q
    IN  /\ armed' = ((armed \ once) \ deleted) \cup added
        /\ save_queue' = DelSave(rest(save_queue, e \in PRI_SAVE), added \cup deleted)
        /\ net_queue' = DelNet(rest(net_queue, e \notin PRI_SAVE), added \cup deleted)
        /\ loop' = IF (IF e \in PRI_SAVE THEN save_queue' ELSE net_queue') = <<>>
                   THEN "poll" ELSE "run"

Return(e, added, deleted) == Ran(e, FALSE, added, deleted)

\* A pipe is writable when it has room for two more words.
Writable == Len(time_pipe) + 2 <= PipeRoom

\* File events and signals that are ready.
Ready ==
    {e \in {"E_SAVE"} : e \in armed /\ setter # "dead" /\ Writable}
    \cup {e \in {"E_SAVE_HUP"} : "E_SAVE" \in armed /\ setter = "dead"}
    \cup {e \in {"E_TIME_SET"} : notify_fd /\ (notify_pipe # <<>> \/ setter = "dead")}
    \cup {e \in {"E_TLSDATE_STATUS"} : e \in armed /\ monitor_pipe # <<>>}
    \cup {e \in {"E_SIGCHLD"} : sigchld}
    \cup {e \in {"E_SIGTERM"} : sigterm}

\* Timers that may have expired and wakes that may have arrived.
MayBeDue == (armed \cap Timers) \cup (Wakes \ ({"E_ROUTEUP"} \ armed))

\* A poll queues file events in the order the kernel reports them, then the
\* timers that have expired; signals come through a pipe of libevent's own
\* that is read after that.
Orders(S) == {q \in [1 .. Cardinality(S) -> S] :
                \A i, j \in DOMAIN q : i # j => q[i] # q[j]}
One(e, S) == IF e \in S THEN <<e>> ELSE <<>>

\* One pass of event_base_loop up to its callbacks.
Poll(due) ==
    LET new == (Ready \cup due) \ Range(net_queue)
    IN  /\ daemon = "up" /\ loop = "poll"
        /\ new # {} \/ net_queue # <<>>
        /\ save_queue' = One("E_SAVE", new) \o One("E_SAVE_HUP", new)
                            \o One("E_TLSDATE_TIMEOUT", new) \o One("E_SIGTERM", new)
        /\ \E files \in Orders(new \cap NetFiles), timers \in Orders(new \cap NetTimers) :
                net_queue' = net_queue \o files \o timers \o One("E_SIGCHLD", new)
        /\ loop' = "run"
        /\ sigchld' = FALSE /\ sigterm' = FALSE
        /\ UNCHANGED <<daemon, setterVars, timeVars, tryVars, exitVars, cur_source,
                       armed, notify_fd, childVars>>

\* What a new process starts with and a finished one leaves.
Blank ==
    /\ clock_delta' = 0
    /\ tries' = 0 /\ backoff' = wait_between_tries
    /\ running' = FALSE /\ tlsdate_pid' = FALSE /\ exitting' = FALSE
    /\ cur_source' = 0
    /\ save_queue' = <<>> /\ net_queue' = <<>> /\ loop' = "poll"
    /\ sigchld' = FALSE /\ sigterm' = FALSE
    /\ child' = "none" /\ child_source' = 0 /\ monitor_pipe' = <<>>
    /\ notify_pipe' = <<>>

\* The process ends: its memory is gone, the kernel closes its ends of the
\* pipes, and a tlsdate child, killed or not, has nobody left to tell.
Exit ==
    /\ daemon' = "down"
    /\ Blank
    /\ last_sync_type' = "NONE" /\ last_time' = NoTime
    /\ armed' = {} /\ notify_fd' = FALSE
    /\ stopped' = stopped \ {"tlsdate"}
    /\ UNCHANGED <<term_sync, term_time>>

-----------------------------------------------------------------------------
(* Keeping time.                                                           *)

\* check_continuity () > 0 for the delta noted earlier, 0 if there is none.
Desync(delta) ==
    delta # 0 /\ (clock.sec < delta - kDelta \/ clock.sec > delta + kDelta)

\* Mutant: the delta is kept when the clock has left it.
KeptDelta_Stale(delta) == delta

KeptDelta(delta) == IF Desync(delta) THEN 0 ELSE delta

\* Mutant: a wake does not give a try back.
WakeTries_Kept == tries

\* For every wake, allow tlsdate one more try.
WakeTries == IF tries > 0 THEN tries - 1 ELSE tries

\* action_kickoff_time_sync, called at the end of the callback of e with these
\* values in the state: forgets a delta the clock has left, then asks for a
\* tlsdate run unless the time is in sync or an attempt is under way.
Kickoff(e, more, type, time, delta, added) ==
    LET type1 == IF Desync(delta) THEN "RTC" ELSE type
        wanted == type1 # "NET" /\ tries = 0 /\ "E_TLSDATE" \notin armed
    IN  /\ last_sync_type' = type1
        /\ last_time' = IF Desync(delta) THEN clock ELSE time
        /\ clock_delta' = KeptDelta(delta)
        /\ tries' = IF type1 # "NET" THEN WakeTries ELSE tries
        /\ Ran(e, more, added \cup (IF wanted THEN {"E_TLSDATE"} ELSE {}), {})

KickoffFrame == UNCHANGED <<daemon, setterVars, backoff, running, tlsdate_pid,
                            exitVars, cur_source, signalVars, notify_fd, childVars>>

\* The continuity timer, a route that comes up, a cue on stdin.
action_kickoff_time_sync(e) ==
    /\ e \in {"E_CONTINUITY", "E_ROUTEUP"}
    /\ Callback(e)
    /\ Kickoff(e, FALSE, last_sync_type, last_time, clock_delta, {})
    /\ KickoffFrame

\* stdin is at its end or broken: stop listening to it.
StdinBroken ==
    /\ Callback("E_ROUTEUP") /\ "stdin" \in Faults
    /\ Return("E_ROUTEUP", {}, {"E_ROUTEUP"})
    /\ UNCHANGED <<tries, timeVars>> /\ KickoffFrame

\* The steady-state timer: distrust the time (but keep clock_delta).
action_invalidate_time ==
    /\ Callback("E_STEADYSTATE")
    /\ IF last_sync_type = "RTC" /\ "E_TLSDATE" \in armed
       THEN Return("E_STEADYSTATE", {}, {}) /\ UNCHANGED <<tries, timeVars>>
       ELSE Kickoff("E_STEADYSTATE", FALSE, "RTC", clock, clock_delta, {})
    /\ KickoffFrame

\* History: the sync type and the clock at the first SIGTERM, if the pipe to
\* the setter was writable then.
NoteTerm == IF ~exitting /\ Writable
            THEN term_sync' = last_sync_type /\ term_time' = clock
            ELSE UNCHANGED <<term_sync, term_time>>

action_sigterm ==
    /\ Callback("E_SIGTERM")
    /\ exitting' = TRUE
    /\ NoteTerm
    /\ last_time' = clock
    /\ Return("E_SIGTERM", {"E_SAVE"}, {})
    /\ UNCHANGED <<daemon, setterVars, last_sync_type, clock_delta, tryVars,
                   cur_source, signalVars, notify_fd, childVars>>

\* Mutant: the word is not flagged.
SaveWord_NoFlag == last_time

\* The word for the setter: negative unless the time is the network's.
SaveWord == IF last_sync_type = "NET" THEN last_time ELSE Negated(last_time)

\* Mutants: the shutdown message overtakes the time, or is not sent.
ShutdownWords_Swapped == <<NoTime, SaveWord>>
ShutdownWords_TimeOnly == <<SaveWord>>

\* What the call that finds exitting set writes, and its recursive call.
ShutdownWords == <<SaveWord, NoTime>>

\* Hands last_time to the setter and, when going down, asks it to exit.  If
\* the setter died after the poll the write fails, and its SIGPIPE is only
\* ignored when libdbus is in the process.
action_sync_and_save ==
    /\ Callback("E_SAVE")
    /\ \/ /\ setter # "dead"
          /\ IF exitting /\ last_time.sec # 0
             THEN /\ time_pipe' = time_pipe \o ShutdownWords
                  /\ last_time' = NoTime
             ELSE /\ time_pipe' = Append(time_pipe, SaveWord)
                  /\ UNCHANGED last_time
       \/ /\ setter = "dead" /\ should_dbus
          /\ UNCHANGED <<time_pipe, last_time>>
    /\ Return("E_SAVE", {}, {})
    /\ UNCHANGED <<daemon, setter, local, notify_pipe, stores, last_sync_type,
                   clock_delta, tryVars, exitVars, cur_source, signalVars,
                   notify_fd, childVars>>

SaveSigpipe ==
    /\ Callback("E_SAVE")
    /\ setter = "dead" /\ ~should_dbus
    /\ Exit
    /\ UNCHANGED <<setter, local, time_pipe, stores>>

\* E_SAVE with EV_READ: the setter is gone, SIGCHLD will tear down.
SaveHangup ==
    /\ Callback("E_SAVE_HUP")
    /\ Return("E_SAVE_HUP", {}, {})
    /\ UNCHANGED <<daemon, setterVars, timeVars, tryVars, exitVars, cur_source,
                   signalVars, notify_fd, childVars>>

\* Mutant: the delta of a network sync is not noted.
handle_time_setter_NoDelta(s) ==
    IF s = "BAD_TIME"
    THEN last_sync_type' = "RTC" /\ last_time' = clock /\ UNCHANGED <<clock_delta, cur_source>>
    ELSE UNCHANGED <<timeVars, cur_source>>

\* What a status word from the setter does to the state.
handle_time_setter(s) ==
    CASE s = "BAD_TIME" ->
            /\ last_sync_type' = "RTC" /\ last_time' = clock
            /\ UNCHANGED <<clock_delta, cur_source>>
      [] s = "TIME_SET" /\ last_sync_type = "NET" ->
            /\ clock_delta' = clock.sec
            /\ cur_source' = 0
            /\ UNCHANGED <<last_sync_type, last_time>>
      [] OTHER -> UNCHANGED <<timeVars, cur_source>>

\* Reads a status word.  One that is no status at all ends the daemon; the end
\* of the pipe closes it.
action_time_set ==
    /\ Callback("E_TIME_SET")
    /\ \/ /\ notify_pipe # <<>> /\ Head(notify_pipe) # BOGUS
          /\ handle_time_setter(Head(notify_pipe))
          /\ notify_pipe' = Tail(notify_pipe)
          /\ Return("E_TIME_SET", {}, {})
          /\ UNCHANGED <<daemon, notify_fd, tryVars, exitVars, signalVars, childVars>>
       \/ /\ notify_pipe = <<>>
          /\ notify_fd' = FALSE
          /\ Return("E_TIME_SET", {}, {})
          /\ UNCHANGED <<daemon, timeVars, cur_source, notify_pipe, tryVars,
                         exitVars, signalVars, childVars>>
       \/ /\ notify_pipe # <<>> /\ Head(notify_pipe) = BOGUS
          /\ Exit
    /\ UNCHANGED <<setter, local, time_pipe, stores>>

-----------------------------------------------------------------------------
(* Running tlsdate.                                                        *)

\* build_argv's choice of a source.  It runs in the forked child, on the
\* child's copy of the options.
NextSource(cur) == IF cur = 0 \/ cur = NumSources THEN 1 ELSE cur + 1

\* Mutant: one try too many.
TriesLeft_OneMore == tries <= max_tries

TriesLeft == tries < max_tries

\* tlsdate() has forked: the child is under a timeout and its output watched.
Launched ==
    /\ tries' = tries + 1
    /\ running' = TRUE /\ tlsdate_pid' = TRUE
    /\ child' = "alive"
    /\ child_source' = NextSource(cur_source)
    /\ Return("E_TLSDATE", {"E_TLSDATE_TIMEOUT", "E_TLSDATE_STATUS"}, {})
    /\ UNCHANGED <<backoff, monitor_pipe, stopped>>

\* Mutant: running is not reset.
LaunchFailed_Running ==
    /\ tries' = 0 /\ running' = TRUE
    /\ Return("E_TLSDATE", {"E_TLSDATE_STATUS"}, {"E_TLSDATE_TIMEOUT"})
    /\ UNCHANGED <<backoff, tlsdate_pid, childVars>>

\* fork() has failed: nothing is scheduled, the next wake starts over.
LaunchFailed ==
    /\ tries' = 0
    /\ Return("E_TLSDATE", {"E_TLSDATE_STATUS"}, {"E_TLSDATE_TIMEOUT"})
    /\ UNCHANGED <<backoff, running, tlsdate_pid, childVars>>

action_run_tlsdate ==
    /\ Callback("E_TLSDATE")
    /\ \/ /\ last_sync_type = "NET"
          /\ Return("E_TLSDATE", {}, {})
          /\ UNCHANGED <<tryVars, childVars>>
       \/ /\ last_sync_type # "NET" /\ running
          /\ tries' = IF tries > 0 THEN tries - 1 ELSE 0
          /\ backoff' = IF tries > 0 THEN wait_between_tries ELSE backoff
          /\ Return("E_TLSDATE", {}, {})
          /\ UNCHANGED <<running, tlsdate_pid, childVars>>
       \/ /\ last_sync_type # "NET" /\ ~running /\ ~TriesLeft
          /\ tries' = 0
          /\ backoff' = wait_between_tries
          /\ Return("E_TLSDATE", {}, {})
          /\ UNCHANGED <<running, tlsdate_pid, childVars>>
       \/ /\ last_sync_type # "NET" /\ ~running /\ TriesLeft
          /\ Launched \/ ("fork" \in Faults /\ LaunchFailed)
    /\ UNCHANGED <<daemon, setterVars, timeVars, exitVars, cur_source,
                   signalVars, notify_fd>>

\* Mutant: the signal is one that a hanging child does not notice.
KillChild_Ignored == UNCHANGED <<child, stopped, sigchld>>

\* SIGKILL for the tlsdate child: a process that already exited stays a zombie.
KillChild ==
    IF child \in {"alive", "wrote"}
    THEN child' = "exit1" /\ stopped' = stopped \ {"tlsdate"} /\ sigchld' = TRUE
    ELSE UNCHANGED <<child, stopped, sigchld>>

action_tlsdate_timeout ==
    /\ Callback("E_TLSDATE_TIMEOUT")
    /\ IF tlsdate_pid THEN KillChild ELSE UNCHANGED <<child, stopped, sigchld>>
    /\ Return("E_TLSDATE_TIMEOUT", {}, {})
    /\ UNCHANGED <<daemon, setterVars, timeVars, tryVars, exitVars, cur_source,
                   sigterm, notify_fd, child_source, monitor_pipe>>

\* A word has arrived from the child, or from one that is gone already.
action_tlsdate_status ==
    /\ Callback("E_TLSDATE_STATUS")
    /\ monitor_pipe' = Tail(monitor_pipe)
    /\ LET t == Head(monitor_pipe)
       IN  \/ /\ t = Truncated
              /\ Return("E_TLSDATE_STATUS", {"E_TLSDATE_TIMEOUT"}, {})
              /\ UNCHANGED <<timeVars, tries, backoff>>
           \/ /\ t # Truncated /\ is_sane_time(t)
              /\ last_sync_type' = "NET" /\ last_time' = FromNet(t)
              /\ tries' = 0 /\ backoff' = wait_between_tries
              /\ Return("E_TLSDATE_STATUS", {"E_SAVE"}, {})
              /\ UNCHANGED clock_delta
           \/ /\ t # Truncated /\ ~is_sane_time(t)
              /\ tries' = 0 /\ backoff' = wait_between_tries
              /\ Return("E_TLSDATE_STATUS", {}, {})
              /\ UNCHANGED timeVars
    /\ UNCHANGED <<daemon, setterVars, running, tlsdate_pid, exitVars, cur_source,
                   signalVars, notify_fd, child, child_source, stopped>>

\* Mutant: no limit.
NextBackoff_Unlimited == 2 * backoff

NextBackoff == IF backoff < MAX_SANE_BACKOFF THEN 2 * backoff ELSE backoff

\* handle_child_death for the tlsdate child: a clean exit is not followed by
\* another run, any other one is, after a longer wait.
ReapTlsdate(how) ==
    /\ child' = "none" /\ running' = FALSE /\ tlsdate_pid' = FALSE
    /\ backoff' = IF how # "exit0" THEN NextBackoff ELSE backoff
    /\ Return("E_SIGCHLD", IF how = "exit0" THEN {} ELSE {"E_TLSDATE"},
              {"E_TLSDATE_TIMEOUT"})

\* Mutant: handle_child_stop is not called.
action_sigchld_DeathsOnly ==
    /\ Callback("E_SIGCHLD")
    /\ setter # "dead"
    /\ \/ child \in Zombie /\ ReapTlsdate(child)
       \/ /\ child \notin Zombie
          /\ Return("E_SIGCHLD", {}, {})
          /\ UNCHANGED <<child, backoff, running, tlsdate_pid>>
    /\ UNCHANGED <<daemon, setterVars, timeVars, tries, exitVars, cur_source,
                   signalVars, notify_fd, child_source, monitor_pipe, stopped>>

\* Collects every dead and every stopped child of a living setter.  A stopped
\* tlsdate is killed and may or may not be dead when the handler looks again.
action_sigchld ==
    /\ Callback("E_SIGCHLD")
    /\ setter # "dead" /\ "setter" \notin stopped
    /\ \/ /\ child \in Zombie
          /\ ReapTlsdate(child)
          /\ UNCHANGED sigchld
       \/ /\ stopped # {}
          /\ ReapTlsdate("exit1")
          /\ UNCHANGED sigchld
       \/ /\ stopped # {}
          /\ child' = "exit1" /\ sigchld' = TRUE
          /\ Return("E_SIGCHLD", {}, {})
          /\ UNCHANGED <<backoff, running, tlsdate_pid>>
       \/ /\ stopped = {} /\ child \notin Zombie
          /\ Return("E_SIGCHLD", {}, {})
          /\ UNCHANGED <<child, backoff, running, tlsdate_pid, sigchld>>
    /\ stopped' = {}
    /\ UNCHANGED <<daemon, setterVars, timeVars, tries, exitVars, cur_source,
                   sigterm, notify_fd, child_source, monitor_pipe>>

\* The setter's death breaks the loop, and cleanup_main follows; a stopped
\* setter cannot be killed by the unprivileged daemon, which gives up.
SetterLost ==
    /\ Callback("E_SIGCHLD")
    /\ setter = "dead" \/ "setter" \in stopped
    /\ Exit
    /\ UNCHANGED <<setter, local, time_pipe, stores>>

-----------------------------------------------------------------------------
(* The D-Bus service.  watch_handler dispatches every queued message before *)
(* it returns: more says that there are others.                            *)

\* can_set_time: checks for a desync first, and forgets the delta if so.
handle_can_set_time(more) ==
    /\ Callback("E_DBUS")
    /\ IF Desync(clock_delta)
       THEN clock_delta' = 0 /\ last_sync_type' = "RTC" /\ last_time' = clock
       ELSE UNCHANGED timeVars
    /\ Ran("E_DBUS", more, {}, {})
    /\ UNCHANGED tries /\ KickoffFrame

\* Mutant: an accepted time is not handed to the setter.
handle_set_time_NoSave(t, more) ==
    /\ Callback("E_DBUS")
    /\ is_sane_time(t) /\ (clock_delta = 0 \/ Desync(clock_delta))
    /\ Kickoff("E_DBUS", more, "PLATFORM", Local(t), 0, {})
    /\ KickoffFrame

\* SetTime: refused for insane times and while the clock is synchronized.
handle_set_time(t, more) ==
    /\ Callback("E_DBUS")
    /\ \/ /\ ~is_sane_time(t) \/ (clock_delta # 0 /\ ~Desync(clock_delta))
          /\ Ran("E_DBUS", more, {}, {})
          /\ UNCHANGED <<timeVars, tries>>
       \/ /\ is_sane_time(t) /\ (clock_delta = 0 \/ Desync(clock_delta))
          /\ Kickoff("E_DBUS", more, "PLATFORM", Local(t), 0, {"E_SAVE"})
    /\ KickoffFrame

\* What LastSyncInfo answers; it asks for no synchronization check first.
SyncInfo == [net_synced |-> clock_delta # 0, sync |-> last_sync_type, t |-> last_time]

\* LastSyncInfo leaves everything as it is, and so does a message that
\* service_dispatch does not know.
handle_last_sync_info(more) ==
    /\ Callback("E_DBUS")
    /\ Ran("E_DBUS", more, {}, {})
    /\ UNCHANGED <<timeVars, tries>> /\ KickoffFrame

service_dispatch(more) ==
    \/ \E t \in Requests : handle_set_time(t, more)
    \/ handle_can_set_time(more)
    \/ handle_last_sync_info(more)

-----------------------------------------------------------------------------
(* Processes outside the daemon.                                           *)

ChildWrites ==
    /\ daemon = "up" /\ child = "alive" /\ "tlsdate" \notin stopped
    /\ \E w \in Answers \cup (IF "truncate" \in Faults THEN {Truncated} ELSE {}) :
            monitor_pipe' = Append(monitor_pipe, w)
    /\ child' = "wrote"
    /\ UNCHANGED <<daemon, setterVars, timeVars, tryVars, exitVars, cur_source,
                   eventVars, signalVars, notify_fd, child_source, stopped>>

\* A child that printed the time exits cleanly; one that did not fails, or
\* ("silent") is some other program that exits cleanly all the same.
ChildExits ==
    /\ daemon = "up" /\ "tlsdate" \notin stopped
    /\ \/ child = "wrote" /\ child' = "exit0"
       \/ child = "alive" /\ child' = "exit1"
       \/ child = "alive" /\ child' = "exit0" /\ "silent" \in Faults
    /\ sigchld' = TRUE
    /\ UNCHANGED <<daemon, setterVars, timeVars, tryVars, exitVars, cur_source,
                   eventVars, sigterm, notify_fd, child_source, monitor_pipe, stopped>>

\* Somebody stops one of the children (or lets it continue).
StopChild ==
    /\ "stop" \in Faults /\ daemon = "up"
    /\ \/ child \in {"alive", "wrote"} /\ stopped' = stopped \cup {"tlsdate"}
       \/ setter # "dead" /\ stopped' = stopped \cup {"setter"}
    /\ stopped' # stopped
    /\ sigchld' = TRUE
    /\ UNCHANGED <<daemon, setterVars, timeVars, tryVars, exitVars, cur_source,
                   eventVars, sigterm, notify_fd, child, child_source, monitor_pipe>>

\* The coprocess makes a step; its death raises SIGCHLD in the daemon.
CoprocessFrame ==
    /\ sigchld' = (sigchld \/ (setter' = "dead" /\ daemon = "up"))
    /\ UNCHANGED <<daemon, timeVars, tryVars, exitVars, cur_source, eventVars,
                   sigterm, notify_fd, childVars>>

Coprocess == SetterStep /\ "setter" \notin stopped /\ CoprocessFrame
CoprocessKilled == SetterKilled /\ CoprocessFrame

\* SIGTERM has a handler only when there is a disk to save to.  Whether more
\* than one is sent is a bound of the run ("sigterm2").
Sigterm ==
    /\ daemon = "up" /\ (IF exitting THEN "sigterm2" ELSE "sigterm") \in Faults
    /\ \/ /\ should_save_disk
          /\ sigterm' = TRUE
          /\ UNCHANGED <<daemon, notify_pipe, timeVars, tryVars, exitVars, cur_source,
                         eventVars, sigchld, notify_fd, childVars>>
       \/ ~should_save_disk /\ Exit
    /\ UNCHANGED <<setter, local, time_pipe, stores>>

\* The clock is set by someone else, or comes back wrong from a suspend.
ClockJump ==
    /\ daemon = "up"
    /\ \E t \in JumpTimes : clock' = Local(t)
    /\ clock' # clock
    /\ UNCHANGED <<daemon, setter, local, pipes, rtc, disk, timeVars, tryVars,
                   exitVars, cur_source, eventVars, signalVars, notify_fd, childVars>>

-----------------------------------------------------------------------------
(* Start and restart.                                                      *)

\* main(): the better of the clock and the timestamp file, or else the date
\* of the build.
DiskTime == should_load_disk /\ disk # NoTime /\ is_sane_time(disk.sec)

\* Mutant: the file only counts when the clock is insane.
DiskBetter_IfInsane == DiskTime /\ ~is_sane_time(clock.sec)

DiskBetter == DiskTime /\ (~is_sane_time(clock.sec) \/ clock.sec < disk.sec)

StartWith(type, time) == last_sync_type' = type /\ last_time' = time

\* Mutant: an insane clock is handed on.
StartupTime_NoBuild ==
    IF DiskBetter THEN StartWith("DISK", disk) ELSE StartWith("RTC", clock)

StartupTime ==
    \/ DiskBetter /\ StartWith("DISK", disk)
    \/ ~DiskBetter /\ is_sane_time(clock.sec) /\ StartWith("RTC", clock)
    \/ /\ ~DiskBetter /\ ~is_sane_time(clock.sec)
       /\ StartWith("BUILD", Local(RECENT_COMPILE_DATE + 1))

\* main() up to event_base_dispatch: the setter is forked, the first time is
\* to be saved and the first tlsdate run is due.
Main ==
    /\ daemon = "boot" \/ (daemon = "down" /\ setter = "dead" /\ "restart" \in Faults)
    /\ daemon' = "up"
    /\ Blank
    /\ StartupTime
    /\ term_sync' = "NONE" /\ term_time' = NoTime
    /\ armed' = {"E_SAVE", "E_TLSDATE", "E_ROUTEUP"}
    /\ notify_fd' = TRUE
    /\ stopped' = {}
    /\ setter' = "start" /\ status' = "UNINIT"
    /\ tv' = NoTime /\ save' = TRUE /\ time_pipe' = <<>>
    /\ UNCHANGED stores

\* The machine goes down between any two steps, and its clock may show
\* something else when it comes up.
PowerLoss ==
    /\ "restart" \in Faults /\ daemon = "up"
    /\ Exit
    /\ setter' = "dead" /\ status' = "UNINIT"
    /\ tv' = NoTime /\ save' = TRUE /\ time_pipe' = <<>>
    /\ \E t \in BootTimes : clock' = Local(t)
    /\ UNCHANGED <<rtc, disk>>

Init ==
    /\ daemon = "boot"
    /\ setter = "dead" /\ status = "UNINIT" /\ tv = NoTime /\ save = TRUE
    /\ time_pipe = <<>> /\ notify_pipe = <<>>
    /\ \E t \in BootTimes : clock = Local(t) /\ rtc = Local(t)
    /\ disk \in {NoTime} \cup {FromNet(t) : t \in BootDisks}
    /\ last_sync_type = "NONE" /\ last_time = NoTime /\ clock_delta = 0
    /\ tries = 0 /\ backoff = wait_between_tries
    /\ running = FALSE /\ tlsdate_pid = FALSE
    /\ exitting = FALSE /\ term_sync = "NONE" /\ term_time = NoTime
    /\ cur_source = 0
    /\ armed = {} /\ save_queue = <<>> /\ net_queue = <<>> /\ loop = "poll"
    /\ sigchld = FALSE /\ sigterm = FALSE /\ notify_fd = FALSE
    /\ child = "none" /\ child_source = 0 /\ monitor_pipe = <<>> /\ stopped = {}

Handler ==
    \/ \E e \in Wakes : action_kickoff_time_sync(e)
    \/ StdinBroken \/ action_invalidate_time
    \/ action_sigterm \/ action_sync_and_save \/ SaveSigpipe \/ SaveHangup
    \/ action_time_set
    \/ action_run_tlsdate \/ action_tlsdate_timeout \/ action_tlsdate_status
    \/ action_sigchld \/ SetterLost
    \/ \E more \in BOOLEAN : service_dispatch(more)

Polls == \E due \in SUBSET MayBeDue : Cardinality(due) <= MaxExpired /\ Poll(due)

Environment == ChildWrites \/ ChildExits \/ StopChild \/ Sigterm \/ ClockJump
                \/ CoprocessKilled \/ PowerLoss

Next == Main \/ Polls \/ Handler \/ Coprocess \/ Environment

Spec == Init /\ [][Next]_vars

\* The daemon's loop keeps running, the kernel schedules the coprocess, and
\* every armed timer expires at some poll.  Nothing is assumed of the tlsdate
\* child, of wakes from outside or of D-Bus clients.
PollWith(e) == \E due \in SUBSET MayBeDue :
                    e \in due /\ Cardinality(due) <= MaxExpired /\ Poll(due)

Fairness ==
    /\ WF_vars(Main) /\ WF_vars(Polls) /\ WF_vars(Handler) /\ WF_vars(Coprocess)
    /\ \A e \in Timers \cup {"E_STEADYSTATE", "E_CONTINUITY"} : SF_vars(PollWith(e))

FairSpec == Spec /\ Fairness

-----------------------------------------------------------------------------
(* Correctness.                                                            *)

TypeOK ==
    /\ SetterTypeOK
    /\ last_sync_type \in SYNC_TYPES
    /\ last_time \in Time
    /\ clock_delta \in Int
    /\ tries \in 0 .. max_tries
    /\ backoff \in Nat
    /\ running \in BOOLEAN /\ tlsdate_pid \in BOOLEAN
    /\ exitting \in BOOLEAN /\ term_sync \in SYNC_TYPES /\ term_time \in Time
    /\ cur_source \in 0 .. NumSources
    /\ armed \subseteq Events
    /\ save_queue \in Seq(Events) /\ net_queue \in Seq(Events)
    /\ loop \in {"poll", "run"}
    /\ sigchld \in BOOLEAN /\ sigterm \in BOOLEAN /\ notify_fd \in BOOLEAN
    /\ child \in ChildState /\ child_source \in 0 .. NumSources
    /\ monitor_pipe \in Seq(Int)
    /\ stopped \subseteq {"tlsdate", "setter"}

\* The daemon knows of exactly the child there is: running and tlsdate_pid are
\* set from the fork in action_run_tlsdate until handle_child_death reaps it,
\* so there is never a second tlsdate and never a forgotten one.
ChildKnown == daemon = "up" => (running = tlsdate_pid) /\ (running <=> child # "none")

\* A child that has not exited is always under a timeout that will kill it.
ChildGuarded ==
    daemon = "up" /\ child \in {"alive", "wrote"} => "E_TLSDATE_TIMEOUT" \in armed

\* No death is forgotten although signals coalesce: as long as a child is
\* dead or stopped and not collected, a SIGCHLD is on its way to the loop.
DeathsNoticed ==
    daemon = "up" /\ (child \in Zombie \/ setter = "dead" \/ stopped # {}) =>
        sigchld \/ "E_SIGCHLD" \in Range(net_queue)

\* Only sane times of the network are on disk, as long as nobody sends SIGTERM
\* (see OnlyNetToDisk).
DiskIsNetTime == disk = NoTime \/ (disk.net /\ is_sane_time(disk.sec))

\* When the setter has nothing left to do, the daemon's belief, and with it what
\* LastSyncInfo tells a client, is true: a time that is said to come from the
\* network, D-Bus, the disk or the build is what the clock shows; and if it is
\* the network's, the delta says so.
Quiet == /\ daemon = "up" /\ setter = "read"
         /\ time_pipe = <<>> /\ notify_pipe = <<>>
         /\ "E_SAVE" \notin armed

BeliefIsTrue ==
    Quiet /\ ~exitting =>
        /\ SyncInfo.sync # "RTC" => SyncInfo.t = clock
        /\ SyncInfo.sync = "NET" => SyncInfo.net_synced /\ clock_delta = clock.sec

\* A graceful exit that began in sync leaves the clock's time of that moment on
\* disk, not the time of the last sync: what action_sigterm read and the shutdown
\* message of action_sync_and_save reach the setter in order, whatever else was
\* on its way and whoever moved the clock in between.
ExitSaves ==
    status = "EXIT" /\ term_sync = "NET" /\ is_sane_time(term_time.sec) =>
        disk = term_time

\* The setter never reports a status it did not assign: the first word it gets
\* is the sane one that main() chose, even when SIGTERM comes at once and the
\* clock is insane.
StatusAssigned == setter = "notify" => status # "UNINIT"

\* After any number of crashes, power losses and restarts, once the time chosen
\* by main() has been applied the clock is not behind the timestamp file.
ClockAboveDisk ==
    Quiet /\ should_load_disk /\ disk # NoTime => clock.sec >= disk.sec

\* The wait between tries doubles from wait_between_tries at most until it
\* passes MAX_SANE_BACKOFF once.
BackoffBounded ==
    backoff = wait_between_tries \/ backoff < 2 * MAX_SANE_BACKOFF

\* SIGTERM, or the death of the setter, always ends the daemon: the setter
\* gets the shutdown message, dies, and its SIGCHLD breaks the loop.
ShutdownCompletes == exitting \/ setter = "dead" ~> daemon # "up"

\* Every tlsdate child is collected, even one that hangs or is stopped: the
\* timeout kills it and the SIGCHLD is handled.
ChildReaped == running ~> (~running \/ daemon # "up")

\* The daemon never gives up: whatever fails, it has a network time, a tlsdate
\* run is under way, or another one gets scheduled.
KeepsTrying ==
    []<>(\/ running \/ "E_TLSDATE" \in armed \/ last_sync_type = "NET"
         \/ exitting \/ daemon # "up")

\* A clock that jumps away from the delta of the last network sync is found
\* out: the stale delta does not survive.
DesyncNoticed == Desync(clock_delta) ~> ~Desync(clock_delta)

-----------------------------------------------------------------------------
(* What comments and documentation say, and the code does not do.          *)

\* tlsdate-monitor.c: "choose the next source in the list".
SourcesRotate ==
    [][child = "none" /\ child' = "alive" /\ child_source # 0
        => child_source' # child_source]_vars

\* save.c: "For all non-net sources, don't write to disk".  What action_sigterm
\* reads from the clock has no source of its own.
OnlyNetToDisk == [][disk' = NoTime \/ disk'.net]_disk
=============================================================================
