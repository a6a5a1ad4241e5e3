---------------------------- MODULE BeliefProofs ----------------------------
(***************************************************************************)
(* What the daemon believes, what the clock shows and what is on disk, for *)
(* every configuration: only network times are saved, the belief is true   *)
(* once the setter has nothing left to do, and a graceful exit leaves the  *)
(* time of that moment behind.                                             *)
(***************************************************************************)
EXTENDS LoopProofs

-----------------------------------------------------------------------------
(* The inductive invariants.                                               *)

Applying == setter \in {"settimeofday", "rtc_write", "save"}

\* The time that a word stands for.
Magnitude(m) == IF m.sec < 0 THEN Negated(m) ELSE m

\* A time that is applied is sane.
TvSane == Applying => is_sane_time(tv.sec) /\ ~dry_run

\* What the daemon believes to be the time is sane, unless it is merely what
\* the clock shows.
BeliefSane ==
    daemon = "up" /\ ~exitting /\ last_sync_type # "RTC" => is_sane_time(last_time.sec)

\* Nobody asks the daemon to go down.
NoTerm == ~exitting /\ ~sigterm /\ "E_SIGTERM" \notin Range(save_queue)

\* A positive time on its way to the disk is the network's.
NetWord(m) == m.sec > 0 => m.net

OnlyNet ==
    /\ clock.sec >= 0 /\ last_time.sec >= 0
    /\ last_sync_type = "NET" => last_time.net
    /\ \A i \in 1 .. Len(time_pipe) : NetWord(time_pipe[i])
    /\ Applying /\ save => tv.net

DiskInv == NoTerm /\ TvSane /\ BeliefSane /\ OnlyNet /\ DiskIsNetTime

\* A living setter that has answered has answered TIME_SET.
Answered ==
    /\ setter = "start" => status = "UNINIT"
    /\ setter = "read" => status \in {"UNINIT", "TIME_SET"}
    /\ setter = "notify" => status = "TIME_SET"
    /\ setter # "dead" => \A i \in 1 .. Len(notify_pipe) : notify_pipe[i] = "TIME_SET"

\* The clock is set before anything else is written.
ClockSet == setter \in {"rtc_write", "save"} => clock = tv

\* The poll reports a hangup only if the setter is dead.
HangupTrue == daemon = "up" /\ "E_SAVE_HUP" \in Range(save_queue) => setter = "dead"

\* What the clock will show once the setter has done all it was told to.
Heading ==
    IF time_pipe # <<>> THEN Magnitude(time_pipe[Len(time_pipe)])
    ELSE IF Applying THEN tv ELSE clock

\* The daemon has handed its belief to the setter, and is not going down.
Told == /\ daemon = "up" /\ ~exitting
        /\ setter \notin {"die", "dead"}
        /\ "E_SAVE" \notin armed

HeadsForBelief == Told /\ last_sync_type # "RTC" => Heading = last_time

DeltaNoted ==
    Told /\ last_sync_type = "NET" /\ setter = "read" /\ time_pipe = <<>> /\ notify_pipe = <<>>
        => clock_delta = clock.sec

BeliefInv ==
    /\ TvSane /\ BeliefSane /\ Answered /\ ClockSet /\ HangupTrue
    /\ HeadsForBelief /\ DeltaNoted

-----------------------------------------------------------------------------
(* The inductive invariant of a graceful exit.                             *)

\* The clock never shows the epoch itself, whose word would end the setter.
NoEpoch ==
    /\ clock.sec # 0
    /\ daemon = "up" /\ ~exitting => last_time.sec # 0

\* Nothing on its way to the setter asks it to exit, and nothing has.
NotAsked == status # "EXIT" /\ \A i \in 1 .. Len(time_pipe) : time_pipe[i].sec # 0

TermNoted == term_sync = "NET" /\ is_sane_time(term_time.sec)

\* The shutdown is the next thing to be written.
ToBeSaved ==
    /\ daemon = "up" /\ exitting
    /\ last_sync_type = "NET" /\ last_time = term_time
    /\ "E_SAVE" \in armed /\ Writable
    /\ \/ loop = "poll"
       \/ /\ loop = "run" /\ save_queue # <<>>
          /\ Head(save_queue) = "E_SAVE" \/ "E_SIGTERM" \notin Range(save_queue)

\* It is in the pipe, behind words that do not end the setter.
Sent ==
    /\ status # "EXIT"
    /\ \E k \in 1 .. (Len(time_pipe) - 1) :
            /\ time_pipe[k] = term_time /\ time_pipe[k + 1].sec = 0
            /\ \A i \in 1 .. k : time_pipe[i].sec # 0

LastWordNext == time_pipe # <<>> /\ Head(time_pipe).sec = 0

TermStage ==
    \/ NotAsked /\ (ToBeSaved \/ daemon = "down")
    \/ Sent
    \/ Applying /\ tv = term_time /\ save /\ status # "EXIT" /\ LastWordNext
    \/ setter \in {"notify", "read"} /\ disk = term_time /\ LastWordNext
    \/ setter \in {"die", "dead"} /\ (disk = term_time \/ status # "EXIT")

\* SIGTERM is only caught when there is a disk to save to.
CanSave ==
    /\ exitting \/ sigterm \/ "E_SIGTERM" \in Range(save_queue) => should_save_disk
    /\ TermNoted => should_save_disk

BeforeTerm == daemon = "up" /\ ~exitting => term_sync = "NONE" /\ NotAsked

GoodbyeInv ==
    /\ TvSane /\ HangupTrue /\ NoEpoch /\ CanSave /\ BeforeTerm
    /\ TermNoted => TermStage

-----------------------------------------------------------------------------
(* What the steps do to the belief.                                        *)

\* How a handler that does not talk to the setter may change the belief: not
\* at all, to what the clock shows, or to a sane time that is to be saved.
Learns ==
    \/ UNCHANGED <<last_sync_type, last_time, clock_delta>>
    \/ last_sync_type' = "RTC" /\ last_time' = clock
    \/ /\ "E_SAVE" \in armed' /\ is_sane_time(last_time'.sec)
       /\ last_sync_type' = "PLATFORM" \/ (last_sync_type' = "NET" /\ last_time'.net)

\* A callback other than those of E_SAVE and SIGTERM that only learns.
Learning ==
    /\ UNCHANGED <<daemon, setter, status, tv, save, time_pipe, notify_pipe, clock, rtc, disk,
                   exitting, term_sync, term_time, sigterm>>
    /\ Learns
    /\ "E_SAVE" \in armed => "E_SAVE" \in armed'
    /\ Range(save_queue') \subseteq Range(save_queue)
    /\ \E e : /\ Callback(e) /\ e \notin {"E_SAVE", "E_SAVE_HUP", "E_SIGTERM"}
              /\ e \in PRI_SAVE => /\ UNCHANGED <<last_sync_type, last_time, clock_delta>>
                                   /\ loop' = IF save_queue' = <<>> THEN "poll" ELSE "run"

\* The daemon ends and leaves the setter to itself.
Leaving ==
    /\ daemon = "up" /\ daemon' = "down" /\ exitting' = FALSE /\ sigterm' = FALSE
    /\ save_queue' = <<>> /\ notify_pipe' = <<>>
    /\ last_sync_type' = "NONE" /\ last_time' = NoTime
    /\ UNCHANGED <<setter, status, tv, save, time_pipe, clock, rtc, disk, term_sync, term_time>>

\* A callback that keeps its frame, and changes the belief as allowed, learns.
LEMMA LearnFrom ==
    ASSUME LoopInv, NEW e, NEW more \in BOOLEAN, NEW added, NEW deleted,
           Callback(e), Ran(e, more, added, deleted),
           e \notin {"E_SAVE", "E_SAVE_HUP", "E_SIGTERM"}, "E_SAVE" \notin deleted,
           UNCHANGED <<daemon, setterVars, exitVars, sigterm>>, Learns,
           e \in PRI_SAVE => UNCHANGED <<last_sync_type, last_time, clock_delta>>
    PROVE  Learning
<1>1. Range(save_queue') \subseteq Range(save_queue)
  BY RanFacts DEF LoopInv
<1>2. /\ "E_SAVE" \in armed => "E_SAVE" \in armed'
      /\ e \in PRI_SAVE => loop' = IF save_queue' = <<>> THEN "poll" ELSE "run"
  BY DEF Ran
<1>3. UNCHANGED <<daemon, setter, status, tv, save, time_pipe, notify_pipe, clock, rtc, disk,
                  exitting, term_sync, term_time, sigterm>>
  BY DEF setterVars, local, pipes, stores, exitVars
<1> QED
  BY <1>1, <1>2, <1>3 DEF Learning

\* action_kickoff_time_sync falls back to the clock or keeps what it is given.
LEMMA KickoffLearns ==
    ASSUME LoopInv, NEW e, NEW more \in BOOLEAN, NEW type, NEW time, NEW delta, NEW added,
           Callback(e), e \in {"E_CONTINUITY", "E_ROUTEUP", "E_STEADYSTATE", "E_DBUS"},
           Kickoff(e, more, type, time, delta, added), KickoffFrame,
           \/ type = last_sync_type /\ time = last_time /\ delta = clock_delta
           \/ type = "RTC" /\ time = clock
           \/ /\ type = "PLATFORM" /\ is_sane_time(time.sec) /\ "E_SAVE" \in added
    PROVE  Learning
<1>1. \E a : Ran(e, more, a, {}) /\ added \subseteq a
  BY DEF Kickoff
<1>2. "E_SAVE" \in added => "E_SAVE" \in armed'
  BY <1>1 DEF Ran
<1>3. Learns
  <2>1. CASE Desync(delta)
    BY <2>1 DEF Kickoff, Learns
  <2>2. CASE ~Desync(delta)
    BY <1>2, <2>2 DEF Kickoff, KeptDelta, Learns
  <2> QED
    BY <2>1, <2>2
<1>4. UNCHANGED <<daemon, setterVars, exitVars, sigterm>> /\ e \notin PRI_SAVE
  BY DEF KickoffFrame, signalVars, PRI_SAVE
<1> QED
  BY <1>1, <1>3, <1>4, LearnFrom

\* What Exit leaves behind.
LEMMA ExitLeaves ==
    ASSUME Exit, daemon = "up", UNCHANGED <<setter, local, time_pipe, stores>> PROVE Leaving
BY DEF Exit, Blank, Leaving, local, stores

\* Every handler learns, leaves, or is one of those that talk to the setter.
LEMMA HandlerEffect ==
    ASSUME LoopInv, Handler
    PROVE  \/ Learning \/ Leaving
           \/ action_sigterm \/ action_sync_and_save \/ SaveHangup
           \/ action_time_set /\ ~Exit
<1> USE DEF PRI_SAVE
<1>1. CASE \E e \in Wakes : action_kickoff_time_sync(e)
  BY <1>1, KickoffLearns DEF action_kickoff_time_sync
<1>2. CASE StdinBroken
  BY <1>2, LearnFrom DEF StdinBroken, Return, KickoffFrame, signalVars, timeVars, Learns
<1>3. CASE action_invalidate_time
  <2>1. CASE Return("E_STEADYSTATE", {}, {}) /\ UNCHANGED <<tries, timeVars>>
    BY <1>3, <2>1, LearnFrom DEF action_invalidate_time, Return, KickoffFrame, signalVars,
                                 timeVars, Learns
  <2>2. CASE Kickoff("E_STEADYSTATE", FALSE, "RTC", clock, clock_delta, {})
    BY <1>3, <2>2, KickoffLearns DEF action_invalidate_time
  <2> QED
    BY <1>3, <2>1, <2>2 DEF action_invalidate_time
<1>4. CASE SaveSigpipe \/ SetterLost
  BY <1>4, ExitLeaves DEF SaveSigpipe, SetterLost, Callback
<1>5. CASE action_time_set
  BY <1>5, ExitLeaves DEF action_time_set, Callback
<1>6. CASE action_run_tlsdate
  <2>1. \/ Ran("E_TLSDATE", FALSE, {}, {})
        \/ Ran("E_TLSDATE", FALSE, {"E_TLSDATE_TIMEOUT", "E_TLSDATE_STATUS"}, {})
        \/ Ran("E_TLSDATE", FALSE, {"E_TLSDATE_STATUS"}, {"E_TLSDATE_TIMEOUT"})
    BY <1>6 DEF action_run_tlsdate, Launched, LaunchFailed, Return
  <2>2. /\ Callback("E_TLSDATE") /\ UNCHANGED <<daemon, setterVars, exitVars, sigterm>>
        /\ Learns
    BY <1>6 DEF action_run_tlsdate, signalVars, timeVars, Learns
  <2> QED
    BY <2>1, <2>2, LearnFrom
<1>7. CASE action_tlsdate_timeout
  BY <1>7, LearnFrom DEF action_tlsdate_timeout, Return, timeVars, Learns
<1>8. CASE action_tlsdate_status
  <2>1. \E added : Ran("E_TLSDATE_STATUS", FALSE, added, {}) 
    BY <1>8 DEF action_tlsdate_status, Return
  <2>2. Learns
    BY <1>8 DEF action_tlsdate_status, Return, Ran, timeVars, Learns, FromNet
  <2> QED
    BY <1>8, <2>1, <2>2, LearnFrom DEF action_tlsdate_status, signalVars
<1>9. CASE action_sigchld
  <2>1. \/ Ran("E_SIGCHLD", FALSE, {}, {})
        \/ \E added : Ran("E_SIGCHLD", FALSE, added, {"E_TLSDATE_TIMEOUT"})
    BY <1>9 DEF action_sigchld, ReapTlsdate, Return
  <2>2. /\ Callback("E_SIGCHLD") /\ UNCHANGED <<daemon, setterVars, exitVars, sigterm>>
        /\ Learns
    BY <1>9 DEF action_sigchld, timeVars, Learns
  <2> QED
    BY <2>1, <2>2, LearnFrom
<1>10. ASSUME NEW more \in BOOLEAN, service_dispatch(more) PROVE Learning
  <2>1. ASSUME UNCHANGED timeVars, Callback("E_DBUS"), Ran("E_DBUS", more, {}, {}), KickoffFrame
        PROVE  Learning
    BY <2>1, LearnFrom DEF KickoffFrame, signalVars, timeVars, Learns
  <2>2. CASE handle_last_sync_info(more)
    BY <2>1, <2>2 DEF handle_last_sync_info
  <2>3. CASE handle_can_set_time(more)
    <3>1. Learns
      BY <2>3 DEF handle_can_set_time, timeVars, Learns
    <3> QED
      BY <2>3, <3>1, LearnFrom DEF handle_can_set_time, KickoffFrame, signalVars
  <2>4. ASSUME NEW t \in Requests, handle_set_time(t, more) PROVE Learning
    <3>1. Callback("E_DBUS") /\ KickoffFrame
      BY <2>4 DEF handle_set_time
    <3>2. CASE Ran("E_DBUS", more, {}, {}) /\ UNCHANGED <<timeVars, tries>>
      BY <2>1, <3>1, <3>2
    <3>3. CASE is_sane_time(t) /\ Kickoff("E_DBUS", more, "PLATFORM", Local(t), 0, {"E_SAVE"})
      <4>1. is_sane_time(Local(t).sec)
        BY <3>3 DEF Local
      <4> QED
        BY <3>1, <3>3, <4>1, KickoffLearns
    <3> QED
      BY <2>4, <3>2, <3>3 DEF handle_set_time
  <2> QED
    BY <1>10, <2>2, <2>3, <2>4 DEF service_dispatch
<1> QED
  BY <1>1, <1>2, <1>3, <1>4, <1>5, <1>6, <1>7, <1>8, <1>9, <1>10 DEF Handler
\* The variables that the invariants of this module are about.
beliefVars == <<daemon, setter, status, tv, save, time_pipe, notify_pipe, clock, rtc, disk,
                last_sync_type, last_time, clock_delta, exitting, term_sync, term_time,
                armed, save_queue, loop, sigterm>>

\* A poll: what it may find, and that E_SAVE comes first.
Polled ==
    /\ daemon = "up" /\ loop' = "run" /\ sigterm' = FALSE
    /\ "E_SIGTERM" \in Range(save_queue') => sigterm
    /\ "E_SAVE_HUP" \in Range(save_queue') => setter = "dead"
    /\ "E_SAVE" \in Range(save_queue') => "E_SAVE" \in armed
    /\ "E_SAVE" \in armed /\ setter # "dead" /\ Writable
            => save_queue' # <<>> /\ Head(save_queue') = "E_SAVE"
    /\ UNCHANGED <<daemon, setter, status, tv, save, time_pipe, notify_pipe, clock, rtc, disk,
                   last_sync_type, last_time, clock_delta, exitting, term_sync, term_time, armed>>

\* A SIGTERM arrives.
Caught ==
    /\ daemon = "up" /\ should_save_disk
    /\ exitting \/ "sigterm" \in Faults
    /\ sigterm' = TRUE
    /\ UNCHANGED <<daemon, setter, status, tv, save, time_pipe, notify_pipe, clock, rtc, disk,
                   last_sync_type, last_time, clock_delta, exitting, term_sync, term_time,
                   armed, save_queue, loop>>

\* The setter makes a step or is killed.
SetterMoves ==
    /\ SetterStep \/ SetterKilled
    /\ UNCHANGED <<daemon, last_sync_type, last_time, clock_delta, exitting, term_sync, term_time,
                   armed, save_queue, loop, sigterm>>

\* A poll finds a signal only if it was caught, and a hangup only if the
\* setter is dead.
LEMMA PollsPolled == ASSUME LoopInv, Polls PROVE Polled
<1>1. PICK due \in SUBSET MayBeDue : Poll(due)
  BY DEF Polls
<1>2. /\ Range(save_queue') \subseteq PRI_SAVE \cap (Ready \cup due)
      /\ "E_SAVE" \in Ready => save_queue' # <<>> /\ Head(save_queue') = "E_SAVE"
  BY <1>1, PollFacts DEF LoopInv
<1>3. "E_SIGTERM" \notin due /\ "E_SAVE_HUP" \notin due /\ "E_SAVE" \notin due
  BY DaemonAssumption DEF MayBeDue, Timers, WakeEvents
<1>4. /\ "E_SIGTERM" \in Ready => sigterm
      /\ "E_SAVE_HUP" \in Ready => setter = "dead"
      /\ "E_SAVE" \in Ready => "E_SAVE" \in armed
      /\ "E_SAVE" \in armed /\ setter # "dead" /\ Writable => "E_SAVE" \in Ready
  BY DEF Ready
<1>5. /\ daemon = "up" /\ loop' = "run" /\ sigterm' = FALSE
      /\ UNCHANGED <<daemon, setter, status, tv, save, time_pipe, notify_pipe, clock, rtc, disk,
                     last_sync_type, last_time, clock_delta, exitting, term_sync, term_time, armed>>
  BY <1>1 DEF Poll, setterVars, local, pipes, stores, timeVars, exitVars
<1> QED
  BY <1>2, <1>3, <1>4, <1>5 DEF Polled

\* Every step is one of these.
LEMMA NextEffect ==
    ASSUME LoopInv, [Next]_vars
    PROVE  \/ Main \/ PowerLoss \/ ClockJump
           \/ Polled \/ Caught \/ SetterMoves
           \/ Learning \/ Leaving
           \/ action_sigterm \/ action_sync_and_save \/ SaveHangup
           \/ action_time_set /\ ~Exit
           \/ UNCHANGED beliefVars
<1> USE DEF setterVars, local, pipes, stores, timeVars, exitVars, eventVars, signalVars
<1>1. CASE Polls
  BY <1>1, PollsPolled
<1>2. CASE Handler
  BY <1>2, HandlerEffect
<1>3. CASE Coprocess \/ CoprocessKilled
  BY <1>3 DEF Coprocess, CoprocessKilled, CoprocessFrame, SetterMoves
<1>4. CASE ChildWrites \/ ChildExits \/ StopChild \/ UNCHANGED vars
  BY <1>4 DEF ChildWrites, ChildExits, StopChild, vars, beliefVars
<1>5. CASE Sigterm
  <2>1. CASE Exit
    BY <1>5, <2>1, ExitLeaves DEF Sigterm
  <2>2. CASE ~Exit
    BY <1>5, <2>2 DEF Sigterm, Caught
  <2> QED
    BY <2>1, <2>2
<1> QED
  BY <1>1, <1>2, <1>3, <1>4, <1>5 DEF Next, Environment

\* The pipe after its first word has been taken.
LEMMA UnreadFacts ==
    ASSUME SetterTypeOK, time_pipe # <<>>, time_pipe' = Tail(time_pipe)
    PROVE  /\ Len(time_pipe) \in Nat \ {0} /\ Len(time_pipe') = Len(time_pipe) - 1
           /\ \A i \in 1 .. Len(time_pipe') : time_pipe'[i] = time_pipe[i + 1]
           /\ Head(time_pipe) = time_pipe[1] /\ Head(time_pipe) \in Time
<1>1. time_pipe \in Seq(Time)
  BY DEF SetterTypeOK
<1> QED
  BY <1>1, HeadTailProperties, HeadFacts

\* The pipe after E_SAVE.
LEMMA SaveWrites ==
    ASSUME LoopInv, action_sync_and_save
    PROVE  /\ Len(time_pipe) \in Nat /\ SaveWord \in Time
           /\ \/ setter = "dead" /\ UNCHANGED <<time_pipe, last_time>>
              \/ /\ setter # "dead" /\ ~(exitting /\ last_time.sec # 0) /\ UNCHANGED last_time
                 /\ Len(time_pipe') = Len(time_pipe) + 1
                 /\ time_pipe'[Len(time_pipe) + 1] = SaveWord
                 /\ \A i \in 1 .. Len(time_pipe) : time_pipe'[i] = time_pipe[i]
              \/ /\ setter # "dead" /\ exitting /\ last_time.sec # 0 /\ last_time' = NoTime
                 /\ Len(time_pipe') = Len(time_pipe) + 2
                 /\ time_pipe'[Len(time_pipe) + 1] = SaveWord
                 /\ time_pipe'[Len(time_pipe) + 2] = NoTime
                 /\ \A i \in 1 .. Len(time_pipe) : time_pipe'[i] = time_pipe[i]
<1>1. time_pipe \in Seq(Time) /\ Len(time_pipe) \in Nat /\ SaveWord \in Time
  BY TimeFacts, LenProperties DEF LoopInv, TypeOK, SetterTypeOK, SaveWord
<1>2. CASE setter # "dead" /\ ~(exitting /\ last_time.sec # 0)
  <2>0. time_pipe' = Append(time_pipe, SaveWord) /\ UNCHANGED last_time
    BY <1>2 DEF action_sync_and_save
  <2>1. /\ Len(time_pipe') = Len(time_pipe) + 1
        /\ time_pipe'[Len(time_pipe) + 1] = SaveWord
        /\ \A i \in 1 .. Len(time_pipe) : time_pipe'[i] = time_pipe[i]
    BY <1>1, <2>0, AppendProperties
  <2> QED
    BY <1>1, <1>2, <2>0, <2>1
<1>3. CASE setter # "dead" /\ exitting /\ last_time.sec # 0
  <2>0. time_pipe' = time_pipe \o ShutdownWords /\ last_time' = NoTime
    BY <1>3 DEF action_sync_and_save
  <2>1. /\ ShutdownWords \in Seq(Time) /\ Len(ShutdownWords) = 2
        /\ ShutdownWords[1] = SaveWord /\ ShutdownWords[2] = NoTime
    BY <1>1, TimeFacts DEF ShutdownWords
  <2>2. /\ Len(time_pipe \o ShutdownWords) = Len(time_pipe) + Len(ShutdownWords)
        /\ \A i \in 1 .. Len(time_pipe) + Len(ShutdownWords) : (time_pipe \o ShutdownWords)[i] =
            IF i <= Len(time_pipe) THEN time_pipe[i] ELSE ShutdownWords[i - Len(time_pipe)]
    BY <1>1, <2>1, ConcatProperties
  <2> HIDE DEF ShutdownWords
  <2>3. /\ Len(time_pipe') = Len(time_pipe) + 2
        /\ \A i \in 1 .. Len(time_pipe) + 2 : time_pipe'[i] =
            IF i <= Len(time_pipe) THEN time_pipe[i] ELSE ShutdownWords[i - Len(time_pipe)]
    BY <2>0, <2>1, <2>2
  <2>4. /\ time_pipe'[Len(time_pipe) + 1] = SaveWord
        /\ time_pipe'[Len(time_pipe) + 2] = NoTime
        /\ \A i \in 1 .. Len(time_pipe) : time_pipe'[i] = time_pipe[i]
    BY <1>1, <2>1, <2>3
  <2> QED
    BY <1>1, <1>3, <2>0, <2>3, <2>4
<1>4. CASE setter = "dead"
  BY <1>1, <1>4 DEF action_sync_and_save
<1> QED
  BY <1>2, <1>3, <1>4

\* What else E_SAVE leaves alone.
LEMMA SaveFrame ==
    ASSUME LoopInv, action_sync_and_save
    PROVE  /\ daemon = "up" /\ armed' = armed \ {"E_SAVE"}
           /\ Range(save_queue') \subseteq Range(save_queue) \ {"E_SAVE"}
           /\ UNCHANGED <<daemon, setter, status, tv, save, notify_pipe, clock, rtc, disk,
                          last_sync_type, clock_delta, exitting, term_sync, term_time, sigterm>>
<1>1. Callback("E_SAVE") /\ Ran("E_SAVE", FALSE, {}, {})
  BY DEF action_sync_and_save, Return
<1>2. Range(save_queue') \subseteq Range(save_queue) \ {"E_SAVE"}
  BY <1>1, RanFacts DEF LoopInv
<1>3. daemon = "up" /\ armed' = armed \ {"E_SAVE"}
  BY <1>1 DEF Callback, Ran, OneShot
<1> QED
  BY <1>2, <1>3 DEF action_sync_and_save, local, stores, exitVars, signalVars

\* The callback that runs is in its queue.
LEMMA CallbackQueued ==
    ASSUME LoopInv, NEW e, Callback(e), e \in PRI_SAVE PROVE e \in Range(save_queue)
<1>1. save_queue # <<>> /\ Head(save_queue) = e /\ save_queue \in Seq(PRI_SAVE)
  BY DEF Callback, LoopInv, QueuesOK
<1>2. Len(save_queue) \in Nat \ {0} /\ save_queue[1] = e
  BY <1>1, EmptySeq
<1> QED
  BY <1>1, <1>2, RangeFacts

\* What a hangup leaves alone.
LEMMA HangupFrame ==
    ASSUME LoopInv, SaveHangup
    PROVE  /\ daemon = "up" /\ "E_SAVE_HUP" \in Range(save_queue)
           /\ Range(save_queue') \subseteq Range(save_queue)
           /\ UNCHANGED <<daemon, setter, status, tv, save, time_pipe, notify_pipe, clock, rtc, disk,
                          last_sync_type, last_time, clock_delta, exitting, term_sync, term_time,
                          sigterm>>
<1>1. Callback("E_SAVE_HUP") /\ Ran("E_SAVE_HUP", FALSE, {}, {})
  BY DEF SaveHangup, Return
<1>2. Range(save_queue') \subseteq Range(save_queue) /\ "E_SAVE_HUP" \in Range(save_queue)
  BY <1>1, RanFacts, CallbackQueued DEF LoopInv, PRI_SAVE
<1> QED
  BY <1>1, <1>2 DEF SaveHangup, Callback, setterVars, local, pipes, stores, timeVars, exitVars, signalVars

\* A status word changes the belief only to what the clock shows, and the
\* delta only while the belief is the network's.
LEMMA TimeSetFrame ==
    ASSUME LoopInv, action_time_set, ~Exit
    PROVE  /\ daemon = "up" /\ armed' = armed
           /\ Callback("E_TIME_SET")
           /\ Range(save_queue') \subseteq Range(save_queue)
           /\ UNCHANGED <<daemon, setter, status, tv, save, time_pipe, clock, rtc, disk,
                          exitting, term_sync, term_time, sigterm>>
           /\ \/ UNCHANGED <<last_sync_type, last_time>>
              \/ last_sync_type' = "RTC" /\ last_time' = clock
<1>1. Callback("E_TIME_SET") /\ Ran("E_TIME_SET", FALSE, {}, {})
  BY DEF action_time_set, Return
<1>2. Range(save_queue') \subseteq Range(save_queue)
  BY <1>1, RanFacts DEF LoopInv
<1>3. daemon = "up" /\ armed' = armed
  BY <1>1 DEF Callback, Ran, OneShot, Timers
<1>4. \/ UNCHANGED <<last_sync_type, last_time>>
      \/ last_sync_type' = "RTC" /\ last_time' = clock
  BY DEF action_time_set, handle_time_setter, timeVars
<1>5. UNCHANGED <<daemon, setter, status, tv, save, time_pipe, clock, rtc, disk,
                  exitting, term_sync, term_time, sigterm>>
  BY DEF action_time_set, local, stores, exitVars, signalVars
<1> QED
  BY <1>1, <1>2, <1>3, <1>4, <1>5

\* What SIGTERM leaves alone.
LEMMA SigtermFrame ==
    ASSUME LoopInv, action_sigterm
    PROVE  /\ daemon = "up" /\ exitting' = TRUE /\ last_time' = clock
           /\ Callback("E_SIGTERM") /\ "E_SIGTERM" \in Range(save_queue)
           /\ Range(save_queue') \subseteq Range(save_queue) \ {"E_SIGTERM"}
           /\ "E_SAVE" \in armed'
           /\ loop' = IF save_queue' = <<>> THEN "poll" ELSE "run"
           /\ UNCHANGED <<daemon, setter, status, tv, save, time_pipe, notify_pipe, clock, rtc, disk,
                          last_sync_type, clock_delta, sigterm>>
<1>1. Callback("E_SIGTERM") /\ Ran("E_SIGTERM", FALSE, {"E_SAVE"}, {})
  BY DEF action_sigterm, Return
<1>2. /\ Range(save_queue') \subseteq Range(save_queue) \ {"E_SIGTERM"}
      /\ "E_SIGTERM" \in Range(save_queue)
  BY <1>1, RanFacts, CallbackQueued DEF LoopInv, PRI_SAVE
<1>3. "E_SAVE" \in armed' /\ loop' = IF save_queue' = <<>> THEN "poll" ELSE "run"
  BY <1>1 DEF Ran, PRI_SAVE
<1> QED
  BY <1>1, <1>2, <1>3
     DEF action_sigterm, Callback, setterVars, local, pipes, stores, timeVars, signalVars

-----------------------------------------------------------------------------
(* Only sane times are believed and applied.                               *)

\* Every step keeps TvSane: the setter checks the word it has read.
LEMMA NextTvSane == ASSUME LoopInv, TvSane, [Next]_vars PROVE TvSane'
<1>1. CASE Main \/ PowerLoss
  BY <1>1 DEF Main, PowerLoss, TvSane, Applying
<1>2. CASE SetterMoves
  BY <1>2 DEF SetterMoves, SetterStep, SetterKilled, Start, ReadTime, FirstStep, ReadEnd, SetTimeOfDay,
              AfterClock, RtcWrite, SaveTimestamp, Notify, Die, TvSane, Applying, local
<1>3. CASE UNCHANGED <<setter, tv>>
  BY <1>3 DEF TvSane, Applying
<1>4. CASE ClockJump \/ Polled \/ Caught \/ Learning \/ Leaving \/ UNCHANGED beliefVars
  BY <1>3, <1>4 DEF ClockJump, Polled, Caught, Learning, Leaving, beliefVars, local
<1>5. CASE action_sigterm \/ action_sync_and_save \/ SaveHangup \/ (action_time_set /\ ~Exit)
  BY <1>3, <1>5, SigtermFrame, SaveFrame, HangupFrame, TimeSetFrame
<1> QED
  BY <1>1, <1>2, <1>4, <1>5, NextEffect

\* main() chooses a sane time.
LEMMA MainSane ==
    ASSUME Main
    PROVE  is_sane_time(last_time'.sec) /\ last_sync_type' \in {"DISK", "RTC", "BUILD"}
BY DatesAssumption
   DEF Main, StartupTime, StartWith, DiskBetter, DiskTime, is_sane_time, Local

\* Every step keeps BeliefSane.
LEMMA NextBeliefSane == ASSUME LoopInv, BeliefSane, [Next]_vars PROVE BeliefSane'
<1>1. CASE Main
  BY <1>1, MainSane DEF BeliefSane
<1>2. CASE PowerLoss \/ Leaving
  BY <1>2 DEF PowerLoss, Exit, Leaving, BeliefSane
<1>3. CASE UNCHANGED <<daemon, exitting, last_sync_type, last_time>>
  BY <1>3 DEF BeliefSane
<1>4. CASE ClockJump \/ Polled \/ Caught \/ SetterMoves \/ SaveHangup \/ UNCHANGED beliefVars
  BY <1>3, <1>4, HangupFrame
     DEF ClockJump, Polled, Caught, SetterMoves, beliefVars, timeVars, exitVars
<1>5. CASE Learning
  BY <1>5 DEF Learning, Learns, BeliefSane
<1>6. CASE action_sigterm
  BY <1>6, SigtermFrame DEF BeliefSane
<1>7. CASE action_sync_and_save
  BY <1>7, SaveFrame, SaveWrites DEF BeliefSane
<1>8. CASE action_time_set /\ ~Exit
  BY <1>8, TimeSetFrame DEF BeliefSane
<1> QED
  BY <1>1, <1>2, <1>4, <1>5, <1>6, <1>7, <1>8, NextEffect

-----------------------------------------------------------------------------
(* Only network times on disk.                                             *)

\* Without a SIGTERM nobody asks the daemon to go down.
LEMMA NextNoTerm == ASSUME LoopInv, NoTerm, "sigterm" \notin Faults, [Next]_vars PROVE NoTerm'
<1>1. CASE Main \/ PowerLoss \/ Leaving
  BY <1>1 DEF Main, PowerLoss, Exit, Blank, Leaving, NoTerm, Range
<1>2. CASE UNCHANGED <<exitting, sigterm>> /\ Range(save_queue') \subseteq Range(save_queue)
  BY <1>2 DEF NoTerm
<1>3. CASE ClockJump \/ SetterMoves \/ Learning \/ UNCHANGED beliefVars
  BY <1>2, <1>3 DEF ClockJump, SetterMoves, Learning, beliefVars, exitVars, signalVars, eventVars
<1>4. CASE action_sync_and_save \/ SaveHangup \/ (action_time_set /\ ~Exit)
  BY <1>2, <1>4, SaveFrame, HangupFrame, TimeSetFrame
<1>5. CASE action_sigterm \/ Caught
  BY <1>5, SigtermFrame DEF Caught, NoTerm
<1>6. CASE Polled
  BY <1>6 DEF Polled, NoTerm
<1> QED
  BY <1>1, <1>3, <1>4, <1>5, <1>6, NextEffect

\* What the setter does to OnlyNet: it takes the sign of a word seriously, and
\* sets the clock to a sane time only.
LEMMA SetterOnlyNet == ASSUME LoopInv, TvSane, OnlyNet, SetterMoves PROVE OnlyNet'
<1>0. SetterTypeOK /\ UNCHANGED <<last_time, last_sync_type>>
  BY DEF LoopInv, TypeOK, SetterMoves
<1>1. CASE ReadTime
  <2>1. time_pipe # <<>> /\ time_pipe' = Tail(time_pipe) /\ UNCHANGED clock
    BY <1>1 DEF ReadTime, Unread, stores
  <2>2. \A i \in 1 .. Len(time_pipe') : NetWord(time_pipe'[i])
    <3>1. ASSUME NEW i \in 1 .. Len(time_pipe') PROVE NetWord(time_pipe'[i])
      <4>1. i + 1 \in 1 .. Len(time_pipe) /\ time_pipe'[i] = time_pipe[i + 1]
        BY <1>0, <2>1, UnreadFacts
      <4>2. NetWord(time_pipe[i + 1])
        BY <4>1 DEF OnlyNet
      <4> QED
        BY <4>1, <4>2
    <3> QED
      BY <3>1
  <2>3. NetWord(Head(time_pipe)) /\ Head(time_pipe) \in Time
    BY <1>0, <2>1, UnreadFacts DEF OnlyNet
  <2>4. Applying' /\ save' => tv'.net
    BY <1>1, <2>3, TimeFacts, DatesAssumption
       DEF ReadTime, FirstStep, SavesToDisk, NetWord, is_sane_time, Die, Applying
  <2> QED
    BY <1>0, <2>1, <2>2, <2>4 DEF OnlyNet
<1>2. CASE SetTimeOfDay
  <2>1. clock'.sec >= 0
    BY <1>2, DatesAssumption, TimeFacts
       DEF SetTimeOfDay, TvSane, Applying, is_sane_time, OnlyNet, LoopInv, TypeOK, SetterTypeOK
  <2> QED
    BY <1>0, <1>2, <2>1 DEF SetTimeOfDay, OnlyNet, Applying, pipes
<1>3. CASE Start \/ ReadEnd \/ RtcWrite \/ SaveTimestamp \/ SetterKilled
  BY <1>0, <1>3 DEF Start, ReadEnd, RtcWrite, SaveTimestamp, SetterKilled, Die, OnlyNet, Applying,
                    local, pipes, stores
<1>4. CASE Notify
  BY <1>0, <1>4 DEF Notify, OnlyNet, Applying, stores
<1> QED
  BY <1>1, <1>2, <1>3, <1>4 DEF SetterMoves, SetterStep

\* E_SAVE negates every time that is not the network's.
LEMMA SaveOnlyNet == ASSUME LoopInv, NoTerm, OnlyNet, action_sync_and_save PROVE OnlyNet'
<1>1. last_time \in Time /\ last_time.sec \in Int
  BY TimeFacts DEF LoopInv, TypeOK
<1>2. NetWord(SaveWord) /\ NetWord(NoTime)
  BY <1>1 DEF SaveWord, NetWord, OnlyNet, Negated, NoTime
<1>3. \A i \in 1 .. Len(time_pipe') : NetWord(time_pipe'[i])
  <2>1. Len(time_pipe) \in Nat /\ \A i \in 1 .. Len(time_pipe) : NetWord(time_pipe[i])
    BY SaveWrites DEF OnlyNet
  <2> QED
    BY <1>2, <2>1, SaveWrites
<1>4. last_time'.sec >= 0 /\ (last_sync_type' = "NET" => last_time'.net)
  BY SaveWrites, SaveFrame DEF NoTerm, OnlyNet
<1> QED
  BY <1>3, <1>4, SaveFrame DEF OnlyNet, Applying

\* Every step keeps OnlyNet.
LEMMA NextOnlyNet ==
    ASSUME LoopInv, NoTerm, TvSane, BeliefSane, OnlyNet, [Next]_vars PROVE OnlyNet'
<1>1. CASE Main
  <2>1. last_time'.sec >= 0 /\ last_sync_type' # "NET"
    <3>1. last_time'.sec \in Int
      BY <1>1, NextLoop, TimeFacts DEF LoopInv, TypeOK
    <3> QED
      BY <1>1, <3>1, MainSane, DatesAssumption DEF is_sane_time
  <2> QED
    BY <1>1, <2>1, EmptySeq DEF Main, OnlyNet, Applying, stores
<1>2. CASE PowerLoss
  <2>1. clock'.sec >= 0
    BY <1>2, DaemonAssumption DEF PowerLoss, Local
  <2> QED
    BY <1>2, <2>1, EmptySeq DEF PowerLoss, Exit, OnlyNet, Applying, NoTime
<1>3. CASE Leaving
  BY <1>3 DEF Leaving, OnlyNet, Applying, NoTime
<1>4. CASE ClockJump
  <2>1. clock'.sec >= 0
    BY <1>4, DaemonAssumption DEF ClockJump, Local
  <2> QED
    BY <1>4, <2>1 DEF ClockJump, OnlyNet, Applying, local, pipes, timeVars
<1>5. CASE Polled \/ Caught \/ SaveHangup \/ UNCHANGED beliefVars
  BY <1>5, HangupFrame DEF Polled, Caught, beliefVars, OnlyNet, Applying
<1>6. CASE Learning
  <2>1. CASE is_sane_time(last_time'.sec) /\ (last_sync_type' = "NET" => last_time'.net)
    <3>1. last_time'.sec \in Int
      BY NextLoop, TimeFacts DEF LoopInv, TypeOK
    <3>2. last_time'.sec >= 0
      BY <2>1, <3>1, DatesAssumption DEF is_sane_time
    <3> QED
      BY <1>6, <2>1, <3>2 DEF Learning, OnlyNet, Applying
  <2>2. CASE UNCHANGED <<last_time, last_sync_type>> \/ (last_sync_type' = "RTC" /\ last_time' = clock)
    BY <1>6, <2>2 DEF Learning, OnlyNet, Applying
  <2> QED
    BY <1>6, <2>1, <2>2 DEF Learning, Learns
<1>7. CASE action_time_set /\ ~Exit
  BY <1>7, TimeSetFrame DEF OnlyNet, Applying
<1>8. CASE action_sigterm
  BY <1>8, SigtermFrame DEF NoTerm
<1> QED
  BY <1>1, <1>2, <1>3, <1>4, <1>5, <1>6, <1>7, <1>8, SetterOnlyNet, SaveOnlyNet, NextEffect

\* Every step keeps DiskInv: only the setter writes to the disk.
LEMMA NextDisk ==
    "sigterm" \notin Faults /\ LoopInv /\ DiskInv /\ [Next]_vars => DiskInv'
<1> SUFFICES ASSUME "sigterm" \notin Faults, LoopInv, DiskInv, [Next]_vars PROVE DiskInv'
  OBVIOUS
<1>1. NoTerm /\ TvSane /\ BeliefSane /\ OnlyNet /\ DiskIsNetTime
  BY DEF DiskInv
<1>2. DiskIsNetTime'
  <2>1. CASE SetterMoves
    BY <1>1, <2>1
       DEF SetterMoves, SetterStep, SetterKilled, Start, ReadTime, ReadEnd, SetTimeOfDay, RtcWrite,
           SaveTimestamp, Notify, DiskIsNetTime, TvSane, OnlyNet, Applying, stores
  <2>2. CASE UNCHANGED disk
    BY <1>1, <2>2 DEF DiskIsNetTime
  <2>3. CASE ~SetterMoves
    BY <2>2, <2>3, NextEffect, SigtermFrame, SaveFrame, HangupFrame, TimeSetFrame
       DEF Main, PowerLoss, ClockJump, Polled, Caught, Learning, Leaving, beliefVars, stores
  <2> QED
    BY <2>1, <2>3
<1> QED
  BY <1>1, <1>2, NextNoTerm, NextTvSane, NextBeliefSane, NextOnlyNet DEF DiskInv

\* As long as nobody sends SIGTERM, the timestamp file holds no time or a sane
\* one that a network source has given: whatever clocks jump to, D-Bus clients
\* ask for, and whenever daemon, setter or machine go down.
THEOREM DiskHoldsNetTimes ==
    ASSUME "sigterm" \notin Faults
    PROVE  Spec => []DiskIsNetTime
<1>1. Init => DiskInv
  <2>1. ASSUME Init PROVE DiskInv
    <3>1. clock.sec >= 0 /\ DiskIsNetTime
      BY <2>1, DaemonAssumption DEF Init, Local, FromNet, DiskIsNetTime
    <3>2. NoTerm /\ TvSane /\ BeliefSane /\ OnlyNet
      BY <2>1, <3>1, EmptySeq DEF Init, NoTerm, TvSane, BeliefSane, OnlyNet, Applying, NoTime, Range
    <3> QED
      BY <3>1, <3>2 DEF DiskInv
  <2> QED
    BY <2>1
<1>2. LoopInv /\ DiskInv /\ [Next]_vars => DiskInv'
  BY NextDisk
<1>3. DiskInv => DiskIsNetTime
  BY DEF DiskInv
<1> QED
  BY <1>1, <1>2, <1>3, LoopInvariance, PTL DEF Spec

-----------------------------------------------------------------------------
(* The daemon's belief.                                                    *)

\* Every step keeps Answered: the first word is sane, so that there is a
\* status to answer an insane one with.
LEMMA NextAnswered == ASSUME LoopInv, FirstWord, Answered, [Next]_vars PROVE Answered'
<1>0. /\ SetterTypeOK /\ Len(notify_pipe) \in Nat
      /\ notify_pipe \in Seq(SETTER_STATUS \cup {BOGUS})
  BY LenProperties DEF LoopInv, TypeOK, SetterTypeOK
<1>1. CASE Main \/ PowerLoss
  BY <1>1, EmptySeq DEF Main, PowerLoss, Exit, Blank, Answered
<1>2. CASE Leaving
  BY <1>2, EmptySeq DEF Leaving, Answered
<1>3. CASE UNCHANGED <<setter, status, notify_pipe>>
  BY <1>3 DEF Answered
<1>4. CASE ClockJump \/ Polled \/ Caught \/ Learning \/ UNCHANGED beliefVars
  BY <1>3, <1>4 DEF ClockJump, Polled, Caught, Learning, beliefVars, local, pipes
<1>5. CASE action_sigterm \/ action_sync_and_save \/ SaveHangup
  BY <1>3, <1>5, SigtermFrame, SaveFrame, HangupFrame
<1>6. CASE action_time_set /\ ~Exit
  <2>1. UNCHANGED <<setter, status>>
    BY <1>6, TimeSetFrame
  <2>2. UNCHANGED notify_pipe \/ (notify_pipe # <<>> /\ notify_pipe' = Tail(notify_pipe))
    BY <1>6 DEF action_time_set
  <2>3. CASE notify_pipe # <<>> /\ notify_pipe' = Tail(notify_pipe)
    <3>1. /\ Len(notify_pipe') = Len(notify_pipe) - 1
          /\ \A i \in 1 .. Len(notify_pipe') : notify_pipe'[i] = notify_pipe[i + 1]
      BY <1>0, <2>3, HeadTailProperties
    <3> QED
      BY <1>0, <2>1, <3>1 DEF Answered
  <2> QED
    BY <1>3, <2>1, <2>2, <2>3
<1>7. CASE SetterMoves
  <2>1. CASE ReadTime
    <3>1. UNCHANGED notify_pipe /\ time_pipe # <<>> /\ setter = "read"
      BY <2>1 DEF ReadTime
    <3>2. ASSUME setter' = "notify" PROVE status' = "TIME_SET"
      <4>1. CASE is_sane_time(Magnitude(Head(time_pipe)).sec)
        BY <2>1, <3>2, <4>1, DatesAssumption DEF ReadTime, Die, FirstStep, Magnitude, is_sane_time
      <4>2. CASE ~is_sane_time(Magnitude(Head(time_pipe)).sec)
        <5>1. Head(time_pipe) \in Time
          BY <3>1, HeadFacts DEF LoopInv, TypeOK, SetterTypeOK
        <5>2. ~SaneWord(Head(time_pipe))
          BY <4>2, <5>1, TimeFacts, DatesAssumption DEF SaneWord, Magnitude, Negated, is_sane_time
        <5>3. status = "TIME_SET"
          BY <3>1, <5>2 DEF FirstWord, Answered
        <5> QED
          BY <2>1, <3>2, <4>2, <5>3 DEF ReadTime, Die, Magnitude
      <4> QED
        BY <4>1, <4>2
    <3> QED
      BY <2>1, <3>1, <3>2 DEF ReadTime, Die, FirstStep, Answered
  <2>2. CASE Start \/ ReadEnd \/ SetTimeOfDay \/ RtcWrite \/ SaveTimestamp \/ SetterKilled
    BY <2>2 DEF Start, ReadEnd, SetTimeOfDay, AfterClock, RtcWrite, SaveTimestamp, SetterKilled, Die,
                Answered, local, pipes
  <2>3. CASE Notify
    <3>1. CASE setter' = "dead"
      BY <3>1 DEF Answered
    <3>2. CASE setter' # "dead"
      <4>1. setter = "notify" /\ setter' = "read" /\ status = "TIME_SET" /\ UNCHANGED status
        BY <2>3, <3>2 DEF Notify, Answered
      <4>2. notify_pipe' = Append(notify_pipe, "TIME_SET")
        BY <2>3, <3>2, <4>1 DEF Notify, Written
      <4>3. /\ Len(notify_pipe') = Len(notify_pipe) + 1
            /\ notify_pipe'[Len(notify_pipe) + 1] = "TIME_SET"
            /\ \A i \in 1 .. Len(notify_pipe) : notify_pipe'[i] = notify_pipe[i]
        BY <1>0, <4>2, AppendProperties DEF SETTER_STATUS
      <4> QED
        BY <1>0, <4>1, <4>3 DEF Answered
    <3> QED
      BY <3>1, <3>2
  <2> QED
    BY <1>7, <2>1, <2>2, <2>3 DEF SetterMoves, SetterStep
<1> QED
  BY <1>1, <1>2, <1>4, <1>5, <1>6, <1>7, NextEffect

\* Every step keeps ClockSet, when nobody else sets the clock.
LEMMA NextClockSet == ASSUME LoopInv, ClockSet, JumpTimes = {}, [Next]_vars PROVE ClockSet'
<1>1. CASE Main \/ PowerLoss
  BY <1>1 DEF Main, PowerLoss, ClockSet
<1>2. CASE UNCHANGED <<setter, tv, clock>>
  BY <1>2 DEF ClockSet
<1>3. CASE Polled \/ Caught \/ Learning \/ Leaving \/ UNCHANGED beliefVars
  BY <1>2, <1>3 DEF Polled, Caught, Learning, Leaving, beliefVars
<1>4. CASE action_sigterm \/ action_sync_and_save \/ SaveHangup \/ (action_time_set /\ ~Exit)
  BY <1>2, <1>4, SigtermFrame, SaveFrame, HangupFrame, TimeSetFrame
<1>5. CASE SetterMoves
  BY <1>5 DEF SetterMoves, SetterStep, SetterKilled, Start, ReadTime, FirstStep, ReadEnd, SetTimeOfDay,
              AfterClock, RtcWrite, SaveTimestamp, Notify, Die, ClockSet, local
<1> QED
  BY <1>1, <1>3, <1>4, <1>5, NextEffect DEF ClockJump

\* Every step keeps HangupTrue: a dead setter stays dead.
LEMMA NextHangup == ASSUME LoopInv, HangupTrue, [Next]_vars PROVE HangupTrue'
<1>1. CASE Main \/ PowerLoss \/ Leaving
  BY <1>1 DEF Main, PowerLoss, Exit, Blank, Leaving, HangupTrue, Range
<1>2. CASE /\ Range(save_queue') \subseteq Range(save_queue)
           /\ UNCHANGED daemon
           /\ setter = "dead" => setter' = "dead"
  BY <1>2 DEF HangupTrue
<1>3. CASE ClockJump \/ Caught \/ Learning \/ UNCHANGED beliefVars
  BY <1>2, <1>3 DEF ClockJump, Caught, Learning, beliefVars, eventVars
<1>4. CASE action_sigterm \/ action_sync_and_save \/ SaveHangup \/ (action_time_set /\ ~Exit)
  BY <1>2, <1>4, SigtermFrame, SaveFrame, HangupFrame, TimeSetFrame
<1>5. CASE SetterMoves
  <2>1. setter # "dead"
    BY <1>5 DEF SetterMoves, SetterStep, SetterKilled, Start, ReadTime, ReadEnd, SetTimeOfDay,
                RtcWrite, SaveTimestamp, Notify
  <2> QED
    BY <1>2, <1>5, <2>1 DEF SetterMoves
<1>6. CASE Polled
  BY <1>6 DEF Polled, HangupTrue
<1> QED
  BY <1>1, <1>3, <1>4, <1>5, <1>6, NextEffect

\* The word for a sane time stands for that time.
LEMMA SaveWordStandsFor ==
    ASSUME last_time \in Time, is_sane_time(last_time.sec) PROVE Magnitude(SaveWord) = last_time
<1>1. last_time.sec \in Int /\ last_time.sec > 0 /\ -last_time.sec < 0 /\ -(-last_time.sec) = last_time.sec
  BY TimeFacts, DatesAssumption DEF is_sane_time
<1>2. CASE last_sync_type = "NET"
  BY <1>1, <1>2 DEF SaveWord, Magnitude
<1>3. CASE last_sync_type # "NET"
  <2>1. SaveWord = [sec |-> -last_time.sec, net |-> last_time.net]
    BY <1>3 DEF SaveWord, Negated
  <2>2. Magnitude(SaveWord) = [sec |-> last_time.sec, net |-> last_time.net]
    BY <1>1, <2>1 DEF Magnitude, Negated
  <2> QED
    BY <2>2 DEF Time
<1> QED
  BY <1>2, <1>3

\* A step that changes nothing the belief depends on, but may arm E_SAVE or
\* fall back to the clock.
LEMMA BeliefKept ==
    ASSUME HeadsForBelief, DeltaNoted,
           UNCHANGED <<daemon, setter, tv, time_pipe, notify_pipe, clock, exitting>>,
           "E_SAVE" \in armed => "E_SAVE" \in armed',
           \/ UNCHANGED <<last_sync_type, last_time, clock_delta>>
           \/ last_sync_type' = "RTC"
           \/ "E_SAVE" \in armed'
    PROVE  HeadsForBelief' /\ DeltaNoted'
BY DEF HeadsForBelief, DeltaNoted, Told, Heading, Applying

\* The setter heads for the last word it was sent.
LEMMA SetterHeads ==
    ASSUME LoopInv, FirstWord, BeliefInv, ~dry_run, SetterMoves
    PROVE  HeadsForBelief' /\ DeltaNoted'
<1>0. /\ TvSane /\ BeliefSane /\ ClockSet /\ Answered /\ HeadsForBelief /\ DeltaNoted
      /\ SetterTypeOK
      /\ UNCHANGED <<daemon, last_sync_type, last_time, clock_delta, exitting, armed>>
  BY DEF BeliefInv, LoopInv, TypeOK, SetterMoves
<1>1. CASE setter' \in {"die", "dead"}
  BY <1>1 DEF HeadsForBelief, DeltaNoted, Told
<1>2. CASE Start
  <2>1. UNCHANGED <<time_pipe, clock>> /\ setter = "start" /\ setter' \in {"read", "die"}
    BY <1>2 DEF Start, Die, pipes
  <2>2. ASSUME time_pipe = <<>>, Told' PROVE FALSE
    <3>1. daemon = "up" /\ "E_SAVE" \notin armed
      BY <1>0, <2>2 DEF Told
    <3>2. status = "UNINIT"
      BY <1>0, <2>1 DEF Answered
    <3>3. SaveComesFirst
      BY <2>1, <2>2, <3>1, <3>2 DEF FirstWord
    <3> QED
      BY <3>1, <3>3 DEF SaveComesFirst
  <2> QED
    BY <1>0, <1>1, <2>1, <2>2 DEF HeadsForBelief, DeltaNoted, Told, Heading, Applying
<1>3. CASE ReadTime
  <2>1. time_pipe # <<>> /\ time_pipe' = Tail(time_pipe) /\ setter = "read" /\ setter' # "read"
        /\ tv' = Magnitude(Head(time_pipe))
    BY <1>3 DEF ReadTime, Unread, Die, FirstStep, Magnitude
  <2>2. /\ Len(time_pipe) \in Nat \ {0} /\ Len(time_pipe') = Len(time_pipe) - 1
        /\ \A i \in 1 .. Len(time_pipe') : time_pipe'[i] = time_pipe[i + 1]
        /\ Head(time_pipe) = time_pipe[1] /\ Head(time_pipe) \in Time
    BY <1>0, <2>1, UnreadFacts
  <2>3. DeltaNoted'
    BY <2>1 DEF DeltaNoted
  <2>4. ASSUME Told', last_sync_type # "RTC" PROVE Heading' = last_time
    <3>1. Told /\ is_sane_time(last_time.sec)
      BY <1>0, <2>1, <2>4 DEF Told, BeliefSane
    <3>2. Magnitude(time_pipe[Len(time_pipe)]) = last_time
      BY <1>0, <2>1, <2>4, <3>1 DEF HeadsForBelief, Heading
    <3>3. CASE Len(time_pipe) = 1
      <4>1. tv' = last_time
        BY <2>1, <2>2, <3>2, <3>3
      <4>2. setter' = "settimeofday"
        BY <1>3, <2>1, <3>1, <4>1, DatesAssumption DEF ReadTime, Die, FirstStep, Magnitude, is_sane_time
      <4>3. time_pipe' = <<>>
        BY <1>0, <2>1, <2>2, <3>3, HeadTailProperties, EmptySeq DEF SetterTypeOK
      <4> QED
        BY <4>1, <4>2, <4>3 DEF Heading, Applying
    <3>4. CASE Len(time_pipe) > 1
      <4>1. Len(time_pipe') \in 1 .. Len(time_pipe') /\ Len(time_pipe') + 1 = Len(time_pipe)
            /\ Len(time_pipe') # 0
        BY <2>2, <3>4
      <4>2. time_pipe'[Len(time_pipe')] = time_pipe[Len(time_pipe)]
        BY <2>2, <4>1
      <4>3. time_pipe' # <<>>
        BY <4>1
      <4> QED
        BY <3>2, <4>2, <4>3 DEF Heading
    <3> QED
      BY <2>2, <3>3, <3>4
  <2> QED
    BY <1>0, <2>3, <2>4 DEF HeadsForBelief
<1>4. CASE SetTimeOfDay \/ RtcWrite \/ SaveTimestamp
  <2>1. /\ UNCHANGED <<time_pipe, tv>> /\ Applying /\ setter' # "read"
        /\ setter' \in {"rtc_write", "save"} \/ (setter = "save" /\ setter' = "notify" /\ clock' = tv)
                \/ setter' = "die"
    BY <1>0, <1>4 DEF SetTimeOfDay, RtcWrite, SaveTimestamp, AfterClock, Die, ClockSet, Applying, pipes
  <2>2. setter' # "die" => Heading' = Heading
    BY <2>1 DEF Heading, Applying
  <2> QED
    BY <1>0, <1>1, <2>1, <2>2 DEF HeadsForBelief, DeltaNoted, Told, Applying
<1>5. CASE Notify
  <2>1. setter' = "dead" \/ (setter = "notify" /\ setter' = "read")
    BY <1>5 DEF Notify
  <2>2. CASE setter' # "dead"
    <3>1. UNCHANGED <<time_pipe, clock>> /\ setter = "notify" /\ setter' = "read"
      BY <1>5, <2>1, <2>2 DEF Notify, stores
    <3>2. notify_pipe' # <<>>
      <4>1. notify_pipe \in Seq(SETTER_STATUS \cup {BOGUS}) /\ status = "TIME_SET"
        BY <1>0, <3>1 DEF SetterTypeOK, Answered
      <4>2. notify_pipe' = Append(notify_pipe, "TIME_SET")
        BY <1>5, <2>2, <3>1, <4>1 DEF Notify, Written
      <4> QED
        BY <4>1, <4>2, AppendFacts DEF SETTER_STATUS
    <3> QED
      BY <1>0, <3>1, <3>2 DEF HeadsForBelief, DeltaNoted, Told, Heading, Applying
  <2> QED
    BY <1>1, <2>2
<1>6. CASE ReadEnd \/ SetterKilled
  BY <1>1, <1>6 DEF ReadEnd, SetterKilled, Die
<1> QED
  BY <1>2, <1>3, <1>4, <1>5, <1>6 DEF SetterMoves, SetterStep

\* E_SAVE hands the belief on.
LEMMA SaveHeads ==
    ASSUME LoopInv, BeliefInv, action_sync_and_save PROVE HeadsForBelief' /\ DeltaNoted'
<1> SUFFICES ASSUME Told'
             PROVE  time_pipe' # <<>> /\ (last_sync_type' # "RTC" => Heading' = last_time')
  BY DEF HeadsForBelief, DeltaNoted
<1>1. daemon = "up" /\ setter # "dead" /\ ~exitting /\ UNCHANGED last_sync_type
  BY SaveFrame DEF Told
<1>2. /\ Len(time_pipe) \in Nat /\ Len(time_pipe') = Len(time_pipe) + 1
      /\ time_pipe'[Len(time_pipe')] = SaveWord /\ UNCHANGED last_time
  BY <1>1, SaveWrites
<1>3. time_pipe' # <<>>
  BY <1>2
<1>4. ASSUME last_sync_type # "RTC" PROVE Heading' = last_time'
  <2>1. last_time \in Time /\ is_sane_time(last_time.sec)
    BY <1>1, <1>4 DEF BeliefInv, BeliefSane, LoopInv, TypeOK
  <2>2. Magnitude(SaveWord) = last_time
    BY <2>1, SaveWordStandsFor
  <2> QED
    BY <1>2, <1>3, <2>2 DEF Heading
<1> QED
  BY <1>1, <1>3, <1>4

\* A status word of a living setter notes the delta of a network time.
LEMMA TimeSetHeads ==
    ASSUME LoopInv, BeliefInv, action_time_set, ~Exit PROVE HeadsForBelief' /\ DeltaNoted'
<1>1. /\ UNCHANGED <<daemon, setter, tv, time_pipe, clock, exitting, armed>>
      /\ UNCHANGED <<last_sync_type, last_time>> \/ last_sync_type' = "RTC"
  BY TimeSetFrame
<1>2. HeadsForBelief'
  BY <1>1 DEF BeliefInv, HeadsForBelief, Told, Heading, Applying
<1>3. ASSUME Told', last_sync_type' = "NET", setter' = "read"
      PROVE  clock_delta' = clock.sec \/ UNCHANGED <<notify_pipe, clock_delta>>
  <2>1. last_sync_type = "NET" /\ setter # "dead"
    BY <1>1, <1>3
  <2>2. CASE notify_pipe = <<>>
    BY <2>2 DEF action_time_set, timeVars
  <2>3. CASE notify_pipe # <<>>
    <3>1. notify_pipe \in Seq(SETTER_STATUS \cup {BOGUS})
      BY DEF LoopInv, TypeOK, SetterTypeOK
    <3>2. Len(notify_pipe) \in Nat \ {0} /\ Head(notify_pipe) = notify_pipe[1]
      BY <2>3, <3>1, EmptySeq
    <3>3. Head(notify_pipe) = "TIME_SET"
      BY <2>1, <3>2 DEF BeliefInv, Answered
    <3> QED
      BY <2>1, <2>3, <3>3 DEF action_time_set, handle_time_setter, BOGUS
  <2> QED
    BY <2>2, <2>3
<1>4. DeltaNoted'
  BY <1>1, <1>3 DEF BeliefInv, DeltaNoted, Told
<1> QED
  BY <1>2, <1>4

\* Every step keeps the two.
LEMMA NextHeads ==
    ASSUME LoopInv, FirstWord, BeliefInv, JumpTimes = {}, ~dry_run, [Next]_vars
    PROVE  HeadsForBelief' /\ DeltaNoted'
<1>0. HeadsForBelief /\ DeltaNoted
  BY DEF BeliefInv
<1>1. CASE Main \/ PowerLoss \/ Leaving
  BY <1>1 DEF Main, PowerLoss, Exit, Leaving, HeadsForBelief, DeltaNoted, Told
<1>2. CASE Polled \/ Caught \/ UNCHANGED beliefVars
  BY <1>0, <1>2, BeliefKept DEF Polled, Caught, beliefVars
<1>3. CASE Learning
  BY <1>0, <1>3, BeliefKept DEF Learning, Learns
<1>4. CASE action_sigterm
  BY <1>4, SigtermFrame DEF HeadsForBelief, DeltaNoted, Told
<1>5. CASE SaveHangup
  BY <1>5, HangupFrame DEF BeliefInv, HangupTrue, HeadsForBelief, DeltaNoted, Told
<1> QED
  BY <1>1, <1>2, <1>3, <1>4, <1>5, SetterHeads, SaveHeads, TimeSetHeads, NextEffect DEF ClockJump

\* Every step keeps BeliefInv.
LEMMA NextBelief ==
    JumpTimes = {} /\ ~dry_run /\ LoopInv /\ FirstWord /\ BeliefInv /\ [Next]_vars => BeliefInv'
<1> SUFFICES ASSUME JumpTimes = {}, ~dry_run, LoopInv, FirstWord, BeliefInv, [Next]_vars
             PROVE  BeliefInv'
  OBVIOUS
<1> QED
  BY NextTvSane, NextBeliefSane, NextAnswered, NextClockSet, NextHangup, NextHeads DEF BeliefInv

\* Unless somebody else sets the clock, or the setter only pretends to, what
\* LastSyncInfo tells a client is true whenever the setter has nothing left to
\* do: in every order of answers, invalidations, requests, saves and statuses.
THEOREM BeliefHolds ==
    ASSUME JumpTimes = {}, ~dry_run
    PROVE  Spec => []BeliefIsTrue
<1>1. Init => BeliefInv
  BY EmptySeq DEF Init, BeliefInv, TvSane, BeliefSane, Answered, ClockSet, HangupTrue,
                  HeadsForBelief, DeltaNoted, Told, Applying
<1>2. LoopInv /\ FirstWord /\ BeliefInv /\ [Next]_vars => BeliefInv'
  BY NextBelief
<1>3. LoopInv /\ BeliefInv => BeliefIsTrue
  <2> SUFFICES ASSUME LoopInv, BeliefInv, Quiet, ~exitting, last_sync_type # "RTC"
               PROVE  /\ last_time = clock
                      /\ last_sync_type = "NET" => clock_delta # 0 /\ clock_delta = clock.sec
    BY DEF BeliefIsTrue, SyncInfo
  <2>1. Told /\ setter = "read" /\ time_pipe = <<>> /\ notify_pipe = <<>>
    BY DEF Quiet, Told
  <2>2. last_time = clock
    BY <2>1 DEF BeliefInv, HeadsForBelief, Heading, Applying
  <2>3. clock.sec # 0
    <3>1. is_sane_time(clock.sec)
      BY <2>1, <2>2 DEF BeliefInv, BeliefSane, Told
    <3> QED
      BY <3>1, DatesAssumption DEF is_sane_time
  <2> QED
    BY <2>1, <2>2, <2>3 DEF BeliefInv, DeltaNoted
<1> QED
  BY <1>1, <1>2, <1>3, LoopInvariance, FirstWordInvariance, PTL DEF Spec

-----------------------------------------------------------------------------
(* A graceful exit.                                                        *)

\* Every step keeps NoEpoch.
LEMMA NextNoEpoch ==
    ASSUME LoopInv, TvSane, NoEpoch, 0 \notin BootTimes \cup JumpTimes, [Next]_vars
    PROVE  NoEpoch'
<1>0. \A t : is_sane_time(t) => t # 0
  BY DatesAssumption DEF is_sane_time
<1>1. CASE Main
  BY <1>0, <1>1, MainSane DEF Main, NoEpoch, stores
<1>2. CASE PowerLoss
  BY <1>2 DEF PowerLoss, Exit, NoEpoch, Local
<1>3. CASE ClockJump
  BY <1>3 DEF ClockJump, NoEpoch, Local, timeVars, exitVars
<1>4. CASE Leaving
  BY <1>4 DEF Leaving, NoEpoch
<1>5. CASE SetterMoves
  <2>1. clock' \in {clock} \/ (setter = "settimeofday" /\ clock' = tv)
    BY <1>5 DEF SetterMoves, SetterStep, SetterKilled, Start, ReadTime, ReadEnd, SetTimeOfDay,
                RtcWrite, SaveTimestamp, Notify, stores
  <2>2. clock'.sec # 0
    BY <1>0, <2>1 DEF NoEpoch, TvSane, Applying
  <2> QED
    BY <1>5, <2>2 DEF SetterMoves, NoEpoch
<1>6. CASE Learning
  BY <1>0, <1>6 DEF Learning, Learns, NoEpoch
<1>7. CASE action_sync_and_save
  BY <1>7, SaveFrame, SaveWrites DEF NoEpoch
<1>8. CASE Polled \/ Caught \/ SaveHangup \/ UNCHANGED beliefVars
  BY <1>8, HangupFrame DEF Polled, Caught, beliefVars, NoEpoch
<1>9. CASE action_sigterm \/ (action_time_set /\ ~Exit)
  BY <1>9, SigtermFrame, TimeSetFrame DEF NoEpoch
<1> QED
  BY <1>1, <1>2, <1>3, <1>4, <1>5, <1>6, <1>7, <1>8, <1>9, NextEffect

\* The first SIGTERM is noted, if it can be.
LEMMA SigtermNotes ==
    ASSUME LoopInv, action_sigterm
    PROVE  IF ~exitting /\ Writable THEN term_sync' = last_sync_type /\ term_time' = clock
           ELSE UNCHANGED <<term_sync, term_time>>
BY DEF action_sigterm, NoteTerm

\* Every step keeps CanSave.
LEMMA NextCanSave == ASSUME LoopInv, CanSave, [Next]_vars PROVE CanSave'
<1>1. CASE Main
  BY <1>1 DEF Main, Blank, CanSave, TermNoted, Range
<1>2. CASE PowerLoss \/ Leaving
  BY <1>2 DEF PowerLoss, Exit, Blank, Leaving, CanSave, TermNoted, Range
<1>3. CASE /\ UNCHANGED <<exitting, sigterm, term_sync, term_time>>
           /\ Range(save_queue') \subseteq Range(save_queue)
  BY <1>3 DEF CanSave, TermNoted
<1>4. CASE ClockJump \/ SetterMoves \/ Learning \/ UNCHANGED beliefVars
  BY <1>3, <1>4 DEF ClockJump, SetterMoves, Learning, beliefVars, exitVars, signalVars, eventVars
<1>5. CASE action_sync_and_save \/ SaveHangup \/ (action_time_set /\ ~Exit)
  BY <1>3, <1>5, SaveFrame, HangupFrame, TimeSetFrame
<1>6. CASE action_sigterm
  <2>1. should_save_disk
    BY <1>6, SigtermFrame DEF CanSave
  <2> QED
    BY <2>1 DEF CanSave
<1>7. CASE Caught \/ Polled
  BY <1>7 DEF Caught, Polled, CanSave, TermNoted
<1> QED
  BY <1>1, <1>2, <1>4, <1>5, <1>6, <1>7, NextEffect

\* The setter does not come to think it was asked to exit.
LEMMA SetterNotAsked == ASSUME LoopInv, NotAsked, SetterMoves PROVE NotAsked'
<1>0. SetterTypeOK
  BY DEF LoopInv, TypeOK
<1>1. CASE ReadTime
  <2>1. time_pipe # <<>> /\ time_pipe' = Tail(time_pipe)
    BY <1>1 DEF ReadTime, Unread
  <2>2. /\ Len(time_pipe) \in Nat \ {0} /\ Len(time_pipe') = Len(time_pipe) - 1
        /\ \A i \in 1 .. Len(time_pipe') : time_pipe'[i] = time_pipe[i + 1]
        /\ Head(time_pipe) = time_pipe[1] /\ Head(time_pipe) \in Time
    BY <1>0, <2>1, UnreadFacts
  <2>3. \A i \in 1 .. Len(time_pipe') : time_pipe'[i].sec # 0
    BY <2>2 DEF NotAsked
  <2>4. Head(time_pipe).sec \in Int /\ Head(time_pipe).sec # 0
    BY <2>2, TimeFacts DEF NotAsked
  <2>5. status' # "EXIT"
    BY <1>1, <2>4 DEF ReadTime, Die, NotAsked, Negated
  <2> QED
    BY <2>3, <2>5 DEF NotAsked
<1>2. CASE ~ReadTime
  BY <1>2 DEF SetterMoves, SetterStep, SetterKilled, Start, ReadEnd, SetTimeOfDay, RtcWrite,
              SaveTimestamp, Notify, Die, NotAsked, local, pipes
<1> QED
  BY <1>1, <1>2

\* Before a SIGTERM the daemon does not ask the setter to exit.
LEMMA NextBeforeTerm == ASSUME LoopInv, NoEpoch, BeforeTerm, [Next]_vars PROVE BeforeTerm'
<1>1. CASE Main
  BY <1>1, EmptySeq DEF Main, BeforeTerm, NotAsked
<1>2. CASE PowerLoss \/ Leaving
  BY <1>2 DEF PowerLoss, Exit, Leaving, BeforeTerm
<1>3. CASE UNCHANGED <<daemon, exitting, term_sync, status, time_pipe>>
  BY <1>3 DEF BeforeTerm, NotAsked
<1>4. CASE ClockJump \/ Polled \/ Caught \/ Learning \/ UNCHANGED beliefVars
  BY <1>3, <1>4 DEF ClockJump, Polled, Caught, Learning, beliefVars, local, pipes, exitVars
<1>5. CASE SaveHangup \/ (action_time_set /\ ~Exit)
  BY <1>3, <1>5, HangupFrame, TimeSetFrame
<1>6. CASE action_sigterm
  BY <1>6, SigtermFrame DEF BeforeTerm
<1>7. CASE SetterMoves
  BY <1>7, SetterNotAsked DEF SetterMoves, BeforeTerm
<1>8. CASE action_sync_and_save
  <2> SUFFICES ASSUME ~exitting, daemon = "up" PROVE NotAsked'
    BY <1>8, SaveFrame DEF BeforeTerm
  <2>1. NotAsked /\ last_time.sec # 0 /\ last_time.sec \in Int
    BY TimeFacts DEF BeforeTerm, NoEpoch, LoopInv, TypeOK
  <2>2. SaveWord.sec # 0
    BY <2>1 DEF SaveWord, Negated
  <2>3. \A i \in 1 .. Len(time_pipe') : time_pipe'[i].sec # 0
    BY <1>8, <2>1, <2>2, SaveWrites DEF NotAsked
  <2> QED
    BY <1>8, <2>1, <2>3, SaveFrame DEF NotAsked
<1> QED
  BY <1>1, <1>2, <1>4, <1>5, <1>6, <1>7, <1>8, NextEffect

\* The shutdown stays in the pipe until the setter reads it.
LEMMA SetterStage ==
    ASSUME LoopInv, TvSane, CanSave, ~dry_run, TermNoted, TermStage, SetterMoves
    PROVE  TermStage'
<1>0. /\ SetterTypeOK /\ UNCHANGED <<daemon, term_sync, term_time>> /\ should_save_disk
      /\ term_time.sec # 0 /\ is_sane_time(term_time.sec)
  BY DatesAssumption DEF LoopInv, TypeOK, SetterMoves, CanSave, TermNoted, is_sane_time
<1>1. CASE NotAsked /\ (ToBeSaved \/ daemon = "down")
  <2>1. NotAsked'
    BY <1>1, SetterNotAsked
  <2>2. ToBeSaved => ToBeSaved'
    <3>1. Len(time_pipe') <= Len(time_pipe) /\ SetterTypeOK'
      BY <1>0, SetterTypes DEF SetterMoves
    <3>2. Len(time_pipe') \in Nat /\ Len(time_pipe) \in Nat
      BY <1>0, <3>1, LenProperties DEF SetterTypeOK
    <3>3. Writable => Writable'
      BY <3>1, <3>2, SetterAssumption DEF Writable
    <3> QED
      BY <3>3 DEF SetterMoves, ToBeSaved
  <2> QED
    BY <1>0, <1>1, <2>1, <2>2 DEF TermStage
<1>2. CASE Sent
  <2>1. PICK k \in 1 .. (Len(time_pipe) - 1) :
            /\ time_pipe[k] = term_time /\ time_pipe[k + 1].sec = 0
            /\ \A i \in 1 .. k : time_pipe[i].sec # 0
    BY <1>2 DEF Sent
  <2>2. CASE ReadTime
    <3>1. time_pipe # <<>> /\ time_pipe' = Tail(time_pipe)
      BY <2>2 DEF ReadTime, Unread
    <3>2. /\ Len(time_pipe) \in Nat \ {0} /\ Len(time_pipe') = Len(time_pipe) - 1
          /\ \A i \in 1 .. Len(time_pipe') : time_pipe'[i] = time_pipe[i + 1]
          /\ Head(time_pipe) = time_pipe[1] /\ Head(time_pipe) \in Time
          /\ Head(time_pipe).sec \in Int
      BY <1>0, <3>1, UnreadFacts, TimeFacts
    <3>3. Head(time_pipe).sec # 0
      BY <2>1, <3>2
    <3>4. status' # "EXIT"
      BY <1>2, <2>2, <3>2, <3>3 DEF ReadTime, Die, Sent, Negated
    <3>5. CASE k = 1
      <4>1. Head(time_pipe) = term_time /\ term_time.sec > 0
        BY <1>0, <2>1, <3>2, <3>5, DatesAssumption DEF is_sane_time
      <4>2. tv' = term_time /\ setter' = "settimeofday"
        BY <1>0, <2>2, <3>2, <4>1 DEF ReadTime, FirstStep, Die
      <4>2a. save'
        <5>1. term_time.sec >= 0
          BY <3>2, <4>1
        <5>2. save' = SavesToDisk(Head(time_pipe))
          BY <2>2, Zenon DEF ReadTime
        <5>3. SavesToDisk(Head(time_pipe))
          BY <4>1, <5>1 DEF SavesToDisk
        <5> QED
          BY <5>2, <5>3
      <4>3. 1 \in 1 .. Len(time_pipe') /\ Len(time_pipe') \in Nat \ {0}
        BY <2>1, <3>2
      <4>4. time_pipe'[1] = time_pipe[k + 1]
        BY <3>2, <3>5, <4>3
      <4>5. time_pipe' \in Seq(Time) /\ time_pipe' # <<>>
        <5>1. time_pipe' \in Seq(Time)
          BY <3>1, <1>0, HeadFacts DEF SetterTypeOK
        <5> QED
          BY <4>3, <5>1, EmptySeq
      <4>6. LastWordNext'
        BY <2>1, <4>4, <4>5 DEF LastWordNext
      <4> QED
        BY <1>0, <3>4, <4>2, <4>2a, <4>6 DEF TermStage, Applying
    <3>6. CASE k > 1
      <4>1. k - 1 \in 1 .. (Len(time_pipe') - 1) /\ (k - 1) + 1 = k
        BY <2>1, <3>2, <3>6
      <4>2. time_pipe'[k - 1] = time_pipe[k] /\ time_pipe'[(k - 1) + 1] = time_pipe[k + 1]
        BY <3>2, <4>1
      <4>3. \A i \in 1 .. (k - 1) : time_pipe'[i].sec # 0
        <5>1. ASSUME NEW i \in 1 .. (k - 1) PROVE time_pipe'[i].sec # 0
          <6>1. i \in 1 .. Len(time_pipe') /\ i + 1 \in 1 .. k
            BY <2>1, <3>2, <4>1
          <6> QED
            BY <2>1, <3>2, <6>1
        <5> QED
          BY <5>1
      <4>4. Sent'
        <5> DEFINE j == k - 1
        <5>1. /\ j \in 1 .. (Len(time_pipe') - 1)
              /\ time_pipe'[j] = term_time' /\ time_pipe'[j + 1].sec = 0
              /\ \A i \in 1 .. j : time_pipe'[i].sec # 0
          BY <1>0, <2>1, <4>1, <4>2, <4>3
        <5> HIDE DEF j
        <5> QED
          BY <3>4, <5>1 DEF Sent
      <4> QED
        BY <4>4 DEF TermStage
    <3> QED
      BY <2>1, <3>2, <3>5, <3>6
  <2>3. CASE ~ReadTime
    <3>1. UNCHANGED time_pipe /\ status' # "EXIT"
      BY <1>2, <2>3 DEF SetterMoves, SetterStep, SetterKilled, Start, ReadEnd, SetTimeOfDay, RtcWrite,
                        SaveTimestamp, Notify, Die, Sent, local, pipes
    <3> QED
      BY <1>0, <1>2, <3>1 DEF Sent, TermStage
  <2> QED
    BY <2>2, <2>3
<1>3. CASE Applying /\ tv = term_time /\ save /\ status # "EXIT" /\ LastWordNext
  <2>1. SetTimeOfDay \/ RtcWrite \/ SaveTimestamp \/ SetterKilled
    BY <1>3 DEF SetterMoves, SetterStep, Start, ReadTime, ReadEnd, Notify, Applying
  <2>2. CASE SetTimeOfDay \/ RtcWrite \/ SetterKilled
    <3>1. UNCHANGED <<tv, save, time_pipe>>
      BY <2>2 DEF SetTimeOfDay, RtcWrite, SetterKilled, local, pipes
    <3>2. status' # "EXIT" /\ setter' \in {"rtc_write", "save", "die", "dead"}
      BY <1>3, <2>2 DEF SetTimeOfDay, RtcWrite, SetterKilled, AfterClock, Die, local
    <3> QED
      BY <1>0, <1>3, <3>1, <3>2 DEF TermStage, Applying, LastWordNext
  <2>3. CASE SaveTimestamp
    <3>1. \/ setter' = "die" /\ status' = "NO_SAVE"
          \/ setter' = "notify" /\ disk' = tv
      BY <1>0, <1>3, <2>3 DEF SaveTimestamp, SaveFd, Die
    <3>2. UNCHANGED time_pipe
      BY <2>3 DEF SaveTimestamp, pipes
    <3> QED
      BY <1>0, <1>3, <3>1, <3>2 DEF TermStage, LastWordNext
  <2> QED
    BY <2>1, <2>2, <2>3
<1>4. CASE setter \in {"notify", "read"} /\ disk = term_time /\ LastWordNext
  <2>1. CASE ReadTime
    <3>1. setter' = "die" /\ UNCHANGED disk
      BY <1>4, <2>1, DatesAssumption DEF ReadTime, LastWordNext, Die, is_sane_time, Negated, stores
    <3> QED
      BY <1>0, <1>4, <3>1 DEF TermStage
  <2>2. CASE Notify \/ SetterKilled
    <3>1. UNCHANGED <<disk, time_pipe>> /\ setter' \in {"read", "dead"}
      BY <1>4, <2>2 DEF Notify, SetterKilled, pipes, stores
    <3> QED
      BY <1>0, <1>4, <3>1 DEF TermStage, LastWordNext
  <2>3. ReadTime \/ Notify \/ SetterKilled
    BY <1>4 DEF SetterMoves, SetterStep, Start, ReadEnd, SetTimeOfDay, RtcWrite, SaveTimestamp,
                LastWordNext
  <2> QED
    BY <2>1, <2>2, <2>3
<1>5. CASE setter \in {"die", "dead"} /\ (disk = term_time \/ status # "EXIT")
  <2>1. UNCHANGED <<disk, status>> /\ setter' = "dead"
    BY <1>5 DEF SetterMoves, SetterStep, SetterKilled, Start, ReadTime, ReadEnd, SetTimeOfDay, RtcWrite,
                SaveTimestamp, Notify, local, stores
  <2> QED
    BY <1>0, <1>5, <2>1 DEF TermStage
<1> QED
  BY <1>1, <1>2, <1>3, <1>4, <1>5 DEF TermStage

\* A step that leaves the setter, its pipe and the note of the SIGTERM alone,
\* and does not get in the way of E_SAVE.
LEMMA StageKept ==
    ASSUME TermStage,
           UNCHANGED <<setter, status, tv, save, time_pipe, disk, term_time>>,
           NotAsked /\ (ToBeSaved \/ daemon = "down")
                => ToBeSaved' \/ daemon' = "down" \/ setter = "dead"
    PROVE  TermStage'
BY DEF TermStage, NotAsked, Sent, Applying, LastWordNext

\* E_SAVE writes the shutdown.
LEMMA SaveStage ==
    ASSUME LoopInv, TermNoted, TermStage, action_sync_and_save PROVE TermStage'
<1>0. /\ daemon = "up" /\ UNCHANGED <<daemon, setter, status, tv, save, disk, last_sync_type, term_time>>
      /\ is_sane_time(term_time.sec) /\ term_time.sec # 0
  BY SaveFrame, DatesAssumption DEF TermNoted, is_sane_time
<1>1. CASE NotAsked /\ ToBeSaved
  <2>1. CASE setter = "dead"
    BY <1>0, <1>1, <2>1 DEF NotAsked, TermStage
  <2>2. CASE setter # "dead"
    <3>1. exitting /\ last_time = term_time /\ SaveWord = term_time
      BY <1>1 DEF ToBeSaved, SaveWord
    <3>2. /\ Len(time_pipe) \in Nat /\ Len(time_pipe') = Len(time_pipe) + 2
          /\ time_pipe'[Len(time_pipe) + 1] = term_time
          /\ time_pipe'[Len(time_pipe) + 2] = NoTime
          /\ \A i \in 1 .. Len(time_pipe) : time_pipe'[i] = time_pipe[i]
      BY <1>0, <2>2, <3>1, SaveWrites
    <3> DEFINE k == Len(time_pipe) + 1
    <3>3. /\ k \in 1 .. (Len(time_pipe') - 1)
          /\ time_pipe'[k] = term_time' /\ time_pipe'[k + 1].sec = 0
      BY <1>0, <3>2 DEF NoTime
    <3>4. \A i \in 1 .. k : time_pipe'[i].sec # 0
      BY <1>0, <1>1, <3>2 DEF NotAsked
    <3> HIDE DEF k
    <3>5. Sent'
      BY <1>0, <1>1, <3>3, <3>4 DEF Sent, NotAsked
    <3> QED
      BY <3>5 DEF TermStage
  <2> QED
    BY <2>1, <2>2
<1>2. CASE Sent
  <2>1. PICK k \in 1 .. (Len(time_pipe) - 1) :
            /\ time_pipe[k] = term_time /\ time_pipe[k + 1].sec = 0
            /\ \A i \in 1 .. k : time_pipe[i].sec # 0
    BY <1>2 DEF Sent
  <2>2. /\ Len(time_pipe) \in Nat
        /\ UNCHANGED time_pipe \/ /\ Len(time_pipe') \in {Len(time_pipe) + 1, Len(time_pipe) + 2}
                                  /\ \A i \in 1 .. Len(time_pipe) : time_pipe'[i] = time_pipe[i]
    BY SaveWrites
  <2>3. k \in 1 .. (Len(time_pipe') - 1) /\ \A i \in 1 .. k + 1 : time_pipe'[i] = time_pipe[i]
    BY <2>1, <2>2
  <2>4. Sent'
    <3>1. /\ time_pipe'[k] = term_time' /\ time_pipe'[k + 1].sec = 0
          /\ \A i \in 1 .. k : time_pipe'[i].sec # 0
      BY <1>0, <2>1, <2>3
    <3> QED
      BY <1>0, <1>2, <2>3, <3>1 DEF Sent
  <2> QED
    BY <2>4 DEF TermStage
<1>3. LastWordNext => LastWordNext'
  BY SaveKeepsHead DEF LastWordNext
<1> QED
  BY <1>0, <1>1, <1>2, <1>3 DEF TermStage, Applying

\* Every step keeps the stages of a shutdown.
LEMMA NextStage ==
    ASSUME LoopInv, GoodbyeInv, ~dry_run, [Next]_vars PROVE TermNoted' => TermStage'
<1> SUFFICES ASSUME TermNoted' PROVE TermStage'
  OBVIOUS
<1>0. /\ TvSane /\ HangupTrue /\ CanSave /\ BeforeTerm
      /\ TermNoted => TermStage
  BY DEF GoodbyeInv
<1>1. CASE Main
  BY <1>1 DEF Main, TermNoted
<1>2. CASE PowerLoss
  BY <1>2 DEF PowerLoss, TermStage
<1>3. CASE action_sigterm
  <2>1. CASE ~exitting
    <3>1. daemon = "up" /\ term_sync = "NONE" /\ NotAsked
      BY <1>0, <1>3, <2>1, SigtermFrame DEF BeforeTerm
    <3>2. Writable /\ term_sync' = last_sync_type /\ term_time' = clock
      BY <1>3, <2>1, <3>1, SigtermNotes DEF TermNoted
    <3>3. NotAsked' /\ Writable'
      BY <1>3, <3>1, <3>2, SigtermFrame DEF NotAsked, Writable
    <3>4. ToBeSaved'
      BY <1>3, <3>2, <3>3, SigtermFrame DEF ToBeSaved, TermNoted
    <3> QED
      BY <3>3, <3>4 DEF TermStage
  <2>2. CASE exitting
    <3>1. UNCHANGED <<term_sync, term_time>>
      BY <1>3, <2>2, SigtermNotes
    <3>2. TermNoted /\ TermStage
      BY <1>0, <3>1 DEF TermNoted
    <3>3. ~ToBeSaved /\ daemon # "down"
      BY <1>3, SigtermFrame DEF ToBeSaved, Callback, PRI_SAVE
    <3> QED
      BY <1>3, <3>1, <3>2, <3>3, SigtermFrame, StageKept
  <2> QED
    BY <2>1, <2>2
<1>4. CASE action_sync_and_save
  BY <1>0, <1>4, SaveFrame, SaveStage DEF TermNoted
<1>5. CASE SetterMoves
  BY <1>0, <1>5, SetterStage DEF SetterMoves, TermNoted
<1>6. CASE SaveHangup
  <2>1. setter = "dead" /\ TermNoted /\ TermStage
    BY <1>0, <1>6, HangupFrame DEF HangupTrue, TermNoted
  <2> QED
    BY <1>6, <2>1, HangupFrame, StageKept
<1>7. CASE action_time_set /\ ~Exit
  <2>1. TermNoted /\ TermStage /\ ~ToBeSaved /\ daemon = "up"
    BY <1>0, <1>7, TimeSetFrame DEF TermNoted, ToBeSaved, Callback, PRI_SAVE
  <2> QED
    BY <1>7, <2>1, TimeSetFrame, StageKept
<1>8. CASE Learning
  <2>1. TermNoted /\ TermStage /\ daemon = "up"
    BY <1>0, <1>8 DEF Learning, TermNoted, Callback
  <2>2. ToBeSaved => ToBeSaved'
    BY <1>8 DEF Learning, ToBeSaved, Callback, Writable
  <2> QED
    BY <1>8, <2>1, <2>2, StageKept DEF Learning
<1>9. CASE Polled
  <2>1. TermNoted /\ TermStage /\ daemon = "up"
    BY <1>0, <1>9 DEF Polled, TermNoted
  <2>2. ToBeSaved => ToBeSaved' \/ setter = "dead"
    BY <1>9 DEF Polled, ToBeSaved, Writable
  <2> QED
    BY <1>9, <2>1, <2>2, StageKept DEF Polled
<1>10. CASE Leaving
  BY <1>0, <1>10, StageKept DEF Leaving, TermNoted
<1>11. CASE Caught \/ UNCHANGED beliefVars
  <2>1. UNCHANGED <<daemon, setter, status, tv, save, time_pipe, disk, last_sync_type, last_time,
                    exitting, term_sync, term_time, armed, save_queue, loop>>
    BY <1>11 DEF Caught, beliefVars
  <2> QED
    BY <1>0, <2>1, StageKept DEF TermNoted, ToBeSaved, Writable
<1>12. CASE ClockJump
  <2>1. UNCHANGED <<daemon, setter, status, tv, save, time_pipe, disk, last_sync_type, last_time,
                    exitting, term_sync, term_time, armed, save_queue, loop>>
    BY <1>12 DEF ClockJump, local, pipes, timeVars, exitVars, eventVars
  <2> QED
    BY <1>0, <2>1, StageKept DEF TermNoted, ToBeSaved, Writable
<1> QED
  BY <1>1, <1>2, <1>3, <1>4, <1>5, <1>6, <1>7, <1>8, <1>9, <1>10, <1>11, <1>12, NextEffect

\* Every step keeps GoodbyeInv.
LEMMA NextGoodbye ==
    ~dry_run /\ 0 \notin BootTimes \cup JumpTimes /\ LoopInv /\ GoodbyeInv /\ [Next]_vars
        => GoodbyeInv'
<1> SUFFICES ASSUME ~dry_run, 0 \notin BootTimes \cup JumpTimes, LoopInv, GoodbyeInv, [Next]_vars
             PROVE  GoodbyeInv'
  OBVIOUS
<1>1. TermNoted' => TermStage'
  BY NextStage
<1> QED
  BY <1>1, NextTvSane, NextHangup, NextNoEpoch, NextCanSave, NextBeforeTerm DEF GoodbyeInv

\* A graceful exit that began in sync leaves the clock's time of that moment on
\* disk, if it leaves the setter with the status of a clean exit at all:
\* whatever else was in the pipe, however many SIGTERMs followed, and whoever
\* moved the clock meanwhile.  The setter must be one that really sets the
\* time, and the clock never show the epoch, whose word asks it to exit.
THEOREM ExitIsSaved ==
    ASSUME ~dry_run, 0 \notin BootTimes \cup JumpTimes
    PROVE  Spec => []ExitSaves
<1>1. Init => GoodbyeInv
  <2>1. ASSUME Init PROVE GoodbyeInv
    <3>1. clock.sec # 0
      BY <2>1 DEF Init, Local
    <3> QED
      BY <2>1, <3>1, EmptySeq DEF Init, GoodbyeInv, TvSane, HangupTrue, NoEpoch, CanSave, BeforeTerm,
                                  TermNoted, Applying, Range
  <2> QED
    BY <2>1
<1>2. LoopInv /\ GoodbyeInv /\ [Next]_vars => GoodbyeInv'
  BY NextGoodbye
<1>3. GoodbyeInv => ExitSaves
  BY DEF GoodbyeInv, TermNoted, TermStage, NotAsked, Sent, ExitSaves
<1> QED
  BY <1>1, <1>2, <1>3, LoopInvariance, PTL DEF Spec

-----------------------------------------------------------------------------
(* The clock after a restart.                                              *)

\* A network time is believed once: the event for the child's answer is not
\* armed again before the belief has been given up.  The steady-state timer
\* is left out.
NetAsked ==
    /\ "E_STEADYSTATE" \notin Range(net_queue)
    /\ daemon = "up" /\ last_sync_type = "NET" =>
            "E_TLSDATE_STATUS" \notin armed /\ "E_TLSDATE_STATUS" \notin Range(net_queue)

\* What the poll has queued of E_SAVE is still armed.
SaveArmed ==
    daemon = "up" /\ setter # "dead" /\ "E_SAVE" \in Range(save_queue) => "E_SAVE" \in armed

Live == setter \notin {"die", "dead"}

\* Words and statuses under way.
Busy == Len(time_pipe) + Len(notify_pipe)
            + (IF setter \in {"settimeofday", "rtc_write", "save", "notify"} THEN 1 ELSE 0)

\* A network time is not given up between its arrival and its being sent,
\* since no other time is applied meanwhile: a delta, which is noted with the
\* network's times only, is then that of a clock that stands still.
InTurn ==
    daemon = "up" /\ Live =>
        /\ Busy <= 2
        /\ clock_delta # 0 => last_sync_type = "NET"
        /\ "E_SAVE" \in armed \/ last_sync_type # "NET" \/ clock_delta # 0 => Busy <= 1
        /\ "E_SAVE" \in armed /\ clock_delta # 0 => Busy = 0 /\ clock_delta = clock.sec
        /\ "E_SAVE" \in armed /\ last_sync_type # "NET" =>
                status = "UNINIT" /\ time_pipe = <<>> /\ notify_pipe = <<>>

\* The time of main() is not behind the file; of the words after it each is
\* the network's and will be in the file.
FirstAbove ==
    Live /\ status = "UNINIT" =>
        IF time_pipe # <<>> THEN Magnitude(Head(time_pipe)).sec >= disk.sec
        ELSE daemon = "up" => last_time.sec >= disk.sec
LaterSaved ==
    Live => \A i \in 1 .. Len(time_pipe) : i > 1 \/ status # "UNINIT" => time_pipe[i].sec >= 0
TvAbove == Applying => save \/ tv.sec >= disk.sec
ClockAbove ==
    setter = "notify" \/ (setter = "read" /\ status # "UNINIT") => clock.sec >= disk.sec

AboveInv ==
    /\ NetAsked /\ SaveArmed /\ InTurn
    /\ FirstAbove /\ LaterSaved /\ TvAbove /\ ClockAbove

\* What a handler may do to the belief when nobody asks for a time and the
\* steady-state timer is off: nothing, fall back because the clock has left the
\* delta, or believe a network time when it did not before.
Believes ==
    \/ /\ UNCHANGED <<last_sync_type, last_time, clock_delta>>
       /\ "E_SAVE" \in armed' => "E_SAVE" \in armed
    \/ /\ Desync(clock_delta) /\ clock_delta' = 0 /\ last_sync_type' = "RTC"
       /\ "E_SAVE" \in armed' => "E_SAVE" \in armed
    \/ /\ last_sync_type # "NET" /\ last_sync_type' = "NET" /\ UNCHANGED clock_delta

\* The callback that runs is in the queue of the lower priority.
LEMMA CallbackNet ==
    ASSUME LoopInv, NEW e, Callback(e), e \notin PRI_SAVE PROVE e \in Range(net_queue)
<1>1. net_queue # <<>> /\ Head(net_queue) = e /\ net_queue \in Seq(NetEvents)
  BY DEF Callback, LoopInv, QueuesOK
<1>2. Len(net_queue) \in Nat \ {0} /\ net_queue[1] = e
  BY <1>1, EmptySeq
<1> QED
  BY <1>1, <1>2, RangeFacts

\* action_kickoff_time_sync arms nothing but E_TLSDATE.
LEMMA KickoffArms ==
    ASSUME NEW e, NEW more \in BOOLEAN, NEW type, NEW time, NEW delta,
           Kickoff(e, more, type, time, delta, {})
    PROVE  \E a \in SUBSET {"E_TLSDATE"} : Ran(e, more, a, {})
BY DEF Kickoff

\* action_kickoff_time_sync with what is believed already.
LEMMA KickoffBelieves ==
    ASSUME NEW e, NEW more \in BOOLEAN,
           Kickoff(e, more, last_sync_type, last_time, clock_delta, {})
    PROVE  Believes
<1>1. \E a : Ran(e, more, a, {}) /\ "E_SAVE" \notin a
  BY KickoffArms
<1>2. "E_SAVE" \in armed' => "E_SAVE" \in armed
  BY <1>1 DEF Ran
<1>3. CASE Desync(clock_delta)
  BY <1>2, <1>3 DEF Kickoff, KeptDelta, Believes
<1>4. CASE ~Desync(clock_delta)
  BY <1>2, <1>4 DEF Kickoff, KeptDelta, Believes
<1> QED
  BY <1>3, <1>4

\* A step of the loop that neither learns nor leaves believes.
LEMMA HandlerBelieves ==
    ASSUME LoopInv, NetAsked, Requests = {}, Handler
    PROVE  \/ Believes \/ Leaving
           \/ action_sigterm \/ action_sync_and_save \/ SaveHangup
           \/ action_time_set /\ ~Exit
<1> USE DEF PRI_SAVE, Return, timeVars
<1>0. ASSUME UNCHANGED timeVars, NEW e, NEW more, NEW added, NEW deleted, Ran(e, more, added, deleted),
             "E_SAVE" \notin added
      PROVE  Believes
  BY <1>0 DEF Ran, Believes
<1>1. CASE \E e \in Wakes : action_kickoff_time_sync(e)
  BY <1>1, KickoffBelieves DEF action_kickoff_time_sync
<1>2. CASE StdinBroken
  BY <1>0, <1>2 DEF StdinBroken
<1>3. CASE action_invalidate_time
  BY <1>3, CallbackNet DEF action_invalidate_time, NetAsked
<1>4. CASE SaveSigpipe \/ SetterLost
  BY <1>4, ExitLeaves DEF SaveSigpipe, SetterLost, Callback
<1>5. CASE action_time_set
  BY <1>5, ExitLeaves DEF action_time_set, Callback
<1>6. CASE action_run_tlsdate
  <2>1. \/ Ran("E_TLSDATE", FALSE, {}, {})
        \/ Ran("E_TLSDATE", FALSE, {"E_TLSDATE_TIMEOUT", "E_TLSDATE_STATUS"}, {})
        \/ Ran("E_TLSDATE", FALSE, {"E_TLSDATE_STATUS"}, {"E_TLSDATE_TIMEOUT"})
    BY <1>6 DEF action_run_tlsdate, Launched, LaunchFailed
  <2>2. UNCHANGED timeVars
    BY <1>6 DEF action_run_tlsdate
  <2> QED
    BY <1>0, <2>1, <2>2
<1>7. CASE action_tlsdate_timeout
  BY <1>0, <1>7 DEF action_tlsdate_timeout
<1>8. CASE action_tlsdate_status
  <2>1. last_sync_type # "NET"
    BY <1>8, CallbackNet DEF action_tlsdate_status, NetAsked, Callback
  <2>2. CASE UNCHANGED timeVars
    <3>1. \/ Ran("E_TLSDATE_STATUS", FALSE, {"E_TLSDATE_TIMEOUT"}, {})
          \/ Ran("E_TLSDATE_STATUS", FALSE, {}, {})
          \/ last_sync_type' = "NET" /\ UNCHANGED clock_delta
      BY <1>8 DEF action_tlsdate_status
    <3> QED
      BY <1>0, <2>1, <2>2, <3>1
  <2>3. CASE ~UNCHANGED timeVars
    BY <1>8, <2>1, <2>3 DEF action_tlsdate_status, Believes
  <2> QED
    BY <2>2, <2>3
<1>9. CASE action_sigchld
  <2>1. \/ Ran("E_SIGCHLD", FALSE, {}, {})
        \/ Ran("E_SIGCHLD", FALSE, {}, {"E_TLSDATE_TIMEOUT"})
        \/ Ran("E_SIGCHLD", FALSE, {"E_TLSDATE"}, {"E_TLSDATE_TIMEOUT"})
    BY <1>9 DEF action_sigchld, ReapTlsdate
  <2>2. UNCHANGED timeVars
    BY <1>9 DEF action_sigchld
  <2> QED
    BY <1>0, <2>1, <2>2
<1>10. ASSUME NEW more \in BOOLEAN, service_dispatch(more) PROVE Believes
  <2>1. CASE handle_last_sync_info(more)
    BY <1>0, <2>1 DEF handle_last_sync_info
  <2>2. CASE handle_can_set_time(more)
    <3>1. "E_SAVE" \in armed' => "E_SAVE" \in armed
      BY <2>2 DEF handle_can_set_time, Ran
    <3> QED
      BY <2>2, <3>1 DEF handle_can_set_time, Believes
  <2> QED
    BY <1>10, <2>1, <2>2 DEF service_dispatch
<1> QED
  BY <1>1, <1>2, <1>3, <1>4, <1>5, <1>6, <1>7, <1>8, <1>9, <1>10 DEF Handler

\* The same of every step.
LEMMA NextBelieves ==
    ASSUME LoopInv, NetAsked, Requests = {}, [Next]_vars
    PROVE  \/ Believes \/ Main \/ PowerLoss \/ Leaving
           \/ action_sigterm \/ action_sync_and_save \/ SaveHangup
           \/ action_time_set /\ ~Exit
<1>1. CASE Handler
  BY <1>1, HandlerBelieves
<1>2. CASE UNCHANGED <<timeVars, armed>>
  BY <1>2 DEF timeVars, Believes
<1>3. CASE \/ Polls \/ Coprocess \/ CoprocessKilled \/ ChildWrites \/ ChildExits \/ StopChild
           \/ ClockJump \/ UNCHANGED vars
  BY <1>2, <1>3 DEF Polls, Poll, Coprocess, CoprocessKilled, CoprocessFrame, ChildWrites, ChildExits,
                    StopChild, ClockJump, vars, eventVars
<1>4. CASE Sigterm
  <2>1. CASE Exit
    BY <1>4, <2>1, ExitLeaves DEF Sigterm
  <2>2. CASE ~Exit
    BY <1>2, <1>4, <2>2 DEF Sigterm, eventVars
  <2> QED
    BY <2>1, <2>2
<1> QED
  BY <1>1, <1>3, <1>4 DEF Next, Environment

\* A callback that does not ask for an answer leaves NetAsked.
LEMMA RanAsked ==
    ASSUME LoopInv, NetAsked, NEW e, NEW more \in BOOLEAN, NEW added, NEW deleted,
           Callback(e), Ran(e, more, added, deleted), UNCHANGED daemon,
           last_sync_type' = "NET" =>
                \/ last_sync_type = "NET" /\ "E_TLSDATE_STATUS" \notin added
                \/ e = "E_TLSDATE_STATUS" /\ ~more /\ "E_TLSDATE_STATUS" \notin added
    PROVE  NetAsked'
<1>1. /\ Range(net_queue') \subseteq Range(net_queue)
      /\ ~more => e \notin Range(net_queue')
  BY RanFacts DEF LoopInv
<1>2. /\ armed' \subseteq armed \cup added
      /\ e = "E_TLSDATE_STATUS" => e \notin armed' \/ e \in added
  BY DEF Ran, OneShot
<1>3. daemon = "up"
  BY DEF Callback
<1> QED
  BY <1>1, <1>2, <1>3 DEF NetAsked

\* Every step keeps NetAsked.
LEMMA NextNetAsked ==
    ASSUME LoopInv, NetAsked, Requests = {}, "E_STEADYSTATE" \notin Wakes, [Next]_vars
    PROVE  NetAsked'
<1>0. CASE Exit
  BY <1>0, EmptySeq DEF Exit, Blank, NetAsked, Range
<1>1. CASE UNCHANGED <<daemon, last_sync_type, armed, net_queue>>
  BY <1>1 DEF NetAsked
<1>2. CASE Main
  <2>1. net_queue' = <<>> /\ last_sync_type' # "NET"
    BY <1>2, MainSane DEF Main, Blank
  <2> QED
    BY <2>1 DEF NetAsked, Range
<1>3. CASE Polls
  <2>1. PICK due \in SUBSET MayBeDue : Poll(due)
    BY <1>3 DEF Polls
  <2>2. Range(net_queue') \subseteq Range(net_queue) \cup Ready \cup due
    BY <2>1, PollFacts DEF LoopInv
  <2>3. "E_STEADYSTATE" \notin Ready /\ ("E_TLSDATE_STATUS" \in Ready => "E_TLSDATE_STATUS" \in armed)
    BY DEF Ready
  <2>4. "E_STEADYSTATE" \notin due /\ "E_TLSDATE_STATUS" \notin due
    BY DaemonAssumption DEF MayBeDue, Timers, WakeEvents
  <2>5. UNCHANGED <<daemon, last_sync_type, armed>>
    BY <2>1 DEF Poll, timeVars
  <2> QED
    BY <2>2, <2>3, <2>4, <2>5 DEF NetAsked
<1>4. CASE \/ Coprocess \/ CoprocessKilled \/ ChildWrites \/ ChildExits \/ StopChild
           \/ ClockJump \/ UNCHANGED vars
  BY <1>1, <1>4 DEF Coprocess, CoprocessKilled, CoprocessFrame, ChildWrites, ChildExits,
                    StopChild, ClockJump, vars, eventVars, timeVars
<1>5. CASE Sigterm \/ PowerLoss
  BY <1>0, <1>1, <1>5 DEF Sigterm, PowerLoss, eventVars, timeVars
<1>6. CASE Handler
  <2> USE DEF Return, timeVars
  <2>1. ASSUME NEW e \in Wakes, action_kickoff_time_sync(e) PROVE NetAsked'
    <3>1. PICK a \in SUBSET {"E_TLSDATE"} : Ran(e, FALSE, a, {})
      BY <2>1, KickoffArms DEF action_kickoff_time_sync
    <3>2. Callback(e) /\ UNCHANGED daemon /\ (last_sync_type' = "NET" => last_sync_type = "NET")
      BY <2>1 DEF action_kickoff_time_sync, Kickoff, KickoffFrame
    <3> QED
      BY <3>1, <3>2, RanAsked
  <2>2. CASE StdinBroken
    BY <2>2, RanAsked DEF StdinBroken, KickoffFrame
  <2>3. CASE action_invalidate_time
    BY <2>3, CallbackNet DEF action_invalidate_time, NetAsked, PRI_SAVE
  <2>4. CASE SaveSigpipe \/ SetterLost
    BY <1>0, <2>4 DEF SaveSigpipe, SetterLost
  <2>5. CASE action_time_set
    <3>1. CASE ~Exit
      <4>1. Callback("E_TIME_SET") /\ Ran("E_TIME_SET", FALSE, {}, {}) /\ UNCHANGED daemon
        BY <2>5, <3>1 DEF action_time_set
      <4>2. last_sync_type' = "NET" => last_sync_type = "NET"
        BY <2>5, <3>1, TimeSetFrame
      <4> QED
        BY <4>1, <4>2, RanAsked
    <3> QED
      BY <1>0, <3>1
  <2>6. CASE action_run_tlsdate
    <3>1. \/ last_sync_type = "NET" /\ Ran("E_TLSDATE", FALSE, {}, {})
          \/ last_sync_type # "NET" /\ \E a, d : Ran("E_TLSDATE", FALSE, a, d)
      BY <2>6 DEF action_run_tlsdate, Launched, LaunchFailed
    <3>2. Callback("E_TLSDATE") /\ UNCHANGED <<daemon, last_sync_type>>
      BY <2>6 DEF action_run_tlsdate
    <3> QED
      BY <3>1, <3>2, RanAsked
  <2>7. CASE action_tlsdate_timeout
    BY <2>7, RanAsked DEF action_tlsdate_timeout
  <2>8. CASE action_tlsdate_status
    <3>1. \/ Ran("E_TLSDATE_STATUS", FALSE, {"E_TLSDATE_TIMEOUT"}, {})
          \/ Ran("E_TLSDATE_STATUS", FALSE, {"E_SAVE"}, {})
          \/ Ran("E_TLSDATE_STATUS", FALSE, {}, {})
      BY <2>8 DEF action_tlsdate_status
    <3>2. Callback("E_TLSDATE_STATUS") /\ UNCHANGED daemon
      BY <2>8 DEF action_tlsdate_status
    <3> QED
      BY <3>1, <3>2, RanAsked
  <2>9. CASE action_sigchld
    <3>1. \/ Ran("E_SIGCHLD", FALSE, {}, {})
          \/ Ran("E_SIGCHLD", FALSE, {}, {"E_TLSDATE_TIMEOUT"})
          \/ Ran("E_SIGCHLD", FALSE, {"E_TLSDATE"}, {"E_TLSDATE_TIMEOUT"})
      BY <2>9 DEF action_sigchld, ReapTlsdate
    <3>2. Callback("E_SIGCHLD") /\ UNCHANGED <<daemon, last_sync_type>>
      BY <2>9 DEF action_sigchld
    <3> QED
      BY <3>1, <3>2, RanAsked
  <2>10. ASSUME NEW more \in BOOLEAN, service_dispatch(more) PROVE NetAsked'
    <3>1. /\ Callback("E_DBUS") /\ Ran("E_DBUS", more, {}, {}) /\ UNCHANGED daemon
          /\ last_sync_type' = "NET" => last_sync_type = "NET"
      BY <2>10 DEF service_dispatch, handle_last_sync_info, handle_can_set_time, KickoffFrame
    <3> QED
      BY <3>1, RanAsked
  <2>11. CASE action_sigterm
    BY <2>11, RanAsked DEF action_sigterm
  <2>12. CASE action_sync_and_save
    BY <2>12, RanAsked DEF action_sync_and_save
  <2>13. CASE SaveHangup
    BY <2>13, RanAsked DEF SaveHangup
  <2> QED
    BY <1>6, <2>1, <2>2, <2>3, <2>4, <2>5, <2>6, <2>7, <2>8, <2>9, <2>10, <2>11, <2>12, <2>13 DEF Handler
<1> QED
  BY <1>2, <1>3, <1>4, <1>5, <1>6 DEF Next, Environment

\* Every step keeps SaveArmed.
LEMMA NextSaveArmed == ASSUME LoopInv, SaveArmed, HangupTrue, [Next]_vars PROVE SaveArmed'
<1>1. CASE Main \/ PowerLoss \/ Leaving
  BY <1>1 DEF Main, PowerLoss, Exit, Blank, Leaving, SaveArmed, Range
<1>2. CASE /\ Range(save_queue') \subseteq Range(save_queue)
           /\ "E_SAVE" \in armed => "E_SAVE" \in armed'
           /\ UNCHANGED daemon
           /\ setter = "dead" => setter' = "dead"
  BY <1>2 DEF SaveArmed
<1>3. CASE ClockJump \/ Caught \/ Learning \/ UNCHANGED beliefVars
  BY <1>2, <1>3 DEF ClockJump, Caught, Learning, beliefVars, eventVars
<1>4. CASE action_sigterm \/ (action_time_set /\ ~Exit)
  BY <1>2, <1>4, SigtermFrame, TimeSetFrame
<1>5. CASE SetterMoves
  <2>1. setter # "dead"
    BY <1>5 DEF SetterMoves, SetterStep, SetterKilled, Start, ReadTime, ReadEnd, SetTimeOfDay,
                RtcWrite, SaveTimestamp, Notify
  <2> QED
    BY <1>2, <1>5, <2>1 DEF SetterMoves
<1>6. CASE Polled
  BY <1>6 DEF Polled, SaveArmed
<1>7. CASE action_sync_and_save \/ SaveHangup
  BY <1>7, SaveFrame, HangupFrame DEF SaveArmed, HangupTrue
<1> QED
  BY <1>1, <1>3, <1>4, <1>5, <1>6, <1>7, NextEffect

\* The setter leaves the number of words and statuses under way as it is, and
\* the clock too when there are none.
LEMMA SetterBusy ==
    ASSUME LoopInv, SetterMoves, daemon = "up", Live'
    PROVE  Live /\ Busy' = Busy /\ (Busy = 0 => UNCHANGED <<clock, status, time_pipe, notify_pipe>>)
<1> USE DEF Live
<1>0. /\ time_pipe \in Seq(Time) /\ Len(time_pipe) \in Nat
      /\ notify_pipe \in Seq(SETTER_STATUS \cup {BOGUS}) /\ Len(notify_pipe) \in Nat
      /\ time_pipe = <<>> <=> Len(time_pipe) = 0
  BY LenProperties, EmptySeq DEF LoopInv, TypeOK, SetterTypeOK
<1>1. CASE Start
  BY <1>1 DEF Start, Die, Busy, pipes
<1>2. CASE ReadTime
  <2>1. Len(time_pipe') = Len(time_pipe) - 1 /\ Len(time_pipe) \in Nat \ {0}
    BY <1>2, UnreadFacts DEF ReadTime, Unread, LoopInv, TypeOK
  <2>2. /\ setter = "read" /\ setter' \in {"settimeofday", "notify"} /\ UNCHANGED notify_pipe
    BY <1>2 DEF ReadTime, Die, FirstStep
  <2> QED
    BY <1>0, <2>1, <2>2 DEF Busy
<1>3. CASE ReadEnd
  BY <1>3 DEF ReadEnd, Die
<1>4. CASE SetTimeOfDay \/ RtcWrite \/ SaveTimestamp
  <2>1. /\ setter \in {"settimeofday", "rtc_write", "save"}
        /\ setter' \in {"settimeofday", "rtc_write", "save", "notify"} /\ UNCHANGED <<time_pipe, notify_pipe>>
    BY <1>4 DEF SetTimeOfDay, AfterClock, RtcWrite, SaveTimestamp, Die, pipes
  <2> QED
    BY <1>0, <2>1 DEF Busy
<1>5. CASE Notify
  <2>1. setter = "notify" /\ setter' = "read" /\ UNCHANGED time_pipe
    BY <1>5 DEF Notify
  <2>2. PICK s \in Written : notify_pipe' = Append(notify_pipe, s)
    BY <1>5, <2>1 DEF Notify
  <2>3. s \in SETTER_STATUS \cup {BOGUS}
    BY <2>2 DEF Written, LoopInv, TypeOK, SetterTypeOK
  <2>4. Len(notify_pipe') = Len(notify_pipe) + 1
    BY <1>0, <2>2, <2>3, AppendProperties
  <2> QED
    BY <1>0, <2>1, <2>4 DEF Busy
<1> QED
  BY <1>1, <1>2, <1>3, <1>4, <1>5 DEF SetterMoves, SetterStep, SetterKilled

\* Every step keeps InTurn.
LEMMA NextInTurn ==
    ASSUME LoopInv, FirstWord, Answered, HangupTrue, NoTerm, NetAsked, SaveArmed, InTurn,
           Requests = {}, JumpTimes = {}, [Next]_vars
    PROVE  InTurn'
<1>0. /\ Len(time_pipe) \in Nat /\ Len(notify_pipe) \in Nat /\ Busy \in Nat
      /\ notify_pipe \in Seq(SETTER_STATUS \cup {BOGUS})
      /\ time_pipe = <<>> <=> Len(time_pipe) = 0
      /\ notify_pipe = <<>> <=> Len(notify_pipe) = 0
      /\ clock.sec \in Int /\ clock_delta \in Int
  BY LenProperties, EmptySeq, TimeFacts DEF LoopInv, TypeOK, SetterTypeOK, Busy
<1>1. CASE Main
  <2>1. Busy' = 0 /\ clock_delta' = 0 /\ status' = "UNINIT" /\ time_pipe' = <<>> /\ notify_pipe' = <<>>
    BY <1>1 DEF Main, Blank, Busy
  <2> QED
    BY <2>1 DEF InTurn
<1>2. CASE PowerLoss \/ Leaving
  BY <1>2 DEF PowerLoss, Exit, Leaving, InTurn
<1>3. CASE /\ UNCHANGED <<daemon, setter, status, time_pipe, notify_pipe, clock, last_sync_type, clock_delta>>
           /\ "E_SAVE" \in armed' => "E_SAVE" \in armed
  BY <1>3 DEF InTurn, Busy, Live
<1>4. CASE Polled \/ Caught \/ UNCHANGED beliefVars
  BY <1>3, <1>4 DEF Polled, Caught, beliefVars
<1>5. CASE Learning /\ Believes
  <2>1. UNCHANGED <<daemon, setter, status, time_pipe, notify_pipe, clock>> /\ Busy' = Busy /\ Live' = Live
    BY <1>5 DEF Learning, Busy, Live
  <2>2. CASE /\ UNCHANGED <<last_sync_type, clock_delta>>
             /\ "E_SAVE" \in armed' => "E_SAVE" \in armed
    BY <1>3, <2>1, <2>2
  <2>3. CASE /\ Desync(clock_delta) /\ clock_delta' = 0 /\ last_sync_type' = "RTC"
             /\ "E_SAVE" \in armed' => "E_SAVE" \in armed
    <3>1. clock_delta # 0 /\ clock_delta # clock.sec
      BY <1>0, <2>3, DaemonAssumption DEF Desync
    <3> QED
      BY <1>0, <2>1, <2>3, <3>1 DEF InTurn
  <2>4. CASE last_sync_type # "NET" /\ last_sync_type' = "NET" /\ UNCHANGED clock_delta
    BY <1>0, <2>1, <2>4 DEF InTurn
  <2> QED
    BY <1>5, <2>2, <2>3, <2>4 DEF Believes
<1>6. CASE action_sync_and_save
  <2>1. /\ daemon = "up" /\ "E_SAVE" \notin armed'
        /\ UNCHANGED <<daemon, setter, notify_pipe, clock, last_sync_type, clock_delta>>
    BY <1>6, SaveFrame
  <2>2. SUFFICES ASSUME Live PROVE InTurn'
    BY <2>1 DEF InTurn, Live
  <2>3. "E_SAVE" \in armed
    BY <1>6, <2>1, <2>2, CallbackQueued DEF action_sync_and_save, SaveArmed, Live, PRI_SAVE
  <2>4. Len(time_pipe') = Len(time_pipe) + 1
    BY <1>6, <2>2, SaveWrites DEF NoTerm, Live
  <2>5. Busy' = Busy + 1
    BY <1>0, <2>1, <2>4 DEF Busy
  <2>6. last_sync_type # "NET" => Busy = 0
    <3>1. SUFFICES ASSUME last_sync_type # "NET" PROVE Busy = 0
      OBVIOUS
    <3>2. status = "UNINIT" /\ time_pipe = <<>> /\ notify_pipe = <<>>
      BY <2>1, <2>2, <2>3, <3>1 DEF InTurn
    <3>3. setter \in {"start", "read", "dead"}
      BY <3>2 DEF FirstWord
    <3> QED
      BY <1>0, <3>2, <3>3 DEF Busy
  <2>7. Busy <= 1 /\ (clock_delta # 0 => Busy = 0 /\ last_sync_type = "NET")
    BY <2>1, <2>2, <2>3 DEF InTurn
  <2> QED
    BY <1>0, <2>1, <2>5, <2>6, <2>7 DEF InTurn
<1>7. CASE action_time_set /\ ~Exit
  <2>1. /\ daemon = "up" /\ UNCHANGED <<daemon, armed, setter, status, time_pipe, clock>>
    BY <1>7, TimeSetFrame
  <2>2. SUFFICES ASSUME Live PROVE InTurn'
    BY <2>1 DEF InTurn, Live
  <2>3. CASE notify_pipe = <<>>
    BY <1>3, <1>7, <2>1, <2>3 DEF action_time_set, timeVars
  <2>4. CASE notify_pipe # <<>>
    <3>1. Head(notify_pipe) = notify_pipe[1] /\ Len(notify_pipe) \in Nat \ {0}
      BY <1>0, <2>4, HeadTailProperties
    <3>2. Head(notify_pipe) = "TIME_SET"
      BY <2>2, <3>1 DEF Answered, Live
    <3>3. handle_time_setter("TIME_SET") /\ notify_pipe' = Tail(notify_pipe)
      BY <1>7, <2>4, <3>2 DEF action_time_set
    <3>4. Len(notify_pipe') = Len(notify_pipe) - 1
      BY <1>0, <2>4, <3>3, HeadTailProperties
    <3>5. Busy' = Busy - 1 /\ Busy > 0
      BY <1>0, <2>1, <3>1, <3>4 DEF Busy
    <3>6. UNCHANGED last_sync_type
      BY <3>3 DEF handle_time_setter, timeVars
    <3>7. \/ last_sync_type = "NET" /\ clock_delta' = clock.sec
          \/ last_sync_type # "NET" /\ UNCHANGED clock_delta
      BY <3>3 DEF handle_time_setter, timeVars
    <3>8. "E_SAVE" \in armed => last_sync_type = "NET"
      BY <2>1, <2>2, <2>4 DEF InTurn
    <3> QED
      BY <1>0, <2>1, <2>2, <3>5, <3>6, <3>7, <3>8 DEF InTurn
  <2> QED
    BY <2>3, <2>4
<1>8. CASE SetterMoves
  <2>1. UNCHANGED <<daemon, last_sync_type, clock_delta, armed>>
    BY <1>8 DEF SetterMoves
  <2>2. SUFFICES ASSUME daemon = "up", Live' PROVE InTurn'
    BY <2>1 DEF InTurn
  <2>3. Live /\ Busy' = Busy /\ (Busy = 0 => UNCHANGED <<clock, status, time_pipe, notify_pipe>>)
    BY <1>8, <2>2, SetterBusy
  <2>4. status = "UNINIT" /\ time_pipe = <<>> /\ notify_pipe = <<>> => Busy = 0
    BY <1>0, <2>3 DEF FirstWord, Busy
  <2> QED
    BY <1>0, <2>1, <2>2, <2>3, <2>4 DEF InTurn
<1>9. CASE action_sigterm \/ SaveHangup
  BY <1>9, SigtermFrame, HangupFrame DEF NoTerm, HangupTrue, InTurn, Live
<1> QED
  BY <1>1, <1>2, <1>4, <1>5, <1>6, <1>7, <1>8, <1>9, NextEffect, NextBelieves DEF ClockJump

\* main() starts with a time that is not behind the file.
LEMMA MainAbove ==
    ASSUME LoopInv, DiskIsNetTime, should_load_disk, Main
    PROVE  last_time'.sec >= disk.sec
<1>1. disk.sec \in Int /\ clock.sec \in Int
  BY TimeFacts DEF LoopInv, TypeOK, SetterTypeOK
<1>2. CASE DiskBetter
  BY <1>1, <1>2 DEF Main, StartupTime, StartWith
<1>3. CASE ~DiskBetter /\ DiskTime
  BY <1>1, <1>3 DEF Main, StartupTime, StartWith, DiskBetter
<1>4. CASE ~DiskBetter /\ ~DiskTime
  <2>1. disk = NoTime
    BY <1>4 DEF DiskTime, DiskIsNetTime
  <2>2. is_sane_time(last_time'.sec) /\ (last_time'.sec = clock.sec \/ last_time'.sec = RECENT_COMPILE_DATE + 1)
    BY <1>4, MainSane DEF Main, StartupTime, StartWith, Local
  <2> QED
    BY <1>1, <2>1, <2>2, DatesAssumption DEF NoTime, is_sane_time
<1> QED
  BY <1>2, <1>3, <1>4

\* No callback but that of E_SAVE comes before the first word.
LEMMA NoneBefore ==
    ASSUME FirstWord, Live, daemon = "up", status = "UNINIT", time_pipe = <<>>,
           NEW e, Callback(e)
    PROVE  e = "E_SAVE" /\ is_sane_time(last_time.sec)
BY DEF FirstWord, SaveComesFirst, Callback, Live, PRI_SAVE

\* Every step keeps FirstAbove.
LEMMA NextFirstAbove ==
    ASSUME LoopInv, FirstWord, HangupTrue, NoTerm, DiskIsNetTime, FirstAbove,
           should_load_disk, JumpTimes = {}, [Next]_vars
    PROVE  FirstAbove'
<1>0. time_pipe \in Seq(Time) /\ Len(time_pipe) \in Nat /\ (time_pipe = <<>> <=> Len(time_pipe) = 0)
  BY LenProperties, EmptySeq DEF LoopInv, TypeOK, SetterTypeOK
<1>1. CASE Main
  <2>1. time_pipe' = <<>> /\ disk' = disk
    BY <1>1 DEF Main, stores
  <2> QED
    BY <1>1, <2>1, MainAbove DEF FirstAbove
<1>2. CASE PowerLoss \/ Leaving
  BY <1>2 DEF PowerLoss, Leaving, FirstAbove, Live
<1>3. CASE UNCHANGED <<daemon, setter, status, time_pipe, disk, last_time>>
  BY <1>3 DEF FirstAbove, Live
<1>4. CASE Polled \/ Caught \/ UNCHANGED beliefVars
  BY <1>3, <1>4 DEF Polled, Caught, beliefVars
<1>5. CASE Learning \/ (action_time_set /\ ~Exit)
  <2>1. UNCHANGED <<daemon, setter, status, time_pipe, disk>>
    BY <1>5, TimeSetFrame DEF Learning
  <2>2. \E e : Callback(e) /\ e # "E_SAVE"
    BY <1>5, TimeSetFrame DEF Learning
  <2>3. ~(Live /\ daemon = "up" /\ status = "UNINIT" /\ time_pipe = <<>>)
    BY <2>2, NoneBefore
  <2> QED
    BY <2>1, <2>3 DEF FirstAbove, Live
<1>6. CASE action_sync_and_save
  <2>1. daemon = "up" /\ UNCHANGED <<daemon, setter, status, disk>>
    BY <1>6, SaveFrame
  <2>2. SUFFICES ASSUME Live, status = "UNINIT" PROVE FirstAbove'
    BY <2>1 DEF FirstAbove, Live
  <2>3. /\ Len(time_pipe') = Len(time_pipe) + 1
        /\ time_pipe'[Len(time_pipe) + 1] = SaveWord
        /\ \A i \in 1 .. Len(time_pipe) : time_pipe'[i] = time_pipe[i]
    BY <1>6, <2>2, SaveWrites DEF NoTerm, Live
  <2>4. time_pipe' \in Seq(Time) /\ time_pipe' # <<>> /\ Head(time_pipe') = time_pipe'[1]
    <3>1. time_pipe' \in Seq(Time)
      BY <1>6, SaveLoop DEF LoopInv, TypeOK, SetterTypeOK
    <3>2. time_pipe' # <<>>
      BY <1>0, <2>3, EmptySeq
    <3> QED
      BY <3>1, <3>2, HeadTailProperties
  <2>5. CASE time_pipe # <<>>
    <3>1. Head(time_pipe) = time_pipe[1] /\ Len(time_pipe) > 0
      BY <1>0, <2>5, HeadTailProperties
    <3>2. Head(time_pipe') = Head(time_pipe)
      BY <1>0, <2>3, <2>4, <3>1
    <3> QED
      BY <2>1, <2>2, <2>4, <2>5, <3>2 DEF FirstAbove, Magnitude
  <2>6. CASE time_pipe = <<>>
    <3>1. is_sane_time(last_time.sec)
      BY <1>6, <2>1, <2>2, <2>6, NoneBefore DEF action_sync_and_save
    <3>2. Magnitude(SaveWord) = last_time
      BY <3>1, SaveWordStandsFor DEF LoopInv, TypeOK
    <3>3. Head(time_pipe') = SaveWord
      BY <1>0, <2>3, <2>4, <2>6
    <3>4. Magnitude(Head(time_pipe')).sec >= disk.sec
      BY <2>1, <2>2, <2>6, <3>2, <3>3 DEF FirstAbove
    <3> QED
      BY <2>1, <2>4, <3>4 DEF FirstAbove, Magnitude
  <2> QED
    BY <2>5, <2>6
<1>7. CASE SetterMoves
  <2>1. SUFFICES ASSUME Live', status' = "UNINIT" PROVE FirstAbove'
    BY DEF FirstAbove
  <2>2. CASE Start
    BY <1>7, <2>1, <2>2 DEF SetterMoves, Start, Die, FirstAbove, Live, pipes
  <2>3. CASE ReadTime
    <3>1. Head(time_pipe) \in Time /\ time_pipe # <<>> /\ setter = "read"
      BY <2>3, HeadFacts DEF ReadTime, LoopInv, TypeOK, SetterTypeOK
    <3>2. status = "UNINIT" /\ ~is_sane_time(Magnitude(Head(time_pipe)).sec)
      BY <2>1, <2>3, DatesAssumption DEF ReadTime, Die, Magnitude, Live, is_sane_time
    <3>3. SaneWord(Head(time_pipe))
      BY <3>1, <3>2 DEF FirstWord
    <3> QED
      BY <3>1, <3>2, <3>3, TimeFacts, DatesAssumption DEF SaneWord, Magnitude, Negated, is_sane_time
  <2>4. CASE ReadEnd \/ SetTimeOfDay \/ RtcWrite \/ SaveTimestamp \/ Notify \/ SetterKilled
    BY <2>1, <2>4 DEF ReadEnd, SetTimeOfDay, RtcWrite, SaveTimestamp, Notify, SetterKilled, Die, Live,
                      FirstWord
  <2> QED
    BY <1>7, <2>2, <2>3, <2>4 DEF SetterMoves, SetterStep
<1>8. CASE action_sigterm \/ SaveHangup
  BY <1>8, SigtermFrame, HangupFrame DEF NoTerm, HangupTrue, FirstAbove, Live
<1> QED
  BY <1>1, <1>2, <1>4, <1>5, <1>6, <1>7, <1>8, NextEffect DEF ClockJump

\* Every step keeps LaterSaved.
LEMMA NextLaterSaved ==
    ASSUME LoopInv, FirstWord, BeliefSane, HangupTrue, NoTerm, SaveArmed, InTurn, LaterSaved,
           JumpTimes = {}, [Next]_vars
    PROVE  LaterSaved'
<1>0. time_pipe \in Seq(Time) /\ Len(time_pipe) \in Nat /\ (time_pipe = <<>> <=> Len(time_pipe) = 0)
  BY LenProperties, EmptySeq DEF LoopInv, TypeOK, SetterTypeOK
<1>1. CASE Main \/ PowerLoss
  BY <1>1, EmptySeq DEF Main, PowerLoss, LaterSaved
<1>2. CASE UNCHANGED <<setter, status, time_pipe>>
  BY <1>2 DEF LaterSaved, Live
<1>3. CASE Polled \/ Caught \/ Learning \/ Leaving \/ (action_time_set /\ ~Exit) \/ UNCHANGED beliefVars
  BY <1>2, <1>3, TimeSetFrame DEF Polled, Caught, Learning, Leaving, beliefVars
<1>4. CASE action_sync_and_save
  <2>1. daemon = "up" /\ UNCHANGED <<daemon, setter, status>>
    BY <1>4, SaveFrame
  <2>2. SUFFICES ASSUME Live PROVE LaterSaved'
    BY <2>1 DEF LaterSaved, Live
  <2>3. /\ Len(time_pipe') = Len(time_pipe) + 1
        /\ time_pipe'[Len(time_pipe) + 1] = SaveWord
        /\ \A i \in 1 .. Len(time_pipe) : time_pipe'[i] = time_pipe[i]
    BY <1>4, <2>2, SaveWrites DEF NoTerm, Live
  <2>4. "E_SAVE" \in armed
    BY <1>4, <2>1, <2>2, CallbackQueued DEF action_sync_and_save, SaveArmed, Live, PRI_SAVE
  <2>5. ASSUME Len(time_pipe) > 0 \/ status # "UNINIT" PROVE SaveWord.sec >= 0
    <3>1. last_sync_type = "NET"
      BY <1>0, <2>1, <2>2, <2>4, <2>5 DEF InTurn
    <3>2. is_sane_time(last_time.sec) /\ last_time.sec \in Int
      BY <2>1, <3>1, TimeFacts DEF BeliefSane, NoTerm, LoopInv, TypeOK
    <3> QED
      BY <3>1, <3>2, DatesAssumption DEF SaveWord, is_sane_time
  <2> QED
    BY <1>0, <2>1, <2>2, <2>3, <2>5 DEF LaterSaved
<1>5. CASE SetterMoves
  <2>1. SUFFICES ASSUME Live' PROVE LaterSaved'
    BY DEF LaterSaved
  <2>2. CASE ReadTime
    <3>1. /\ Len(time_pipe) \in Nat \ {0} /\ Len(time_pipe') = Len(time_pipe) - 1
          /\ \A i \in 1 .. Len(time_pipe') : time_pipe'[i] = time_pipe[i + 1]
      BY <2>2, UnreadFacts DEF ReadTime, Unread, LoopInv, TypeOK
    <3>2. \A i \in 1 .. Len(time_pipe) : i > 1 => time_pipe[i].sec >= 0
      BY <2>2 DEF ReadTime, LaterSaved, Live
    <3> QED
      BY <3>1, <3>2 DEF LaterSaved
  <2>3. CASE Start \/ ReadEnd \/ SetTimeOfDay \/ RtcWrite \/ SaveTimestamp \/ Notify \/ SetterKilled
    <3>1. UNCHANGED time_pipe /\ Live /\ (status = "UNINIT" => status' = "UNINIT")
      BY <2>1, <2>3 DEF Start, ReadEnd, SetTimeOfDay, RtcWrite, SaveTimestamp, Notify, SetterKilled, Die,
                        Live, pipes, FirstWord
    <3> QED
      BY <3>1 DEF LaterSaved
  <2> QED
    BY <1>5, <2>2, <2>3 DEF SetterMoves, SetterStep
<1>6. CASE action_sigterm \/ SaveHangup
  BY <1>6, SigtermFrame, HangupFrame DEF NoTerm, HangupTrue, LaterSaved, Live
<1> QED
  BY <1>1, <1>3, <1>4, <1>5, <1>6, NextEffect DEF ClockJump

\* Every step keeps TvAbove and ClockAbove: a time that goes to disk takes the
\* clock with it, and the others are not behind the file.
LEMMA NextClockAbove ==
    ASSUME LoopInv, FirstWord, Answered, ClockSet, FirstAbove, LaterSaved, TvAbove, ClockAbove,
           should_save_disk, ~dry_run, JumpTimes = {}, [Next]_vars
    PROVE  TvAbove' /\ ClockAbove'
<1>0. clock.sec \in Int /\ disk.sec \in Int /\ tv.sec \in Int
  BY TimeFacts DEF LoopInv, TypeOK, SetterTypeOK
<1>1. CASE Main \/ PowerLoss
  BY <1>1 DEF Main, PowerLoss, TvAbove, ClockAbove, Applying
<1>2. CASE UNCHANGED <<setter, status, tv, save, clock, disk>>
  BY <1>2 DEF TvAbove, ClockAbove, Applying
<1>3. CASE Polled \/ Caught \/ Learning \/ Leaving \/ UNCHANGED beliefVars
  BY <1>2, <1>3 DEF Polled, Caught, Learning, Leaving, beliefVars
<1>4. CASE action_sigterm \/ action_sync_and_save \/ SaveHangup \/ (action_time_set /\ ~Exit)
  BY <1>2, <1>4, SigtermFrame, SaveFrame, HangupFrame, TimeSetFrame
<1>5. CASE ReadTime
  <2>1. /\ Len(time_pipe) \in Nat \ {0} /\ Head(time_pipe) = time_pipe[1] /\ Head(time_pipe) \in Time
        /\ time_pipe # <<>> /\ setter = "read" /\ UNCHANGED <<clock, disk>>
    BY <1>5, UnreadFacts DEF ReadTime, Unread, LoopInv, TypeOK, stores
  <2>2. /\ tv' = Magnitude(Head(time_pipe)) /\ save' = (Head(time_pipe).sec >= 0)
        /\ setter' \in {"settimeofday", "notify", "die"}
    BY <1>5 DEF ReadTime, Die, FirstStep, SavesToDisk, Magnitude
  <2>3. Head(time_pipe).sec >= 0 \/ Magnitude(Head(time_pipe)).sec >= disk.sec
    BY <2>1 DEF LaterSaved, FirstAbove, Live
  <2>4. ASSUME setter' = "notify" PROVE status # "UNINIT"
    <3>1. ~is_sane_time(Magnitude(Head(time_pipe)).sec)
      BY <1>5, <2>4 DEF ReadTime, Die, FirstStep, Magnitude
    <3>2. ~SaneWord(Head(time_pipe))
      BY <2>1, <3>1, TimeFacts, DatesAssumption DEF SaneWord, Magnitude, Negated, is_sane_time
    <3> QED
      BY <2>1, <3>2 DEF FirstWord
  <2>5. TvAbove'
    BY <2>1, <2>2, <2>3 DEF TvAbove
  <2>6. ClockAbove'
    BY <2>1, <2>2, <2>4 DEF ClockAbove
  <2> QED
    BY <2>5, <2>6
<1>6. CASE Start
  BY <1>6 DEF Start, Die, Answered, TvAbove, ClockAbove, Applying
<1>7. CASE SetTimeOfDay \/ RtcWrite
  BY <1>7 DEF SetTimeOfDay, AfterClock, RtcWrite, Die, TvAbove, ClockAbove, Applying
<1>8. CASE SaveTimestamp
  <2>1. clock = tv /\ UNCHANGED clock
    BY <1>8 DEF SaveTimestamp, ClockSet
  <2>2. setter' = "die" \/ (setter' = "notify" /\ disk' = IF save THEN tv ELSE disk)
    BY <1>8 DEF SaveTimestamp, Die, SaveFd
  <2>3. save \/ tv.sec >= disk.sec
    BY <1>8 DEF SaveTimestamp, TvAbove, Applying
  <2> QED
    BY <1>0, <2>1, <2>2, <2>3 DEF TvAbove, ClockAbove, Applying
<1>9. CASE Notify \/ ReadEnd \/ SetterKilled
  BY <1>9 DEF Notify, ReadEnd, SetterKilled, Die, TvAbove, ClockAbove, Applying, stores
<1> QED
  BY <1>1, <1>3, <1>4, <1>5, <1>6, <1>7, <1>8, <1>9, NextEffect DEF SetterMoves, SetterStep, ClockJump

\* After any number of crashes, failures and restarts, at whatever step of the
\* daemon or the setter, the clock is not behind the timestamp file once the
\* setter is idle.  The setter has a file to write to, the time comes from
\* main() and from the network only, and the steady-state timer is off: it is
\* due a day after the start, but durations are not modelled, and a timer that
\* overtook a pending E_SAVE would send the clock in place of the network's time.
THEOREM ClockIsAboveDisk ==
    ASSUME should_save_disk, ~dry_run, JumpTimes = {}, Requests = {},
           "sigterm" \notin Faults, "E_STEADYSTATE" \notin Wakes
    PROVE  Spec => []ClockAboveDisk
<1> DEFINE Inv == /\ DiskInv /\ Answered /\ ClockSet /\ HangupTrue
                  /\ should_load_disk => AboveInv
<1>1. Init => Inv
  <2>1. SUFFICES ASSUME Init PROVE Inv
    OBVIOUS
  <2>2. DiskInv /\ Answered /\ ClockSet /\ HangupTrue
    <3>1. clock.sec >= 0 /\ DiskIsNetTime
      BY <2>1, DaemonAssumption DEF Init, Local, FromNet, DiskIsNetTime
    <3>2. NoTerm /\ TvSane /\ BeliefSane /\ OnlyNet
      BY <2>1, <3>1, EmptySeq DEF Init, NoTerm, TvSane, BeliefSane, OnlyNet, Applying, NoTime, Range
    <3> QED
      BY <2>1, <3>1, <3>2, EmptySeq DEF Init, DiskInv, Answered, ClockSet, HangupTrue
  <2>3. AboveInv
    BY <2>1 DEF Init, AboveInv, NetAsked, SaveArmed, InTurn, FirstAbove, LaterSaved, TvAbove, ClockAbove,
                Live, Applying, Range
  <2> QED
    BY <2>2, <2>3
<1>2. LoopInv /\ FirstWord /\ Inv /\ [Next]_vars => Inv'
  <2>1. SUFFICES ASSUME LoopInv, FirstWord, Inv, [Next]_vars PROVE Inv'
    OBVIOUS
  <2>2. DiskInv' /\ Answered' /\ ClockSet' /\ HangupTrue'
    BY <2>1, NextDisk, NextAnswered, NextClockSet, NextHangup
  <2>3. ASSUME should_load_disk PROVE AboveInv'
    BY <2>1, <2>3, NextNetAsked, NextSaveArmed, NextInTurn, NextFirstAbove, NextLaterSaved, NextClockAbove
       DEF AboveInv, DiskInv
  <2> QED
    BY <2>2, <2>3
<1>3. FirstWord /\ Inv => ClockAboveDisk
  BY DEF FirstWord, SaveComesFirst, AboveInv, ClockAbove, ClockAboveDisk, Quiet
<1> QED
  <2> HIDE DEF Inv
  <2> QED
    BY <1>1, <1>2, <1>3, LoopInvariance, FirstWordInvariance, PTL DEF Spec

-----------------------------------------------------------------------------
(* A dry run.                                                              *)

\* In a dry run the setter is never where it would write to a clock or to the
\* file (FirstStep skips them).
Dry == dry_run => setter \notin {"settimeofday", "rtc_write", "save"}

\* What a step does to the setter's place and to the stores in a dry run.
LEMMA NextDry ==
    ASSUME LoopInv, Dry, dry_run, JumpTimes = {}, "restart" \notin Faults, [Next]_vars
    PROVE  Dry' /\ UNCHANGED stores
<1> USE DEF stores
<1>1. CASE \/ Polled \/ Caught \/ Learning \/ Leaving
           \/ UNCHANGED beliefVars
  BY <1>1 DEF Polled, Caught, Learning, Leaving, beliefVars, Dry
<1>2. CASE Main
  BY <1>2 DEF Main, Dry
<1>3. CASE action_sigterm \/ action_sync_and_save \/ SaveHangup \/ action_time_set
  BY <1>3 DEF action_sigterm, action_sync_and_save, SaveHangup, action_time_set, setterVars, Dry
<1>4. CASE Start \/ ReadTime
  BY <1>4 DEF Start, SaveFd, ReadTime, FirstStep, Die, Dry
<1>5. CASE ReadEnd \/ Notify \/ SetterKilled
  BY <1>5 DEF ReadEnd, Notify, SetterKilled, Die, Dry
<1>6. CASE SetTimeOfDay \/ RtcWrite \/ SaveTimestamp
  BY <1>6 DEF SetTimeOfDay, RtcWrite, SaveTimestamp, Dry
<1> QED
  BY <1>1, <1>2, <1>3, <1>4, <1>5, <1>6, NextEffect
     DEF SetterMoves, SetterStep, ClockJump, PowerLoss

\* With -p neither clock nor file changes, whatever the child, the clients of
\* D-Bus and the signals do to the daemon, its shutdown included, as long as
\* nobody else sets the clock.
THEOREM DryDaemonIsDry ==
    ASSUME JumpTimes = {}, "restart" \notin Faults
    PROVE  Spec => DryRunTouchesNothing
<1>1. Init => Dry
  BY DEF Init, Dry
<1>2. LoopInv /\ Dry /\ [Next]_vars => Dry'
  BY NextDry DEF Dry
<1>3. LoopInv /\ Dry /\ [Next]_vars => [~dry_run]_stores
  BY NextDry
<1> QED
  BY <1>1, <1>2, <1>3, LoopInvariance, PTL DEF Spec, DryRunTouchesNothing
=============================================================================
