---------------------------- MODULE TimeService ----------------------------
(***************************************************************************)
(* What a client may rely on from the time setter, whatever its steps are: *)
(* words are served one at a time and in order, each brings every store    *)
(* that it is for to its time, the clock first and the disk last, and is   *)
(* answered once with TIME_SET; a service that cannot do so says why and   *)
(* serves nothing more.                                                    *)
(***************************************************************************)
EXTENDS TlsdateDefs, Sequences

CONSTANTS
    should_save_disk, dry_run, should_sync_hwclock,
    Accepted   \* the words a client may send

VARIABLES
    todo,      \* words accepted and not answered
    left,      \* stores the first of them has not reached, or Idle
    answers,   \* answers the client has not read
    state,     \* "up", the reason why the service ends, or "dead"
    clock, rtc, disk

vars == <<todo, left, answers, state, clock, rtc, disk>>

Idle == {"idle"}

\* The time that a word of either sign stands for.
TimeOf(w) == IF w.sec < 0 THEN Negated(w) ELSE w

\* The stores a word is for.
Wanted(w) ==
    {s \in {"clock", "rtc", "disk"} :
        /\ is_sane_time(TimeOf(w).sec) /\ ~dry_run
        /\ s = "rtc" => should_sync_hwclock
        /\ s = "disk" => should_save_disk /\ w.sec >= 0}

Init ==
    /\ todo = <<>> /\ left = Idle /\ answers = <<>> /\ state = "up"
    /\ clock \in Time /\ rtc \in Time /\ disk \in Time

\* The client.
Send ==
    /\ \E w \in Accepted : todo' = Append(todo, w)
    /\ UNCHANGED <<left, answers, state, clock, rtc, disk>>

Receive ==
    /\ answers # <<>> /\ answers' = Tail(answers)
    /\ UNCHANGED <<todo, left, state, clock, rtc, disk>>

Begin ==
    /\ state = "up" /\ left = Idle /\ todo # <<>> /\ Head(todo).sec # 0
    /\ left' = Wanted(Head(todo))
    /\ UNCHANGED <<todo, answers, state, clock, rtc, disk>>

\* One store gets the time; a step for the clock comes before one for the
\* hardware clock, and that before one for the disk.
Reach(s) ==
    /\ state = "up" /\ s \in left /\ left # Idle
    /\ s = "rtc" => "clock" \notin left
    /\ s = "disk" => "clock" \notin left /\ "rtc" \notin left
    /\ left' = left \ {s}
    /\ clock' = IF s = "clock" THEN TimeOf(Head(todo)) ELSE clock
    /\ rtc' = IF s = "rtc" THEN TimeOf(Head(todo)) ELSE rtc
    /\ disk' = IF s = "disk" THEN TimeOf(Head(todo)) ELSE disk
    /\ UNCHANGED <<todo, answers, state>>

\* An insane time is answered too, with any word, and has changed nothing.
Answer ==
    /\ state = "up" /\ left = {}
    /\ \E a \in SETTER_STATUS \cup {BOGUS} :
        /\ is_sane_time(TimeOf(Head(todo)).sec) => a = "TIME_SET"
        /\ answers' = Append(answers, a)
    /\ left' = Idle /\ todo' = Tail(todo)
    /\ UNCHANGED <<state, clock, rtc, disk>>

\* The end, asked for by a word 0 or not.  The word being served is given up;
\* a service that has nowhere to save to may drop the old timestamp.
Stop(why) ==
    /\ state = "up" /\ state' = why
    /\ \/ /\ why = "EXIT" /\ left = Idle /\ todo # <<>> /\ Head(todo).sec = 0
          /\ todo' = Tail(todo)
       \/ /\ why \notin {"EXIT", "TIME_SET", "BAD_TIME", "up"}
          /\ todo' = IF left = Idle THEN todo ELSE Tail(todo)
    /\ left' = Idle
    /\ disk' = disk \/ (disk' = NoTime /\ why = "NO_SAVE" /\ left = Idle)
    /\ UNCHANGED <<answers, clock, rtc>>

\* The reason is the last answer, if there is still someone to tell.
Dead ==
    /\ state \notin {"up", "dead"} /\ state' = "dead"
    /\ answers' = answers \/ answers' = Append(answers, state)
    /\ UNCHANGED <<todo, left, clock, rtc, disk>>

Next ==
    \/ Send \/ Receive \/ Begin \/ Answer \/ Dead
    \/ \E s \in {"clock", "rtc", "disk"} : Reach(s)
    \/ \E why \in SETTER_STATUS \cup {"dead"} : Stop(why)

Spec == Init /\ [][Next]_vars
=============================================================================
