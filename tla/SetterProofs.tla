---------------------------- MODULE SetterProofs ----------------------------
(***************************************************************************)
(* The setter's safety for every client, every set of times, every pipe    *)
(* size and every combination of failures and options.                     *)
(***************************************************************************)
EXTENDS SetterService, SequenceTheorems, TLAPS

-----------------------------------------------------------------------------
(* The inductive invariant.                                                *)

\* A word that would go to disk comes from the network.
WordOK(m) == m.sec > 0 => m.net

PipeOK == \A i \in 1 .. Len(time_pipe) : WordOK(time_pipe[i])

\* A time is applied only if it is sane, and saved only if it is the network's.
TvOK ==
    setter \in {"settimeofday", "rtc_write", "save"} =>
        ~dry_run /\ is_sane_time(tv.sec) /\ (save => tv.net)

\* The stores are written in their order.
Applied ==
    /\ setter = "rtc_write" => clock = tv /\ should_sync_hwclock
    /\ setter = "save" => clock = tv /\ (should_sync_hwclock => rtc = tv)

SetterInv ==
    /\ TypeOK
    /\ PipeOK
    /\ TvOK
    /\ Applied
    /\ AppliedEverywhere
    /\ DiskIsNetTime

-----------------------------------------------------------------------------
(* Facts about the data.                                                   *)

\* Times are made of and taken apart into their two fields.
LEMMA TimeFacts ==
    /\ NoTime \in Time
    /\ \A t \in Int : FromNet(t) \in Time /\ Local(t) \in Time
    /\ \A m \in Time : m.sec \in Int /\ m.net \in BOOLEAN
    /\ \A m \in Time : Negated(m) \in Time
BY DEF Time, NoTime, FromNet, Local, Negated

\* What a client may put into the pipe: words that PipeOK allows.
LEMMA WordFacts ==
    /\ Words \subseteq Time
    /\ \A w \in Words \cup {NoTime} : WordOK(w)
<1> USE ServiceAssumption
<1>1. Words \subseteq Time
  BY TimeFacts DEF Words
<1>2. \A w \in Words \cup {NoTime} : WordOK(w)
  BY DEF Words, NoTime, FromNet, Local, WordOK
<1> QED
  BY <1>1, <1>2

\* Taking the first word off the pipe.
LEMMA PipeHead ==
    ASSUME SetterTypeOK, PipeOK, time_pipe # <<>>
    PROVE  /\ Head(time_pipe) \in Time
           /\ WordOK(Head(time_pipe))
           /\ Tail(time_pipe) \in Seq(Time)
           /\ Len(Tail(time_pipe)) <= PipeRoom
           /\ \A i \in 1 .. Len(Tail(time_pipe)) : WordOK(Tail(time_pipe)[i])
<1> USE SetterAssumption DEF SetterTypeOK
<1>1. /\ Head(time_pipe) = time_pipe[1]
      /\ Len(Tail(time_pipe)) = Len(time_pipe) - 1
      /\ \A i \in 1 .. Len(Tail(time_pipe)) : Tail(time_pipe)[i] = time_pipe[i + 1]
      /\ Tail(time_pipe) \in Seq(Time)
      /\ Len(time_pipe) \in Nat /\ Len(time_pipe) > 0
  BY HeadTailProperties, EmptySeq
<1>2. time_pipe[1] \in Time
  BY <1>1, ElementOfSeq
<1> QED
  BY <1>1, <1>2 DEF PipeOK

\* Adding a word to a pipe.
LEMMA PipeAppend ==
    ASSUME NEW S, NEW q \in Seq(S), NEW w \in S, NEW room \in Nat, Len(q) < room
    PROVE  /\ Append(q, w) \in Seq(S)
           /\ Len(Append(q, w)) <= room
           /\ \A i \in 1 .. Len(Append(q, w)) :
                  Append(q, w)[i] = IF i <= Len(q) THEN q[i] ELSE w
BY AppendProperties

-----------------------------------------------------------------------------
(* The invariant holds initially and every step keeps it.                  *)

\* The freshly forked setter, whatever the clocks and the file show.
LEMMA InitInv == Init => SetterInv
<1> SUFFICES ASSUME Init PROVE SetterInv
  OBVIOUS
<1> USE DatesAssumption, SetterAssumption, ServiceAssumption DEF Init, SetterInit
<1>1. TypeOK
  BY TimeFacts, EmptySeq DEF TypeOK, SetterTypeOK, SetterPC, SETTER_STATUS
<1>2. PipeOK
  BY DEF PipeOK
<1>3. TvOK /\ Applied /\ AppliedEverywhere
  BY DEF TvOK, Applied, AppliedEverywhere
<1>4. DiskIsNetTime
  BY DEF DiskIsNetTime, FromNet
<1> QED
  BY <1>1, <1>2, <1>3, <1>4 DEF SetterInv

\* The word the setter takes, with its sign removed.
LEMMA ReadWord ==
    ASSUME NEW m \in Time, WordOK(m)
    PROVE  LET w == IF m.sec < 0 THEN Negated(m) ELSE m
           IN  /\ w \in Time
               /\ w.sec # 0 /\ SavesToDisk(m) => w.net
BY TimeFacts DEF WordOK, Negated, SavesToDisk

\* Opening the file and entering the sandbox, or failing to.
LEMMA StartInv == SetterInv /\ Start /\ UNCHANGED daemon => SetterInv'
<1> SUFFICES ASSUME SetterInv, Start, UNCHANGED daemon PROVE SetterInv'
  OBVIOUS
<1> USE DEF SetterInv
<1>0. /\ setter = "start" /\ setter' \in {"read", "die"}
      /\ status' \in {status, "NO_SAVE", "NO_SBOX"}
      /\ disk' \in {disk, NoTime}
      /\ UNCHANGED <<tv, save, time_pipe, notify_pipe, clock, rtc>>
  BY DEF Start, Die, pipes
<1>1. TypeOK'
  BY <1>0, TimeFacts DEF TypeOK, SetterTypeOK, SetterPC, SETTER_STATUS
<1>2. PipeOK' /\ TvOK' /\ Applied' /\ AppliedEverywhere' /\ DiskIsNetTime'
  BY <1>0 DEF PipeOK, TvOK, Applied, AppliedEverywhere, DiskIsNetTime
<1> QED
  BY <1>1, <1>2

\* One word taken off the pipe: a sane one starts on its way through the stores.
LEMMA ReadTimeInv == SetterInv /\ ReadTime /\ UNCHANGED daemon => SetterInv'
<1> SUFFICES ASSUME SetterInv, ReadTime, UNCHANGED daemon PROVE SetterInv'
  OBVIOUS
<1> USE DEF SetterInv
<1> DEFINE m == Head(time_pipe)
           w == IF m.sec < 0 THEN Negated(m) ELSE m
<1>0. /\ setter = "read" /\ time_pipe # <<>>
      /\ time_pipe' = Tail(time_pipe)
      /\ tv' = w /\ save' = SavesToDisk(m)
      /\ UNCHANGED <<notify_pipe, clock, rtc, disk>>
  BY DEF ReadTime, Unread, stores
<1>1. \/ setter' = "die" /\ status' = "EXIT"
      \/ is_sane_time(w.sec) /\ dry_run /\ setter' = "notify" /\ status' = "TIME_SET"
      \/ is_sane_time(w.sec) /\ ~dry_run /\ setter' = "settimeofday" /\ status' = "BAD_TIME"
      \/ ~is_sane_time(w.sec) /\ setter' = "notify" /\ status' = status
  BY DEF ReadTime, FirstStep, Die
<1>2. /\ m \in Time /\ WordOK(m)
      /\ Tail(time_pipe) \in Seq(Time) /\ Len(Tail(time_pipe)) <= PipeRoom
      /\ \A i \in 1 .. Len(Tail(time_pipe)) : WordOK(Tail(time_pipe)[i])
  BY <1>0, PipeHead DEF TypeOK
<1>3. /\ w \in Time
      /\ w.sec # 0 /\ SavesToDisk(m) => w.net
  BY <1>2, ReadWord
<1>4. SavesToDisk(m) \in BOOLEAN
  BY DEF SavesToDisk
<1>5. is_sane_time(w.sec) => w.sec # 0
  BY <1>3, TimeFacts, DatesAssumption DEF is_sane_time
<1> HIDE DEF m, w
<1>6. TypeOK'
  BY <1>0, <1>1, <1>2, <1>3, <1>4 DEF TypeOK, SetterTypeOK, SetterPC, SETTER_STATUS
<1>7. PipeOK'
  BY <1>0, <1>2 DEF PipeOK
<1>8. TvOK' /\ Applied'
  BY <1>0, <1>1, <1>3, <1>5 DEF TvOK, Applied
<1>9. AppliedEverywhere' /\ DiskIsNetTime'
  BY <1>0, <1>1 DEF AppliedEverywhere, DiskIsNetTime
<1> QED
  BY <1>6, <1>7, <1>8, <1>9

\* The steps that leave the daemon's pipe alone and go through the stores.
LEMMA StoresInv ==
    /\ SetterInv
    /\ ReadEnd \/ SetTimeOfDay \/ RtcWrite \/ SaveTimestamp
    /\ UNCHANGED daemon
    => SetterInv'
<1> SUFFICES ASSUME SetterInv,
                    ReadEnd \/ SetTimeOfDay \/ RtcWrite \/ SaveTimestamp,
                    UNCHANGED daemon
             PROVE  SetterInv'
  OBVIOUS
<1> USE SetterAssumption DEF SetterInv
<1>0. PipeOK'
  BY DEF PipeOK, ReadEnd, SetTimeOfDay, RtcWrite, SaveTimestamp, pipes
<1>1. CASE ReadEnd
  <2>1. TypeOK'
    BY <1>1 DEF ReadEnd, Die, pipes, stores, TypeOK, SetterTypeOK, SetterPC, SETTER_STATUS
  <2>2. TvOK' /\ Applied' /\ AppliedEverywhere' /\ DiskIsNetTime'
    BY <1>1 DEF ReadEnd, Die, pipes, stores, TvOK, Applied, AppliedEverywhere, DiskIsNetTime
  <2> QED
    BY <1>0, <2>1, <2>2
<1>2. CASE SetTimeOfDay
  <2>1. TypeOK'
    BY <1>2 DEF SetTimeOfDay, AfterClock, Die, pipes, TypeOK, SetterTypeOK, SetterPC,
                SETTER_STATUS
  <2>2. TvOK' /\ Applied' /\ AppliedEverywhere' /\ DiskIsNetTime'
    BY <1>2 DEF SetTimeOfDay, AfterClock, Die, pipes, TvOK, Applied, AppliedEverywhere,
                DiskIsNetTime
  <2> QED
    BY <1>0, <2>1, <2>2
<1>3. CASE RtcWrite
  <2>1. TypeOK'
    BY <1>3 DEF RtcWrite, Die, pipes, TypeOK, SetterTypeOK, SetterPC, SETTER_STATUS
  <2>2. TvOK' /\ Applied' /\ AppliedEverywhere' /\ DiskIsNetTime'
    BY <1>3 DEF RtcWrite, Die, pipes, TvOK, Applied, AppliedEverywhere, DiskIsNetTime
  <2> QED
    BY <1>0, <2>1, <2>2
<1>4. CASE SaveTimestamp
  <2>1. TypeOK'
    BY <1>4 DEF SaveTimestamp, Die, pipes, TypeOK, SetterTypeOK, SetterPC, SETTER_STATUS
  <2>2. TvOK' /\ Applied' /\ AppliedEverywhere'
    BY <1>4 DEF SaveTimestamp, SaveFd, Die, pipes, TvOK, Applied, AppliedEverywhere
  <2>3. DiskIsNetTime'
    BY <1>4 DEF SaveTimestamp, pipes, TvOK, DiskIsNetTime
  <2> QED
    BY <1>0, <2>1, <2>2, <2>3
<1> QED
  BY <1>1, <1>2, <1>3, <1>4

\* The status word is written, or nobody is there to read it.
LEMMA NotifyInv == SetterInv /\ Notify /\ UNCHANGED daemon => SetterInv'
<1> SUFFICES ASSUME SetterInv, Notify, UNCHANGED daemon PROVE SetterInv'
  OBVIOUS
<1> USE SetterAssumption DEF SetterInv
<1>0. /\ setter' \in {"read", "dead"}
      /\ tv' = NoTime /\ save' = TRUE
      /\ UNCHANGED <<status, time_pipe, clock, rtc, disk>>
  BY DEF Notify, stores
<1>1. /\ notify_pipe' \in Seq(SETTER_STATUS \cup {BOGUS})
      /\ Len(notify_pipe') <= NotifyRoom
  <2>1. Written \subseteq SETTER_STATUS \cup {BOGUS}
    BY DEF Written, TypeOK, SetterTypeOK
  <2> QED
    BY <2>1, PipeAppend DEF Notify, TypeOK, SetterTypeOK
<1>2. TypeOK'
  BY <1>0, <1>1, TimeFacts DEF TypeOK, SetterTypeOK, SetterPC
<1>3. PipeOK' /\ TvOK' /\ Applied' /\ AppliedEverywhere' /\ DiskIsNetTime'
  BY <1>0 DEF PipeOK, TvOK, Applied, AppliedEverywhere, DiskIsNetTime
<1> QED
  BY <1>2, <1>3

\* Being killed between any two steps.
LEMMA KilledInv == SetterInv /\ SetterKilled /\ UNCHANGED daemon => SetterInv'
<1> SUFFICES ASSUME SetterInv, SetterKilled, UNCHANGED daemon PROVE SetterInv'
  OBVIOUS
<1>1. TypeOK' /\ PipeOK'
  BY DEF SetterInv, SetterKilled, local, pipes, stores, TypeOK, SetterTypeOK, SetterPC, PipeOK
<1>2. TvOK' /\ Applied' /\ AppliedEverywhere' /\ DiskIsNetTime'
  BY DEF SetterInv, SetterKilled, local, pipes, stores, TvOK, Applied,
         AppliedEverywhere, DiskIsNetTime
<1> QED
  BY <1>1, <1>2 DEF SetterInv

\* Whatever the client does.
LEMMA ClientInv ==
    SetterInv /\ (ClientSend \/ ClientRead \/ ClientExit) => SetterInv'
<1> SUFFICES ASSUME SetterInv, ClientSend \/ ClientRead \/ ClientExit
             PROVE  SetterInv'
  OBVIOUS
<1> USE SetterAssumption DEF SetterInv
<1>0. /\ daemon' \in {"boot", "up", "down"}
      /\ UNCHANGED <<setter, status, tv, save, clock, rtc, disk>>
  BY DEF ClientSend, ClientRead, ClientExit, setterVars, local, stores, TypeOK, SetterTypeOK
<1>1. /\ time_pipe' \in Seq(Time) /\ Len(time_pipe') <= PipeRoom
      /\ PipeOK'
  <2>1. CASE ClientSend
    <3>1. PICK w \in Words \cup {NoTime} : time_pipe' = Append(time_pipe, w)
      BY <2>1 DEF ClientSend
    <3>2. w \in Time /\ WordOK(w)
      BY TimeFacts, WordFacts
    <3>3. time_pipe \in Seq(Time) /\ Len(time_pipe) < PipeRoom
      BY <2>1 DEF ClientSend, TypeOK, SetterTypeOK
    <3>4. Len(Append(time_pipe, w)) = Len(time_pipe) + 1 /\ Len(time_pipe) \in Nat
      BY <3>2, <3>3, AppendProperties, LenProperties
    <3> QED
      BY <3>1, <3>2, <3>3, <3>4, PipeAppend DEF PipeOK
  <2>2. CASE ClientRead \/ ClientExit
    BY <2>2 DEF ClientRead, ClientExit, setterVars, pipes, TypeOK, SetterTypeOK, PipeOK
  <2> QED
    BY <2>1, <2>2
<1>2. /\ notify_pipe' \in Seq(SETTER_STATUS \cup {BOGUS})
      /\ Len(notify_pipe') <= NotifyRoom
  <2>1. CASE ClientRead
    BY <2>1, HeadTailProperties, LenProperties DEF ClientRead, TypeOK, SetterTypeOK
  <2>2. CASE ClientSend \/ ClientExit
    BY <2>2 DEF ClientSend, ClientExit, setterVars, pipes, TypeOK, SetterTypeOK
  <2> QED
    BY <2>1, <2>2
<1>3. TypeOK'
  BY <1>0, <1>1, <1>2 DEF TypeOK, SetterTypeOK
<1>4. TvOK' /\ Applied' /\ AppliedEverywhere' /\ DiskIsNetTime'
  BY <1>0 DEF TvOK, Applied, AppliedEverywhere, DiskIsNetTime
<1> QED
  BY <1>1, <1>3, <1>4

\* Every step of setter and client preserves SetterInv.
LEMMA NextInv == SetterInv /\ [Next]_vars => SetterInv'
<1> SUFFICES ASSUME SetterInv, [Next]_vars PROVE SetterInv'
  OBVIOUS
<1>1. CASE Start /\ UNCHANGED daemon
  BY <1>1, StartInv
<1>2. CASE ReadTime /\ UNCHANGED daemon
  BY <1>2, ReadTimeInv
<1>3. CASE (ReadEnd \/ SetTimeOfDay \/ RtcWrite \/ SaveTimestamp) /\ UNCHANGED daemon
  BY <1>3, StoresInv
<1>4. CASE Notify /\ UNCHANGED daemon
  BY <1>4, NotifyInv
<1>5. CASE SetterKilled /\ UNCHANGED daemon
  BY <1>5, KilledInv
<1>6. CASE ClientSend \/ ClientRead \/ ClientExit
  BY <1>6, ClientInv
<1>7. CASE UNCHANGED vars
  <2>1. UNCHANGED <<daemon, setter, status, tv, save, time_pipe, notify_pipe, clock, rtc, disk>>
    BY <1>7 DEF vars, setterVars, local, pipes, stores
  <2> QED
    BY <2>1 DEF SetterInv, TypeOK, SetterTypeOK, PipeOK, TvOK, Applied,
                AppliedEverywhere, DiskIsNetTime
<1> QED
  BY <1>1, <1>2, <1>3, <1>4, <1>5, <1>6, <1>7 DEF Next, SetterStep

\* SetterInv is an invariant of the setter under any client.
THEOREM Invariance == Spec => []SetterInv
BY InitInv, NextInv, PTL DEF Spec

-----------------------------------------------------------------------------
(* The results.                                                            *)

\* The setter's variables keep their types and its pipes their bounds,
\* whatever time_setter_coprocess is sent and whatever fails.
THEOREM SetterTypes == Spec => []TypeOK
<1>1. SetterInv => TypeOK
  BY DEF SetterInv
<1> QED
  BY <1>1, Invariance, PTL

\* time_setter_coprocess puts nothing on disk but sane network times.
THEOREM OnlyNetTimeOnDisk == Spec => []DiskIsNetTime
<1>1. SetterInv => DiskIsNetTime
  BY DEF SetterInv
<1> QED
  BY <1>1, Invariance, PTL

\* No partial failure of time_setter_coprocess is reported as a success.
THEOREM SuccessIsComplete == Spec => []AppliedEverywhere
<1>1. SetterInv => AppliedEverywhere
  BY DEF SetterInv
<1> QED
  BY <1>1, Invariance, PTL

\* The timestamp file never shows a time before the clocks do.
THEOREM DiskFollowsClocks == Spec => DiskAfterClocks
<1> DEFINE A == \/ disk' \in {disk, NoTime}
                \/ disk' = clock /\ (should_sync_hwclock => rtc = clock)
<1>1. SetterInv /\ [Next]_vars => [A]_vars
  <2> SUFFICES ASSUME SetterInv, Next PROVE A
    OBVIOUS
  <2>1. CASE Start
    BY <2>1 DEF Start
  <2>2. CASE SaveTimestamp
    BY <2>2 DEF SaveTimestamp, SetterInv, Applied
  <2>3. CASE ReadTime \/ ReadEnd \/ SetTimeOfDay \/ RtcWrite \/ Notify \/ SetterKilled
    BY <2>3 DEF ReadTime, ReadEnd, SetTimeOfDay, RtcWrite, Notify, SetterKilled, stores
  <2>4. CASE ClientSend \/ ClientRead \/ ClientExit
    BY <2>4 DEF ClientSend, ClientRead, ClientExit, setterVars, stores
  <2> QED
    BY <2>1, <2>2, <2>3, <2>4 DEF Next, SetterStep
<1> QED
  BY <1>1, Invariance, PTL DEF Spec, DiskAfterClocks

\* A dry run touches neither clock nor disk.
THEOREM DryRunIsDry == Spec => DryRunTouchesNothing
<1>1. SetterInv /\ [Next]_vars => [~dry_run]_stores
  <2>0. UNCHANGED vars => UNCHANGED stores
    BY DEF vars, setterVars, stores
  <2> SUFFICES ASSUME SetterInv, Next, dry_run PROVE UNCHANGED stores
    BY <2>0
  <2>1. setter \notin {"settimeofday", "rtc_write", "save"}
    BY DEF SetterInv, TvOK
  <2>2. CASE Start
    BY <2>2 DEF Start, SaveFd, stores
  <2>3. CASE SetTimeOfDay \/ RtcWrite \/ SaveTimestamp
    BY <2>1, <2>3 DEF SetTimeOfDay, RtcWrite, SaveTimestamp
  <2>4. CASE ReadTime \/ ReadEnd \/ Notify \/ SetterKilled
    BY <2>4 DEF ReadTime, ReadEnd, Notify, SetterKilled
  <2>5. CASE ClientSend \/ ClientRead \/ ClientExit
    BY <2>5 DEF ClientSend, ClientRead, ClientExit, setterVars
  <2> QED
    BY <2>2, <2>3, <2>4, <2>5 DEF Next, SetterStep
<1> QED
  BY <1>1, Invariance, PTL DEF Spec, DryRunTouchesNothing
=============================================================================
