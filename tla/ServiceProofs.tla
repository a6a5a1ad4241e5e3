---------------------------- MODULE ServiceProofs ----------------------------
(***************************************************************************)
(* The coprocess implements TimeService: every step of it, of its client   *)
(* or of whoever kills it is a step of the abstract service or none.       *)
(***************************************************************************)
EXTENDS SetterProofs

\* The service's copies of the definitions of TlsdateDefs are the setter's.
LEMMA SameDefs ==
    /\ Service!Time = Time /\ Service!NoTime = NoTime
    /\ Service!SETTER_STATUS = SETTER_STATUS /\ Service!BOGUS = BOGUS
    /\ \A m : Service!Negated(m) = Negated(m)
    /\ \A t : Service!is_sane_time(t) <=> is_sane_time(t)
BY DEF Service!Time, Time, Service!NoTime, NoTime, Service!SETTER_STATUS, SETTER_STATUS,
       Service!BOGUS, BOGUS, Service!Negated, Negated, Service!is_sane_time, is_sane_time

\* Beyond SetterInv: a time that is being served is not 0 and has lost its
\* sign, and a setter that is ending has a reason.
ServingOK ==
    /\ Serving => tv.sec > 0
    /\ setter = "die" => status # "UNINIT"

\* Nothing is served at first.
LEMMA ServingInit == Init => ServingOK
BY DEF Init, SetterInit, ServingOK, Serving

\* A word 0 is never served, and every Die has a reason.
LEMMA ServingNext == SetterInv /\ ServingOK /\ [Next]_vars => ServingOK'
<1> SUFFICES ASSUME SetterInv, ServingOK, [Next]_vars PROVE ServingOK'
  OBVIOUS
<1>1. CASE ReadTime
  <2> DEFINE m == Head(time_pipe)
             w == IF m.sec < 0 THEN Negated(m) ELSE m
  <2>1. tv' = w /\ (setter' # "die" => w.sec # 0) /\ (setter' = "die" => status' = "EXIT")
    BY <1>1, DatesAssumption DEF ReadTime, Die, FirstStep, is_sane_time
  <2>2. m \in Time
    BY <1>1, PipeHead DEF ReadTime, SetterInv, TypeOK
  <2>3. w.sec >= 0 /\ w.sec \in Int
    BY <2>2, TimeFacts DEF Negated
  <2> HIDE DEF w, m
  <2> QED BY <2>1, <2>3 DEF ServingOK, Serving
<1>2. CASE Start \/ ReadEnd \/ SetTimeOfDay \/ RtcWrite \/ SaveTimestamp
  BY <1>2 DEF Start, ReadEnd, SetTimeOfDay, RtcWrite, SaveTimestamp, AfterClock, Die, ServingOK, Serving
<1>3. CASE Notify \/ SetterKilled \/ ClientSend \/ ClientRead \/ ClientExit \/ UNCHANGED vars
  BY <1>3 DEF Notify, SetterKilled, ClientSend, ClientRead, ClientExit, vars, setterVars, local,
              ServingOK, Serving
<1> QED BY <1>1, <1>2, <1>3 DEF Next, SetterStep

-----------------------------------------------------------------------------
\* The word that is being served, and its time.
Word == IF save THEN tv ELSE Negated(tv)

\* The head of the abstract queue stands for the time in tv.
LEMMA WordTime ==
    ASSUME SetterInv, ServingOK, Serving
    PROVE  /\ Service!TimeOf(Word) = tv /\ Word.sec # 0
           /\ Word.sec >= 0 <=> save
           /\ Todo # <<>> /\ Head(Todo) = Word /\ Tail(Todo) = time_pipe
<1>1. tv \in Time /\ tv.sec > 0 /\ tv.sec \in Int /\ time_pipe \in Seq(Time) /\ save \in BOOLEAN
  BY TimeFacts DEF SetterInv, TypeOK, SetterTypeOK, ServingOK
<1>2. Negated(Negated(tv)) = tv
  BY <1>1 DEF Negated, Time
<1>3. Service!TimeOf(Word) = tv /\ Word.sec # 0 /\ (Word.sec >= 0 <=> save) /\ Word \in Time
  <2>1. Negated(tv).sec = -tv.sec /\ Negated(tv) \in Time
    BY <1>1, TimeFacts DEF Negated
  <2>2. CASE save
    BY <1>1, <2>2 DEF Service!TimeOf, Word
  <2>3. CASE ~save
    BY <1>1, <1>2, <2>1, <2>3, SameDefs DEF Service!TimeOf, Word
  <2> QED BY <1>1, <2>2, <2>3
<1>4. Todo = <<Word>> \o time_pipe
  BY DEF Todo, Word
<1>5. Todo # <<>> /\ Head(Todo) = Word /\ Tail(Todo) = time_pipe
  BY <1>1, <1>3, <1>4
<1> QED BY <1>3, <1>5

\* The abstract service starts with nothing to do.
LEMMA InitImplements == Init => Service!Init
<1> SUFFICES ASSUME Init PROVE Service!Init
  OBVIOUS
<1>1. Todo = <<>> /\ State = "up" /\ Left = {"idle"}
  BY DEF Init, SetterInit, Todo, State, Left, Serving
<1>2. clock \in Time /\ rtc \in Time /\ disk \in Time
  BY InitInv DEF SetterInv, TypeOK, SetterTypeOK
<1> QED BY <1>1, <1>2, SameDefs DEF Service!Init, Service!Idle, Init, SetterInit

\* The file cannot be opened, the sandbox not entered, or the work can begin.
LEMMA StartImplements == SetterInv /\ Start => [Service!Next]_Service!vars
<1> SUFFICES ASSUME SetterInv, Start PROVE [Service!Next]_Service!vars
  OBVIOUS
<1>1. Left = {"idle"} /\ Left' = {"idle"} /\ UNCHANGED <<Todo, notify_pipe, clock, rtc>> /\ State = "up"
  BY DEF Start, Left, Todo, State, Serving, Die, pipes
<1>2. CASE setter' = "read"
  BY <1>1, <1>2 DEF Start, Die, State, Service!vars
<1>3. CASE setter' = "die"
  <2>1. /\ status' \in {"NO_SAVE", "NO_SBOX"} /\ State' = status'
        /\ disk' = disk \/ (disk' = NoTime /\ status' = "NO_SAVE")
    BY <1>3 DEF Start, State, Die
  <2>2. Service!Stop(status')
    BY <1>1, <2>1, SameDefs DEF Service!Stop, Service!Idle
  <2> QED BY <2>1, <2>2, SameDefs DEF Service!Next, SETTER_STATUS
<1> QED BY <1>2, <1>3 DEF Start, Die

\* A word is taken: the service begins with it, or ends for it.
LEMMA ReadImplements == SetterInv /\ ServingOK /\ ServingOK' /\ SetterInv' /\ ReadTime => [Service!Next]_Service!vars
<1> SUFFICES ASSUME SetterInv, ServingOK, SetterInv', ServingOK', ReadTime PROVE Service!Next
  OBVIOUS
<1> DEFINE m == Head(time_pipe)
           w == IF m.sec < 0 THEN Negated(m) ELSE m
<1>1. /\ Left = {"idle"} /\ Todo = time_pipe /\ State = "up" /\ Todo # <<>> /\ Head(Todo) = m
      /\ UNCHANGED <<notify_pipe, clock, rtc, disk>>
      /\ time_pipe' = Tail(time_pipe) /\ tv' = w /\ save' = (m.sec >= 0)
  BY DEF ReadTime, Unread, Left, Todo, State, Serving, stores, SavesToDisk
<1>2. m \in Time /\ time_pipe \in Seq(Time)
  BY PipeHead DEF ReadTime, SetterInv, TypeOK, SetterTypeOK
<1>3. w = Service!TimeOf(m) /\ (w.sec = 0 <=> m.sec = 0) /\ m.sec \in Int
  <2>1. m.sec \in Int /\ Negated(m).sec = -m.sec
    BY <1>2, TimeFacts DEF Negated
  <2>2. w = Service!TimeOf(m)
    BY SameDefs DEF Service!TimeOf
  <2> HIDE DEF m
  <2> QED BY <2>1, <2>2
<1>4. \/ setter' = "die" /\ status' = "EXIT" /\ w.sec = 0
      \/ is_sane_time(w.sec) /\ dry_run /\ setter' = "notify"
      \/ is_sane_time(w.sec) /\ ~dry_run /\ setter' = "settimeofday"
      \/ ~is_sane_time(w.sec) /\ setter' = "notify" /\ w.sec # 0
  BY DEF ReadTime, FirstStep, Die
<1>5. is_sane_time(w.sec) => w.sec # 0
  BY <1>2, TimeFacts, DatesAssumption DEF is_sane_time, Negated
<1> HIDE DEF w
<1>6. CASE setter' = "die"
  <2>1. m.sec = 0 /\ status' = "EXIT"
    BY <1>3, <1>4, <1>6
  <2>2. Left' = {"idle"} /\ State' = "EXIT" /\ Todo' = Tail(Todo)
    BY <1>1, <1>6, <2>1 DEF Left, State, Todo, Serving
  <2>3. Service!Stop("EXIT")
    BY <1>1, <2>1, <2>2 DEF Service!Stop, Service!Idle
  <2> QED BY <2>3, SameDefs DEF Service!Next, SETTER_STATUS
<1>7. CASE setter' # "die"
  <2>1. m.sec # 0 /\ setter' \in {"notify", "settimeofday"}
    BY <1>3, <1>4, <1>5, <1>7
  <2>2. State' = "up" /\ Serving'
    BY <2>1 DEF State, Serving
  <2>3. Word' = m
    <3> HIDE DEF m
    <3>1. m.sec < 0 => Negated(Negated(m)) = m
      BY <1>2 DEF Negated, Time
    <3>2. m.sec < 0 <=> ~(m.sec >= 0)
      BY <1>3
    <3>3. m.sec < 0 <=> ~save'
      BY <1>1, <3>2, Zenon
    <3> QED BY <1>1, <3>1, <3>3 DEF w, Word
  <2>4. Todo' = Todo
    <3>1. Todo' = <<m>> \o Tail(time_pipe)
      BY <1>1, <2>2, <2>3 DEF Todo, Word
    <3>2. <<Head(time_pipe)>> \o Tail(time_pipe) = time_pipe
      BY <1>1, <1>2
    <3> QED BY <3>1, <3>2, <1>1
  <2>5. Left' = Service!Wanted(m)
    <3>1. CASE setter' = "settimeofday"
      BY <1>1, <1>3, <1>4, <3>1, SameDefs, SetterAssumption DEF Left, Serving, SaveFd, Service!Wanted
    <3>2. CASE setter' = "notify"
      BY <1>1, <1>3, <1>4, <3>2, SameDefs, SetterAssumption DEF Left, Serving, SaveFd, Service!Wanted
    <3> QED BY <2>1, <3>1, <3>2
  <2>6. Service!Begin
    BY <1>1, <2>1, <2>2, <2>4, <2>5 DEF Service!Begin, Service!Idle
  <2> QED BY <2>6 DEF Service!Next
<1> QED BY <1>6, <1>7

\* A failure while there is a word to serve or none: the service stops.
LEMMA StopImplements ==
    ASSUME SetterInv, ServingOK, setter \notin {"die", "dead"},
           \/ setter' = "die" /\ status' \in SETTER_STATUS \ {"EXIT", "TIME_SET", "BAD_TIME"}
           \/ setter' = "dead",
           UNCHANGED <<time_pipe, notify_pipe, clock, rtc, disk>>
    PROVE  Service!Next
<1>1. Left' = {"idle"} /\ State = "up" /\ Todo' = time_pipe
  BY DEF Left, State, Todo, Serving
<1>2. PICK why \in (SETTER_STATUS \cup {"dead"}) \ {"EXIT", "TIME_SET", "BAD_TIME"} : State' = why
  BY DEF State, SETTER_STATUS
<1>3. why # "up"
  BY <1>2 DEF SETTER_STATUS
<1>4. CASE Serving
  <2>1. Left # {"idle"}
    BY <1>4 DEF Left
  <2> QED BY <1>1, <1>2, <1>3, <1>4, <2>1, WordTime, SameDefs DEF Service!Next, Service!Stop, Service!Idle
<1>5. CASE ~Serving
  <2>1. Left = {"idle"} /\ Todo = time_pipe
    BY <1>5 DEF Left, Todo, Serving
  <2> QED BY <1>1, <1>2, <1>3, <2>1, SameDefs DEF Service!Next, Service!Stop, Service!Idle
<1> QED BY <1>4, <1>5

\* One store after the other, or a failure of it.
LEMMA StoresImplement ==
    SetterInv /\ ServingOK /\ (SetTimeOfDay \/ RtcWrite \/ SaveTimestamp) => [Service!Next]_Service!vars
<1> SUFFICES ASSUME SetterInv, ServingOK, SetTimeOfDay \/ RtcWrite \/ SaveTimestamp
             PROVE  [Service!Next]_Service!vars
  OBVIOUS
<1>1. CASE setter' = "die"
  <2>1. /\ status' \in {"SET_ERR", "NO_RTC", "NO_SAVE"} /\ setter \notin {"die", "dead"}
        /\ UNCHANGED <<time_pipe, notify_pipe, clock, rtc, disk>>
    BY <1>1 DEF SetTimeOfDay, RtcWrite, SaveTimestamp, AfterClock, Die, pipes
  <2> QED BY <1>1, <2>1, StopImplements DEF SETTER_STATUS
<1>2. CASE setter' # "die"
  <2>1. /\ Serving /\ Serving' /\ State = "up" /\ State' = "up" /\ UNCHANGED <<Todo, notify_pipe>>
        /\ UNCHANGED save
    BY <1>2 DEF SetTimeOfDay, RtcWrite, SaveTimestamp, AfterClock, Die, pipes, Serving, State, Todo
  <2>2. Service!TimeOf(Head(Todo)) = tv
    BY <2>1, WordTime
  <2>3. Left # {"idle"}
    BY <2>1 DEF Left
  <2> USE SetterAssumption
  <2>4. CASE SetTimeOfDay
    <3>1. /\ clock' = tv /\ UNCHANGED <<rtc, disk>>
          /\ setter = "settimeofday" /\ setter' = IF should_sync_hwclock THEN "rtc_write" ELSE "save"
      BY <1>2, <2>4 DEF SetTimeOfDay, Die, AfterClock
    <3>2. "clock" \in Left /\ Left' = Left \ {"clock"}
      BY <2>1, <3>1 DEF Left, Serving, SaveFd
    <3>3. Service!Reach("clock")
      BY <2>1, <2>2, <2>3, <3>1, <3>2 DEF Service!Reach, Service!Idle
    <3> QED BY <3>3 DEF Service!Next
  <2>5. CASE RtcWrite
    <3>1. rtc' = tv /\ UNCHANGED <<clock, disk>> /\ setter = "rtc_write" /\ setter' = "save" /\ should_sync_hwclock
      BY <1>2, <2>5 DEF RtcWrite, Die, SetterInv, Applied
    <3>2. "rtc" \in Left /\ Left' = Left \ {"rtc"} /\ "clock" \notin Left
      BY <2>1, <3>1 DEF Left, Serving, SaveFd
    <3>3. Service!Reach("rtc")
      BY <2>1, <2>2, <2>3, <3>1, <3>2 DEF Service!Reach, Service!Idle
    <3> QED BY <3>3 DEF Service!Next
  <2>6. CASE SaveTimestamp
    <3>1. /\ disk' = IF save /\ SaveFd THEN tv ELSE disk
          /\ UNCHANGED <<clock, rtc>> /\ setter = "save" /\ setter' = "notify"
      BY <1>2, <2>6 DEF SaveTimestamp, Die
    <3>2. CASE save /\ SaveFd
      <4>1. Left = {"disk"} /\ Left' = {}
        BY <2>1, <3>1, <3>2 DEF Left, Serving
      <4>2. Service!Reach("disk")
        BY <2>1, <2>2, <2>3, <3>1, <3>2, <4>1 DEF Service!Reach, Service!Idle
      <4> QED BY <4>2 DEF Service!Next
    <3>3. CASE ~(save /\ SaveFd)
      <4>1. UNCHANGED Left
        BY <2>1, <3>1, <3>3 DEF Left, Serving
      <4> QED BY <2>1, <3>1, <3>3, <4>1 DEF Service!vars
    <3> QED BY <3>2, <3>3
  <2> QED BY <2>4, <2>5, <2>6
<1> QED BY <1>1, <1>2

\* Every word is answered once; the last answer says why there are no more.
LEMMA NotifyImplements == SetterInv /\ ServingOK /\ Notify => [Service!Next]_Service!vars
<1> SUFFICES ASSUME SetterInv, ServingOK, Notify PROVE Service!Next
  OBVIOUS
<1>1. UNCHANGED <<time_pipe, status, clock, rtc, disk>>
  BY DEF Notify, stores
<1>2. CASE setter = "notify" /\ setter' = "dead"
  <2>1. UNCHANGED notify_pipe
    BY <1>2 DEF Notify
  <2> QED BY <1>1, <1>2, <2>1, StopImplements
<1>3. CASE setter = "notify" /\ setter' = "read"
  <2>1. PICK a \in Written : notify_pipe' = Append(notify_pipe, a)
    BY <1>3 DEF Notify
  <2>2. a \in SETTER_STATUS \cup {BOGUS} /\ (is_sane_time(tv.sec) => a = "TIME_SET")
    BY <1>3 DEF Written, SetterInv, TypeOK, SetterTypeOK, AppliedEverywhere, SETTER_STATUS
  <2>3. Serving /\ Left = {} /\ Left' = {"idle"} /\ State = "up" /\ State' = "up" /\ Todo' = time_pipe
    BY <1>1, <1>3 DEF Serving, Left, State, Todo
  <2>4. Service!Answer
    BY <1>1, <2>1, <2>2, <2>3, WordTime, SameDefs DEF Service!Answer, Service!Idle
  <2> QED BY <2>4 DEF Service!Next
<1>4. CASE setter = "die"
  <2>1. /\ setter' = "dead" /\ status \in SETTER_STATUS
        /\ notify_pipe' = notify_pipe \/ notify_pipe' = Append(notify_pipe, status)
    BY <1>4 DEF Notify, Written, SetterInv, TypeOK, SetterTypeOK, ServingOK
  <2>2. State = status /\ State' = "dead" /\ UNCHANGED <<Left, Todo>>
    BY <1>1, <1>4, <2>1 DEF State, Left, Todo, Serving
  <2>3. Service!Dead
    BY <1>1, <2>1, <2>2 DEF Service!Dead, SETTER_STATUS
  <2> QED BY <2>3 DEF Service!Next
<1> QED BY <1>2, <1>3, <1>4 DEF Notify

\* The end of the pipe and a kill stop the service wherever it is.
LEMMA EndImplements ==
    SetterInv /\ ServingOK /\ (ReadEnd \/ SetterKilled) => [Service!Next]_Service!vars
<1> SUFFICES ASSUME SetterInv, ServingOK, ReadEnd \/ SetterKilled PROVE Service!Next
  OBVIOUS
<1>1. UNCHANGED <<time_pipe, notify_pipe, clock, rtc, disk>>
  BY DEF ReadEnd, SetterKilled, pipes, stores
<1>2. CASE setter = "die"
  <2>1. setter' = "dead" /\ status \in SETTER_STATUS
    BY <1>2 DEF ReadEnd, SetterKilled, SetterInv, TypeOK, SetterTypeOK, ServingOK
  <2>2. State = status /\ State' = "dead" /\ UNCHANGED <<Left, Todo>>
    BY <1>1, <1>2, <2>1 DEF State, Left, Todo, Serving
  <2>3. Service!Dead
    BY <1>1, <2>1, <2>2 DEF Service!Dead, SETTER_STATUS
  <2> QED BY <2>3 DEF Service!Next
<1>3. CASE setter # "die"
  <2>1. /\ setter \notin {"die", "dead"}
        /\ \/ setter' = "die" /\ status' = "READ_ERR"
           \/ setter' = "dead"
    BY <1>3 DEF ReadEnd, SetterKilled, Die
  <2> QED BY <1>1, <2>1, StopImplements DEF SETTER_STATUS
<1> QED BY <1>2, <1>3

\* What the client does.
LEMMA ClientImplements ==
    SetterInv /\ (ClientSend \/ ClientRead \/ ClientExit \/ UNCHANGED vars) => [Service!Next]_Service!vars
<1> SUFFICES ASSUME SetterInv, ClientSend \/ ClientRead \/ ClientExit \/ UNCHANGED vars
             PROVE  [Service!Next]_Service!vars
  OBVIOUS
<1>1. UNCHANGED <<Left, State, clock, rtc, disk>>
  BY DEF ClientSend, ClientRead, ClientExit, vars, setterVars, local, stores, Left, State, Serving
<1>2. CASE ClientSend
  <2>1. PICK w \in Words \cup {NoTime} : time_pipe' = Append(time_pipe, w)
    BY <1>2 DEF ClientSend
  <2>2. UNCHANGED <<setter, tv, save, notify_pipe>>
    BY <1>2 DEF ClientSend, local
  <2>3. w \in Time /\ time_pipe \in Seq(Time) /\ tv \in Time /\ Word \in Time
    BY TimeFacts, WordFacts DEF SetterInv, TypeOK, SetterTypeOK, Word
  <2>4. Todo' = Append(Todo, w)
    <3>1. CASE ~Serving
      BY <2>1, <2>2, <3>1 DEF Todo, Serving
    <3>2. CASE Serving
      <4>1. Todo = <<Word>> \o time_pipe /\ Todo' = <<Word>> \o Append(time_pipe, w)
        BY <2>1, <2>2, <3>2 DEF Todo, Serving, Word
      <4> QED BY <2>3, <4>1
    <3> QED BY <3>1, <3>2
  <2>5. Service!Send
    BY <1>1, <2>2, <2>4, SameDefs DEF Service!Send
  <2> QED BY <2>5 DEF Service!Next
<1>3. CASE ClientRead
  <2>1. UNCHANGED Todo
    BY <1>3 DEF ClientRead, local, Todo, Serving
  <2>2. Service!Receive
    BY <1>1, <1>3, <2>1 DEF ClientRead, Service!Receive
  <2> QED BY <2>2 DEF Service!Next
<1>4. CASE ClientExit \/ UNCHANGED vars
  <2>1. UNCHANGED <<Todo, notify_pipe>>
    BY <1>4 DEF ClientExit, vars, setterVars, local, pipes, Todo, Serving
  <2> QED BY <1>1, <2>1 DEF Service!vars
<1> QED BY <1>2, <1>3, <1>4

-----------------------------------------------------------------------------
\* time_setter_coprocess, with every failure and every client, serves its words
\* in order and completely, and answers each of them once.
THEOREM SetterImplementsService == Spec => ServesInOrder
<1>1. SetterInv /\ ServingOK /\ [Next]_vars => ServingOK'
  BY ServingNext
<1>2. SetterInv /\ SetterInv' /\ ServingOK /\ ServingOK' /\ [Next]_vars => [Service!Next]_Service!vars
  BY StartImplements, ReadImplements, StoresImplement, NotifyImplements, EndImplements, ClientImplements
     DEF Next, SetterStep
<1>3. Init => ServingOK /\ Service!Init
  BY ServingInit, InitImplements
<1> QED BY <1>1, <1>2, <1>3, Invariance, PTL DEF Spec, ServesInOrder, Service!Spec
=============================================================================
