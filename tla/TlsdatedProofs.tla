--------------------------- MODULE TlsdatedProofs ---------------------------
(***************************************************************************)
(* The life of the tlsdate child, for every configuration of the daemon,   *)
(* every environment and every order in which the loop runs its callbacks. *)
(***************************************************************************)
EXTENDS Tlsdated, TLAPS

-----------------------------------------------------------------------------
(* The inductive invariant.                                                *)

\* Only a child that has not exited can be stopped.
StoppedIsAlive ==
    /\ stopped \subseteq {"tlsdate", "setter"}
    /\ daemon = "up" /\ "tlsdate" \in stopped => child \in {"alive", "wrote"}

ChildInv ==
    /\ child \in ChildState
    /\ running \in BOOLEAN /\ tlsdate_pid \in BOOLEAN
    /\ backoff \in Nat
    /\ StoppedIsAlive
    /\ ChildKnown
    /\ ChildGuarded
    /\ BackoffBounded

\* What the invariant is about.
childState == <<daemon, child, running, tlsdate_pid, stopped, backoff>>

-----------------------------------------------------------------------------
(* Steps that do not touch the child.                                      *)

\* A step that leaves the child, what the daemon knows of it and its timeout
\* alone.
Leaves == /\ UNCHANGED childState
          /\ "E_TLSDATE_TIMEOUT" \in armed => "E_TLSDATE_TIMEOUT" \in armed'

\* A step that leaves the child and its timeout alone preserves ChildInv.
LEMMA LeavesInv == ChildInv /\ Leaves => ChildInv'
BY DEF ChildInv, Leaves, childState, StoppedIsAlive, ChildKnown, ChildGuarded, BackoffBounded

\* A callback that neither is the timeout nor deletes it leaves it armed.
LEMMA RanKeepsTimeout ==
    ASSUME NEW e, NEW more, NEW added, NEW deleted,
           Ran(e, more, added, deleted),
           e # "E_TLSDATE_TIMEOUT", "E_TLSDATE_TIMEOUT" \notin deleted
    PROVE  "E_TLSDATE_TIMEOUT" \in armed => "E_TLSDATE_TIMEOUT" \in armed'
BY DEF Ran, OneShot, Timers

\* action_kickoff_time_sync never touches the timeout.
LEMMA KickoffKeepsTimeout ==
    ASSUME NEW e, NEW more, NEW type, NEW time, NEW delta, NEW added,
           Kickoff(e, more, type, time, delta, added), e # "E_TLSDATE_TIMEOUT"
    PROVE  "E_TLSDATE_TIMEOUT" \in armed => "E_TLSDATE_TIMEOUT" \in armed'
BY RanKeepsTimeout DEF Kickoff

\* The daemon ends: there is no child to speak of.
LEMMA ExitInv == ChildInv /\ Exit => ChildInv'
BY DaemonAssumption
   DEF ChildInv, Exit, Blank, ChildState, StoppedIsAlive, ChildKnown, ChildGuarded, BackoffBounded

\* The handlers that keep time.
LEMMA TimeHandlersLeave ==
    ASSUME \/ \E e \in Wakes : action_kickoff_time_sync(e)
           \/ StdinBroken \/ action_invalidate_time
           \/ action_sigterm \/ action_sync_and_save \/ SaveHangup
           \/ \E more \in BOOLEAN : service_dispatch(more)
    PROVE  Leaves
<1> USE DEF Leaves, childState, childVars
<1>1. CASE \E e \in Wakes : action_kickoff_time_sync(e)
  BY <1>1, KickoffKeepsTimeout DEF action_kickoff_time_sync, KickoffFrame
<1>2. CASE StdinBroken
  BY <1>2, RanKeepsTimeout DEF StdinBroken, Return, KickoffFrame
<1>3. CASE action_invalidate_time
  BY <1>3, RanKeepsTimeout, KickoffKeepsTimeout DEF action_invalidate_time, Return, KickoffFrame
<1>4. CASE action_sigterm
  BY <1>4, RanKeepsTimeout DEF action_sigterm, Return, tryVars
<1>5. CASE action_sync_and_save
  BY <1>5, RanKeepsTimeout DEF action_sync_and_save, Return, tryVars
<1>6. CASE SaveHangup
  BY <1>6, RanKeepsTimeout DEF SaveHangup, Return, tryVars
<1>7. CASE \E more \in BOOLEAN : handle_can_set_time(more)
  BY <1>7, RanKeepsTimeout DEF handle_can_set_time, KickoffFrame
<1>8. CASE \E more \in BOOLEAN : \E t \in Requests : handle_set_time(t, more)
  BY <1>8, RanKeepsTimeout, KickoffKeepsTimeout DEF handle_set_time, KickoffFrame
<1>9. CASE \E more \in BOOLEAN : handle_last_sync_info(more)
  BY <1>9, RanKeepsTimeout DEF handle_last_sync_info, KickoffFrame
<1> QED
  BY <1>1, <1>2, <1>3, <1>4, <1>5, <1>6, <1>7, <1>8, <1>9 DEF service_dispatch

\* A status word from the setter, or the end of its pipe.
LEMMA TimeSetInv == ChildInv /\ action_time_set => ChildInv'
<1> SUFFICES ASSUME ChildInv, action_time_set PROVE ChildInv'
  OBVIOUS
<1>1. CASE Exit
  BY <1>1, ExitInv
<1>2. CASE ~Exit
  <2>1. Leaves
    BY <1>2, RanKeepsTimeout
       DEF action_time_set, Return, Leaves, childState, tryVars, childVars
  <2> QED
    BY <2>1, LeavesInv
<1> QED
  BY <1>1, <1>2

-----------------------------------------------------------------------------
(* Steps in the child's life.                                              *)

\* action_run_tlsdate arms the timeout before the child exists, and takes both
\* back when fork() fails.
LEMMA RunTlsdateInv == ChildInv /\ action_run_tlsdate => ChildInv'
<1> SUFFICES ASSUME ChildInv, action_run_tlsdate PROVE ChildInv'
  OBVIOUS
<1> USE DaemonAssumption DEF ChildInv, StoppedIsAlive, ChildKnown, ChildGuarded, BackoffBounded
<1>0. UNCHANGED daemon
  BY DEF action_run_tlsdate
<1>1. CASE ~running /\ Launched
  <2>1. "E_TLSDATE_TIMEOUT" \in armed'
    BY <1>1 DEF Launched, Return, Ran
  <2>2. daemon = "up" /\ child = "none"
    BY <1>1 DEF action_run_tlsdate, Callback
  <2> QED
    BY <1>0, <1>1, <2>1, <2>2 DEF Launched, ChildState
<1>2. CASE ~running /\ LaunchFailed
  <2>1. daemon = "up" /\ child = "none"
    BY <1>2 DEF action_run_tlsdate, Callback
  <2> QED
    BY <1>0, <1>2, <2>1 DEF LaunchFailed, childVars
<1>3. CASE ~(~running /\ Launched) /\ ~(~running /\ LaunchFailed)
  <2>1. /\ UNCHANGED <<child, running, tlsdate_pid, stopped>>
        /\ backoff' \in {backoff, wait_between_tries}
        /\ Return("E_TLSDATE", {}, {})
    BY <1>3 DEF action_run_tlsdate, tryVars, childVars
  <2>2. "E_TLSDATE_TIMEOUT" \in armed => "E_TLSDATE_TIMEOUT" \in armed'
    BY <2>1, RanKeepsTimeout DEF Return
  <2> QED
    BY <1>0, <2>1, <2>2
<1> QED
  BY <1>1, <1>2, <1>3

\* The timeout is spent on a child that is dead from then on.
LEMMA TimeoutInv == ChildInv /\ action_tlsdate_timeout => ChildInv'
<1> SUFFICES ASSUME ChildInv, action_tlsdate_timeout PROVE ChildInv'
  OBVIOUS
<1>1. daemon = "up" /\ UNCHANGED <<daemon, running, tlsdate_pid, backoff>>
  BY DEF action_tlsdate_timeout, Callback, tryVars
<1>2. CASE child \in {"alive", "wrote"}
  <2>1. child' = "exit1" /\ stopped' = stopped \ {"tlsdate"}
    BY <1>1, <1>2 DEF action_tlsdate_timeout, KillChild, ChildInv, ChildKnown
  <2> QED
    BY <1>1, <1>2, <2>1
       DEF ChildInv, ChildState, StoppedIsAlive, ChildKnown, ChildGuarded, BackoffBounded
<1>3. CASE child \notin {"alive", "wrote"}
  <2>1. UNCHANGED <<child, stopped>>
    BY <1>3 DEF action_tlsdate_timeout, KillChild
  <2> QED
    BY <1>1, <1>3, <2>1
       DEF ChildInv, StoppedIsAlive, ChildKnown, ChildGuarded, BackoffBounded
<1> QED
  BY <1>2, <1>3

\* An answer, or a part of one, changes nothing about the child.
LEMMA StatusInv == ChildInv /\ action_tlsdate_status => ChildInv'
<1> SUFFICES ASSUME ChildInv, action_tlsdate_status PROVE ChildInv'
  OBVIOUS
<1>1. /\ UNCHANGED <<daemon, child, running, tlsdate_pid, stopped>>
      /\ backoff' \in {backoff, wait_between_tries}
  BY DEF action_tlsdate_status
<1>2. "E_TLSDATE_TIMEOUT" \in armed => "E_TLSDATE_TIMEOUT" \in armed'
  BY RanKeepsTimeout DEF action_tlsdate_status, Return
<1> QED
  BY <1>1, <1>2, DaemonAssumption
     DEF ChildInv, StoppedIsAlive, ChildKnown, ChildGuarded, BackoffBounded

\* Doubling below the limit stays below twice the limit.
LEMMA NextBackoffBounded ==
    ASSUME backoff \in Nat, BackoffBounded
    PROVE  NextBackoff \in Nat
           /\ (NextBackoff = wait_between_tries \/ NextBackoff < 2 * MAX_SANE_BACKOFF)
BY DaemonAssumption DEF BackoffBounded, NextBackoff

\* action_sigchld forgets a child exactly when it has collected it.
LEMMA SigchldInv == ChildInv /\ action_sigchld => ChildInv'
<1> SUFFICES ASSUME ChildInv, action_sigchld PROVE ChildInv'
  OBVIOUS
<1>0. daemon = "up" /\ UNCHANGED daemon /\ stopped' = {}
  BY DEF action_sigchld, Callback
<1>1. ASSUME NEW how, ReapTlsdate(how) PROVE ChildInv'
  <2>1. child' = "none" /\ running' = FALSE /\ tlsdate_pid' = FALSE
        /\ backoff' \in {backoff, NextBackoff}
    BY <1>1 DEF ReapTlsdate
  <2> QED
    BY <1>0, <2>1, NextBackoffBounded
       DEF ChildInv, ChildState, StoppedIsAlive, ChildKnown, ChildGuarded, BackoffBounded
<1>2. CASE stopped # {} /\ child' = "exit1" /\ UNCHANGED <<backoff, running, tlsdate_pid>>
  <2>1. child \in {"alive", "wrote"}
    BY <1>0, <1>2 DEF action_sigchld, ChildInv, StoppedIsAlive
  <2> QED
    BY <1>0, <1>2, <2>1
       DEF ChildInv, ChildState, StoppedIsAlive, ChildKnown, ChildGuarded, BackoffBounded
<1>3. CASE UNCHANGED <<child, backoff, running, tlsdate_pid>> /\ Return("E_SIGCHLD", {}, {})
  <2>1. "E_TLSDATE_TIMEOUT" \in armed => "E_TLSDATE_TIMEOUT" \in armed'
    BY <1>3, RanKeepsTimeout DEF Return
  <2> QED
    BY <1>0, <1>3, <2>1
       DEF ChildInv, StoppedIsAlive, ChildKnown, ChildGuarded, BackoffBounded
<1> QED
  BY <1>1, <1>2, <1>3 DEF action_sigchld

-----------------------------------------------------------------------------
(* Everything else.                                                        *)

\* The loop only looks.
LEMMA PollsInv == ChildInv /\ Polls => ChildInv'
<1> SUFFICES ASSUME ChildInv, Polls PROVE ChildInv'
  OBVIOUS
<1>1. Leaves
  BY DEF Polls, Poll, Leaves, childState, tryVars, childVars
<1> QED
  BY <1>1, LeavesInv

\* What a child does by itself leaves the timeout armed until it is collected.
LEMMA ProcessesInv == ChildInv /\ (ChildWrites \/ ChildExits \/ StopChild) => ChildInv'
<1> SUFFICES ASSUME ChildInv, ChildWrites \/ ChildExits \/ StopChild PROVE ChildInv'
  OBVIOUS
<1>1. /\ daemon = "up"
      /\ UNCHANGED <<daemon, running, tlsdate_pid, backoff, armed>>
  BY DEF ChildWrites, ChildExits, StopChild, tryVars, eventVars
<1>2. /\ child' \in {child, "wrote", "exit0", "exit1"}
      /\ child' # child => child \in {"alive", "wrote"}
      /\ child' # child => "tlsdate" \notin stopped
      /\ child' # child => UNCHANGED stopped
      /\ stopped' \subseteq stopped \cup {"tlsdate", "setter"}
      /\ "tlsdate" \in stopped' => "tlsdate" \in stopped \/ child \in {"alive", "wrote"}
  BY DEF ChildWrites, ChildExits, StopChild
<1> QED
  BY <1>1, <1>2
     DEF ChildInv, ChildState, StoppedIsAlive, ChildKnown, ChildGuarded, BackoffBounded

\* The setter and an outside clock change do not concern the child.
LEMMA OthersInv == ChildInv /\ (Coprocess \/ CoprocessKilled \/ ClockJump) => ChildInv'
<1> SUFFICES ASSUME ChildInv, Coprocess \/ CoprocessKilled \/ ClockJump PROVE ChildInv'
  OBVIOUS
<1>1. Leaves
  BY DEF Coprocess, CoprocessKilled, CoprocessFrame, ClockJump, Leaves, childState,
         tryVars, eventVars, childVars
<1> QED
  BY <1>1, LeavesInv

\* SIGTERM is noted, or ends the daemon.
LEMMA SigtermInv == ChildInv /\ Sigterm => ChildInv'
<1> SUFFICES ASSUME ChildInv, Sigterm PROVE ChildInv'
  OBVIOUS
<1>1. CASE Exit
  BY <1>1, ExitInv
<1>2. CASE ~Exit
  <2>1. Leaves
    BY <1>2 DEF Sigterm, Leaves, childState, tryVars, eventVars, childVars
  <2> QED
    BY <2>1, LeavesInv
<1> QED
  BY <1>1, <1>2

\* A daemon that starts has no child.
LEMMA MainInv == ChildInv /\ Main => ChildInv'
BY DaemonAssumption
   DEF Main, Blank, ChildInv, ChildState, StoppedIsAlive, ChildKnown, ChildGuarded, BackoffBounded

\* The initial state has no child.
LEMMA ChildInitInv == Init => ChildInv
BY DaemonAssumption
   DEF Init, ChildInv, ChildState, StoppedIsAlive, ChildKnown, ChildGuarded, BackoffBounded

\* Every step preserves ChildInv.
LEMMA ChildNextInv == ChildInv /\ [Next]_vars => ChildInv'
<1> SUFFICES ASSUME ChildInv, [Next]_vars PROVE ChildInv'
  OBVIOUS
<1>1. CASE Main
  BY <1>1, MainInv
<1>2. CASE Polls
  BY <1>2, PollsInv
<1>3. CASE Handler
  <2>1. CASE SaveSigpipe \/ SetterLost
    BY <2>1, ExitInv DEF SaveSigpipe, SetterLost
  <2>2. CASE action_time_set
    BY <2>2, TimeSetInv
  <2>3. CASE action_run_tlsdate
    BY <2>3, RunTlsdateInv
  <2>4. CASE action_tlsdate_timeout
    BY <2>4, TimeoutInv
  <2>5. CASE action_tlsdate_status
    BY <2>5, StatusInv
  <2>6. CASE action_sigchld
    BY <2>6, SigchldInv
  <2>7. CASE \/ \E e \in Wakes : action_kickoff_time_sync(e)
             \/ StdinBroken \/ action_invalidate_time
             \/ action_sigterm \/ action_sync_and_save \/ SaveHangup
             \/ \E more \in BOOLEAN : service_dispatch(more)
    BY <2>7, TimeHandlersLeave, LeavesInv
  <2> QED
    BY <1>3, <2>1, <2>2, <2>3, <2>4, <2>5, <2>6, <2>7 DEF Handler
<1>4. CASE Coprocess
  BY <1>4, OthersInv
<1>5. CASE Environment
  BY <1>5, ProcessesInv, OthersInv, SigtermInv, ExitInv DEF Environment, PowerLoss
<1>6. CASE UNCHANGED vars
  <2>1. Leaves
    BY <1>6 DEF vars, tryVars, eventVars, childVars, Leaves, childState
  <2> QED
    BY <2>1, LeavesInv
<1> QED
  BY <1>1, <1>2, <1>3, <1>4, <1>5, <1>6 DEF Next

\* ChildInv is an invariant of the daemon.
THEOREM ChildInvariance == Spec => []ChildInv
BY ChildInitInv, ChildNextInv, PTL DEF Spec

-----------------------------------------------------------------------------
(* The results.                                                            *)

\* action_run_tlsdate never starts a second tlsdate, and the daemon never
\* forgets one that it has to collect.
THEOREM OneChild == Spec => []ChildKnown
<1>1. ChildInv => ChildKnown
  BY DEF ChildInv
<1> QED
  BY <1>1, ChildInvariance, PTL

\* A tlsdate that has not exited is always under E_TLSDATE_TIMEOUT.
THEOREM ChildUnderTimeout == Spec => []ChildGuarded
<1>1. ChildInv => ChildGuarded
  BY DEF ChildInv
<1> QED
  BY <1>1, ChildInvariance, PTL

\* handle_child_death doubles the backoff to less than twice its limit.
THEOREM BackoffLimit == Spec => []BackoffBounded
<1>1. ChildInv => BackoffBounded
  BY DEF ChildInv
<1> QED
  BY <1>1, ChildInvariance, PTL
=============================================================================
