----------------------------- MODULE MCTlsdated -----------------------------
(***************************************************************************)
(* Tlsdated for TLC.  Sane times lie strictly between 1 and 9: 1 is the    *)
(* build date, 0 the epoch, 9 the first time that is too late, and 3 what  *)
(* a sane but unsynchronized clock shows.  With kDelta = 1 any two of the  *)
(* times 3, 4 and 6 are a desync apart.                                    *)
(***************************************************************************)
EXTENDS Tlsdated

None == {}

\* What can go wrong around the tlsdate child and the setter.
ChildFaults == {"fork", "truncate", "silent", "stop", "stdin", "sigterm"}
RetryFaults == {"fork", "silent"}
Shutdowns == {"sigterm", "sigterm2"}
OneSigterm == {"sigterm"}
Restarts == {"restart"}
SetterDies == {"kill"}
NoOpen == {"open", "sandbox", "settimeofday"}

SaneBoot == {3}
AnyBoot == {1, 3}
EpochOrSane == {0, 3}

NetTime == {6}
EarlyAndLate == {2, 5}
SaneAndTooLate == {6, 9}
Saved == {4}
UserTime == {4}

Continuity == {"E_CONTINUITY"}
RouteUp == {"E_ROUTEUP"}
DBusAndSteadyState == {"E_DBUS", "E_STEADYSTATE"}
=============================================================================
