--------------------------- MODULE MCSetterService ---------------------------
(***************************************************************************)
(* SetterService for TLC: sane times lie strictly between 1 and 5, so the  *)
(* epoch (0), a time at the build date (1) and one too late (5) can be     *)
(* sent as well as sane ones.                                              *)
(***************************************************************************)
EXTENDS SetterService

MC_Sent == {1, 2}
MC_Boot == {3}
MC_AllFail == Failures

=============================================================================
