------------------------------- MODULE MCCros -------------------------------
(* CrosResolver for TLC.                                                    *)
EXTENDS CrosResolver

SomePacs == {[type |-> "PROXY", valid |-> TRUE], [type |-> "SOCKS", valid |-> FALSE]}
AllFaults == {"send", "noreply", "mismatch", "disconnect"}
=============================================================================
