---------------------------- MODULE TlsdateDefs ----------------------------
(***************************************************************************)
(* What the daemon, its privileged setter and the properties share: sane   *)
(* times, sync types, the setter's status words, and times that remember   *)
(* where they come from.                                                   *)
(***************************************************************************)
EXTENDS Integers

CONSTANTS
    RECENT_COMPILE_DATE,  \* the date of the build: no later time may be older
    TLSDATED_MAX_DATE     \* first time that is too far in the future

ASSUME DatesAssumption ==
    /\ RECENT_COMPILE_DATE \in Nat
    /\ TLSDATED_MAX_DATE \in Nat
    /\ RECENT_COMPILE_DATE + 1 < TLSDATED_MAX_DATE

is_sane_time(ts) == ts > RECENT_COMPILE_DATE /\ ts < TLSDATED_MAX_DATE

(***************************************************************************)
(* A time_t, tagged with its provenance: net says that the value reached   *)
(* the program as the answer of a network source.  The tag is bookkeeping  *)
(* for the properties: no guard of any module reads it.                    *)
(***************************************************************************)
Time == [sec : Int, net : BOOLEAN]

FromNet(s) == [sec |-> s, net |-> TRUE]
Local(s) == [sec |-> s, net |-> FALSE]

\* The other sign of a word on the wire.
Negated(m) == [sec |-> -m.sec, net |-> m.net]

\* No usable timestamp file: missing, too short or unreadable.
NoTime == [sec |-> 0, net |-> FALSE]

SYNC_TYPES == {"NONE", "BUILD", "DISK", "RTC", "PLATFORM", "NET"}

\* What the setter writes on its notification pipe.
SETTER_STATUS == {"EXIT", "BAD_TIME", "NO_SAVE", "READ_ERR",
                  "TIME_SET", "SET_ERR", "NO_SBOX", "NO_RTC"}
\* Any other int on that pipe.
BOGUS == "BOGUS"
=============================================================================
