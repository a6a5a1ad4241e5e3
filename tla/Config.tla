------------------------------- MODULE Config -------------------------------
(***************************************************************************)
(* How tlsdated gets its options: the defaults, then the command line,     *)
(* then the configuration file, with a check after the second and after    *)
(* the third, and how they become the command line of the tlsdate child.   *)
(* Numbers are the ints that atoi returns; what an option's text looks     *)
(* like beyond that is left out.                                           *)
(***************************************************************************)
EXTENDS Integers, Sequences

CONSTANTS
    CommandLines,   \* command lines of tlsdated: records
                    \* [set, off, file, extra, bad], see parse_argv
    ConfFiles,      \* configuration files: sequences of lines [key, val]
    INT_MAX         \* the ints are -INT_MAX - 1 .. INT_MAX

Numbers == {"max_tries", "wait_between_tries", "steady_state_interval", "jitter",
            "subprocess_wait_between_tries"}
Flags == {"should_sync_hwclock", "should_load_disk", "should_save_disk",
          "should_netlink", "should_dbus", "dry_run", "leap"}

ASSUME ConfigAssumption ==
    /\ INT_MAX \in Nat /\ INT_MAX > 2
    /\ \A line \in CommandLines :
            /\ \A k \in Numbers \cap DOMAIN line.set : line.set[k] \in -INT_MAX - 1 .. INT_MAX
            /\ line.off \subseteq Flags
    /\ \A f \in ConfFiles : f \in Seq({f[i] : i \in DOMAIN f})

VARIABLES
    stage,     \* how far main() has come
    argv,      \* its command line
    file,      \* the configuration file, <<>> when there is none
    entries,   \* lines of the file not looked at yet
    stanza,    \* the source stanza being read
    opts,      \* state.opts
    sources    \* opts.sources, a list

confVars == <<stage, argv, file, entries, stanza, opts, sources>>

Stages == {"argv", "check", "load", "entries", "recheck", "sources", "dispatch", "fatal", "gone"}

\* No value on the line.
NULL == "NULL"
Closed == [open |-> FALSE, host |-> NULL, port |-> NULL, proxy |-> NULL]

\* What atoi makes of the texts that occur.
atoi(text) == CASE text = "-3" -> -3 [] text = "1" -> 1 [] text = "2" -> 2
                [] text = "3" -> 3 [] OTHER -> 0

set_conf_defaults ==
    [k \in Numbers \cup Flags \cup {"proxy"} |->
        CASE k = "proxy" -> NULL
          [] k = "steady_state_interval" -> 3
          [] k = "jitter" -> 0
          [] k \in Numbers -> 2
          [] OTHER -> k \notin {"dry_run", "leap"}]

Fatal == stage' = "fatal" /\ UNCHANGED <<argv, file, entries, stanza, opts, sources>>

\* Every option letter sets a number (argv.set), switches a flag off (argv.off)
\* or, for -p, the dry run on; what follows is the tlsdate command.
parse_argv ==
    /\ stage = "argv"
    /\ \/ argv.bad /\ Fatal
       \/ /\ ~argv.bad
          /\ opts' = [k \in DOMAIN opts |->
                        IF k \in DOMAIN argv.set THEN argv.set[k]
                        ELSE IF k \in argv.off THEN k = "dry_run" ELSE opts[k]]
          /\ stage' = "check"
          /\ UNCHANGED <<argv, file, entries, stanza, sources>>

\* Mutant: the jitter is not compared with the interval.
check_conf_NoJitter(o) ==
    /\ o["max_tries"] # 0 /\ o["wait_between_tries"] # 0
    /\ o["steady_state_interval"] # 0

\* Only zero is refused; other than the jitter nothing is compared.
check_conf(o) ==
    /\ o["max_tries"] # 0 /\ o["wait_between_tries"] # 0
    /\ o["steady_state_interval"] # 0
    /\ o["jitter"] < o["steady_state_interval"]

CheckConf ==
    /\ stage \in {"check", "recheck"}
    /\ \/ ~check_conf(opts) /\ Fatal
       \/ /\ check_conf(opts)
          /\ stage' = IF stage = "check" THEN "load" ELSE "sources"
          /\ UNCHANGED <<argv, file, entries, stanza, opts, sources>>

\* An empty line or a comment.
Dropped(l) == l.key = "#"

\* A file that is not there is an error only if -f names it, one without any
\* entry always is.
load_conf ==
    /\ stage = "load"
    /\ \/ file = <<>> /\ argv.file /\ Fatal
       \/ /\ file = <<>> /\ ~argv.file
          /\ stage' = "recheck"
          /\ UNCHANGED <<argv, file, entries, stanza, opts, sources>>
       \/ file # <<>> /\ (\A i \in 1 .. Len(file) : Dropped(file[i])) /\ Fatal
       \/ /\ \E i \in 1 .. Len(file) : ~Dropped(file[i])
          /\ entries' = file
          /\ stage' = "entries"
          /\ UNCHANGED <<argv, file, stanza, opts, sources>>

\* The list that conf_parse makes of the file has only the entries in it; here
\* the other lines are dropped when load_conf gets to where they were.
conf_parse ==
    /\ stage = "entries" /\ entries # <<>> /\ Dropped(Head(entries))
    /\ entries' = Tail(entries)
    /\ UNCHANGED <<stage, argv, file, stanza, opts, sources>>

\* Mutant: ids count from the length of the list.
NextId_Length(s) == Len(s) + 1

\* The id of a new source: one more than the last one's.
NextId(s) == IF s = <<>> THEN 0 ELSE s[Len(s)].id + 1

Source(s, host, proxy) == [id |-> NextId(s), host |-> host, proxy |-> proxy]
add_source_to_conf(host, proxy) == sources' = Append(sources, Source(sources, host, proxy))

\* Mutant: the first entry of a key wins.
SetOption_First(e) ==
    [opts EXCEPT ![e.key] =
        IF @ # set_conf_defaults[e.key] THEN @
        ELSE IF e.key \in Numbers THEN atoi(e.val) ELSE e.val \in {NULL, "yes"}]

\* An entry for an option: a flag without a value is on.
SetOption(e) ==
    [opts EXCEPT ![e.key] = IF e.key \in Numbers THEN atoi(e.val) ELSE e.val \in {NULL, "yes"}]

\* One entry outside a stanza; keys that are not known are skipped, and so is
\* a number without its value.
LoadEntry ==
    /\ stage = "entries" /\ ~stanza.open /\ entries # <<>> /\ ~Dropped(Head(entries))
    /\ LET e == Head(entries)
           option == e.key \in Flags \ {"should_dbus"} \/ (e.key \in Numbers /\ e.val # NULL)
       IN  /\ opts' = IF option THEN SetOption(e) ELSE opts
           /\ stanza' = IF e.key = "source" THEN [Closed EXCEPT !.open = TRUE] ELSE stanza
    /\ entries' = Tail(entries)
    /\ UNCHANGED <<stage, argv, file, sources>>

\* One entry of a source stanza.
parse_source ==
    /\ stage = "entries" /\ stanza.open /\ (entries # <<>> => ~Dropped(Head(entries)))
    /\ \/ /\ entries # <<>> /\ Head(entries).key \in {"host", "port", "proxy"}
          /\ stanza' = [stanza EXCEPT ![Head(entries).key] = Head(entries).val]
          /\ entries' = Tail(entries)
          /\ UNCHANGED <<stage, argv, file, opts, sources>>
       \/ /\ entries # <<>> /\ Head(entries).key = "end"
          /\ stanza.host # NULL /\ stanza.port # NULL
          /\ add_source_to_conf(stanza.host, stanza.proxy)
          /\ stanza' = Closed
          /\ entries' = Tail(entries)
          /\ UNCHANGED <<stage, argv, file, opts>>
       \/ /\ entries # <<>> =>
                \/ Head(entries).key \notin {"host", "port", "proxy", "end"}
                \/ Head(entries).key = "end" /\ (stanza.host = NULL \/ stanza.port = NULL)
          /\ Fatal

LoadDone ==
    /\ stage = "entries" /\ ~stanza.open /\ entries = <<>>
    /\ stage' = "recheck"
    /\ UNCHANGED <<argv, file, entries, stanza, opts, sources>>

\* An int, as -fwrapv has it.
Wrap(x) == ((x + INT_MAX + 1) % (2 * INT_MAX + 2)) - INT_MAX - 1

\* add_jitter divides by twice the jitter, which is 0 for INT_MIN too.
Traps(jitter) == jitter # 0 /\ Wrap(2 * jitter) = 0

\* main() after the second check: a default source, no hardware clock if its
\* device cannot be opened, and the steady-state timer, whose division may
\* end the daemon (SIGFPE).
Sources ==
    /\ stage = "sources"
    /\ \/ Traps(opts["jitter"]) /\ Fatal
       \/ /\ ~Traps(opts["jitter"])
          /\ IF sources = <<>> THEN add_source_to_conf("default", NULL) ELSE UNCHANGED sources
          /\ \E opened \in BOOLEAN :
                opts' = [opts EXCEPT !["should_sync_hwclock"] = @ /\ opened]
          /\ stage' = "dispatch"
          /\ UNCHANGED <<argv, file, entries, stanza>>

Startup == parse_argv \/ CheckConf \/ load_conf \/ conf_parse \/ LoadEntry
            \/ parse_source \/ LoadDone \/ Sources

\* The proxy for all sources comes before the one of the source; an empty one
\* is none.
build_proxy == IF opts["proxy"] # NULL THEN opts["proxy"] ELSE Head(sources).proxy

\* The options of the configured command that the daemon's own -H, and -x if
\* there is a proxy, come after and override.
Overridden == {"--host"} \cup (IF build_proxy \in {NULL, ""} THEN {} ELSE {"--proxy"})

\* Mutant: the child may set the clock.
build_argv_SetClock ==
    (argv.extra \ Overridden) \cup {"-Vraw"} \cup (IF opts["leap"] THEN {"-l"} ELSE {})

\* The options of the tlsdate child: those of the configured command, then
\* the daemon's own.
build_argv ==
    (argv.extra \ Overridden) \cup {"-Vraw", "-n"} \cup (IF opts["leap"] THEN {"-l"} ELSE {})

ConfigInit ==
    /\ stage = "argv"
    /\ argv \in CommandLines
    /\ file \in ConfFiles
    /\ entries = <<>> /\ stanza = Closed /\ sources = <<>>
    /\ opts = set_conf_defaults

-----------------------------------------------------------------------------
(* The steady-state timer.                                                 *)

\* C's % truncates towards zero.
Rem(a, b) == LET abs(x) == IF x < 0 THEN -x ELSE x
                 r == abs(a) % abs(b)
             IN  IF a < 0 THEN -r ELSE r

\* stdlib's abs: that of INT_MIN is INT_MIN.
Abs(n) == IF n < 0 THEN Wrap(-n) ELSE n

\* add_jitter for the random int n.
add_jitter(base, jitter, n) ==
    IF jitter = 0 THEN base
    ELSE Wrap(base + Rem(Abs(n), Wrap(2 * jitter)) - jitter)

\* The largest sum that add_jitter can come to is an int.  A negative jitter is
\* added up to three times.
JitterFits(base, jitter) ==
    base + (IF jitter < 0 THEN -3 * jitter ELSE jitter) <= INT_MAX + 1

\* Whatever the command line and the file say, and in whichever order they
\* override each other, as long as the sums of add_jitter are ints: the
\* interval of the steady-state timer is positive when the daemon starts to run,
\* also for the negative settings that check_conf lets through, and differs
\* from the one that is set by at most the jitter, unless that is negative
\* (for every random number but INT_MIN).
SteadyTimerPositive ==
    LET base == opts["steady_state_interval"]
        jitter == opts["jitter"]
    IN  stage = "dispatch" /\ JitterFits(base, jitter) =>
            \A n \in -INT_MAX .. INT_MAX :
                /\ add_jitter(base, jitter, n) > 0
                /\ jitter >= 0 => add_jitter(base, jitter, n) \in base - jitter .. base + jitter

\* The id of a source is its place in the list, as platform_init_cros needs it
\* for its table of messages, and the list is never empty.
SourceIdsArePlaces ==
    stage = "dispatch" =>
        /\ sources # <<>>
        /\ \A i \in 1 .. Len(sources) : sources[i].id = i - 1

\* The last entry of the file decides, else the command line, else the default.
Indices(k) == {i \in 1 .. Len(file) : file[i].key = k /\ (k \in Flags \/ file[i].val # NULL)}
LastEntry(k) == file[CHOOSE i \in Indices(k) : \A j \in Indices(k) : j <= i]

LastEntryDecides ==
    stage = "dispatch" =>
        \A k \in Numbers :
            opts[k] = IF Indices(k) # {} THEN atoi(LastEntry(k).val)
                      ELSE IF k \in DOMAIN argv.set THEN argv.set[k]
                      ELSE set_conf_defaults[k]
=============================================================================
