---------------------------- MODULE HelperProofs ----------------------------
(***************************************************************************)
(* The options of the daemon and the answer of tlsdate-helper, for every   *)
(* command line, configuration file, server and network.                   *)
(***************************************************************************)
EXTENDS TlsdateHelper, SequenceTheorems, TLAPS

-----------------------------------------------------------------------------
(* The configuration.                                                      *)

OptionNames == Numbers \cup Flags \cup {"proxy"}

\* The options are a function whose numbers are numbers.
OptsOK(o) ==
    /\ DOMAIN o = OptionNames
    /\ o = [k \in OptionNames |-> o[k]]
    /\ \A k \in Numbers : o[k] \in Int

\* Who has a configuration, and what it is checked to be: from the second
\* check on the options are those the daemon runs with.
ConfChecked ==
    /\ stage # "gone" => OptsOK(opts) /\ argv \in CommandLines
    /\ stage \in {"sources", "dispatch"} => check_conf(opts)

\* The list of sources is a list, and is numbered.
Numbered ==
    /\ \E S : sources \in Seq(S)
    /\ \A i \in 1 .. Len(sources) : sources[i].id = i - 1
    /\ stage = "dispatch" => sources # <<>>

ConfInv == ConfChecked /\ Numbered

-----------------------------------------------------------------------------
(* What the operators of the configuration compute.                        *)

\* What is an int already is not wrapped.
LEMMA WrapInt ==
    ASSUME NEW x \in -INT_MAX - 1 .. INT_MAX
    PROVE  Wrap(x) = x
<1>1. INT_MAX \in Nat
  BY ConfigAssumption
<1> DEFINE a == x + INT_MAX + 1
           b == 2 * INT_MAX + 2
<1>2. a \in Nat /\ b \in Nat \ {0} /\ a < b
  BY <1>1
<1>3. a = b * 0 + a /\ 0 \in Int
  BY <1>2
<1> HIDE DEF a, b
<1>4. a % b = a
  BY <1>2, <1>3
<1> QED
  BY <1>1, <1>4 DEF Wrap, a, b

\* The remainder of a number that is not negative is not negative and below
\* the size of the divisor, whatever the sign of that.
LEMMA RemNat ==
    ASSUME NEW a \in Nat, NEW b \in Int, b # 0
    PROVE  LET c == IF b < 0 THEN -b ELSE b IN Rem(a, b) \in 0 .. c - 1
<1> DEFINE c == IF b < 0 THEN -b ELSE b
<1>1. c \in Nat /\ c > 0
  OBVIOUS
<1>2. a % c \in 0 .. c - 1
  BY <1>1
<1>3. ~(a < 0)
  OBVIOUS
<1> QED
  BY <1>2, <1>3 DEF Rem

\* With a jitter below the interval and sums that are ints, add_jitter never
\* gets to zero: for a positive jitter because at most all of it is taken away,
\* for a negative one because it is only ever added.
LEMMA JitterKeepsPositive ==
    ASSUME NEW base \in Int, NEW jitter \in Int, jitter < base, base # 0,
           JitterFits(base, jitter), NEW n \in -INT_MAX .. INT_MAX
    PROVE  /\ add_jitter(base, jitter, n) > 0
           /\ jitter >= 0 => add_jitter(base, jitter, n) \in base - jitter .. base + jitter
<1>i. INT_MAX \in Nat
  BY ConfigAssumption
<1>1. CASE jitter = 0
  BY <1>1 DEF add_jitter
<1>2. CASE jitter # 0
  <2> DEFINE a == Abs(n)
             m == Wrap(2 * jitter)
             d == 2 * jitter
             r == Rem(a, d)
  <2>1. a \in Nat
    <3>1. CASE n < 0
      <4>1. -n \in -INT_MAX - 1 .. INT_MAX /\ -n \in Nat
        BY <1>i, <3>1
      <4> QED
        BY <3>1, <4>1, WrapInt DEF Abs
    <3>2. CASE ~(n < 0)
      BY <1>i, <3>2 DEF Abs
    <3> QED
      BY <3>1, <3>2
  <2>2. 2 * jitter \in Int /\ 2 * jitter # 0 /\ 2 * jitter \in -INT_MAX - 1 .. INT_MAX
    BY <1>i, <1>2 DEF JitterFits
  <2>3. m = 2 * jitter
    BY <2>2, WrapInt
  <2> HIDE DEF a
  <2>4. r \in 0 .. (IF d < 0 THEN -d ELSE d) - 1
    <3>1. d \in Int /\ d # 0
      BY <2>2
    <3> HIDE DEF d
    <3> QED
      BY <2>1, <3>1, RemNat
  <2>5. add_jitter(base, jitter, n) = Wrap(base + r - jitter)
    BY <1>2, <2>3 DEF add_jitter, a
  <2> HIDE DEF r
  <2>6. /\ base + r - jitter \in 1 .. INT_MAX
        /\ jitter >= 0 => base + r - jitter \in base - jitter .. base + jitter
    BY <1>i, <1>2, <2>4 DEF JitterFits
  <2>7. Wrap(base + r - jitter) = base + r - jitter
    BY <1>i, <2>6, WrapInt
  <2> QED
    BY <2>5, <2>6, <2>7
<1> QED
  BY <1>1, <1>2

\* atoi returns an int.
LEMMA AtoiInt ==
    ASSUME NEW text
    PROVE  atoi(text) \in Int
  BY DEF atoi

\* The defaults are options.
LEMMA DefaultsOK == OptsOK(set_conf_defaults)
<1>1. DOMAIN set_conf_defaults = OptionNames
  BY DEF set_conf_defaults, OptionNames
<1>2. \A k \in Numbers : set_conf_defaults[k] \in Int
  BY DEF set_conf_defaults, Numbers
<1>3. set_conf_defaults = [k \in OptionNames |-> set_conf_defaults[k]]
  BY DEF set_conf_defaults, OptionNames
<1> QED
  BY <1>1, <1>2, <1>3 DEF OptsOK

\* An entry of the file keeps the options options.
LEMMA SetOptionOK ==
    ASSUME OptsOK(opts), NEW e, e.key \in OptionNames
    PROVE  OptsOK(SetOption(e))
<1> DEFINE o == SetOption(e)
<1>1. DOMAIN o = OptionNames
  BY DEF OptsOK, SetOption
<1>2. \A k \in Numbers : o[k] \in Int
  BY AtoiInt DEF OptsOK, SetOption, OptionNames
<1>3. o = [k \in OptionNames |-> o[k]]
  BY DEF OptsOK, SetOption
<1> QED
  BY <1>1, <1>2, <1>3 DEF OptsOK

\* A new source at the end of a numbered list has the number of its place.
LEMMA AppendNumbered ==
    ASSUME NEW S, NEW s \in Seq(S),
           \A i \in 1 .. Len(s) : s[i].id = i - 1,
           NEW host, NEW proxy
    PROVE  LET t == Append(s, Source(s, host, proxy))
           IN  /\ \E T : t \in Seq(T)
               /\ \A i \in 1 .. Len(t) : t[i].id = i - 1
               /\ t # <<>>
<1> DEFINE x == Source(s, host, proxy)
           t == Append(s, x)
<1>1. s \in Seq(S \cup {x}) /\ x \in S \cup {x} /\ Len(s) \in Nat
  <2>1. s \in [1 .. Len(s) -> S]
    BY LenProperties
  <2>2. s \in [1 .. Len(s) -> S \cup {x}] /\ Len(s) \in Nat
    BY <2>1, LenProperties
  <2> HIDE DEF x
  <2> QED
    BY <2>2, SeqDef
<1>2. x.id = Len(s)
  <2>1. CASE s = <<>>
    BY <2>1 DEF Source, NextId
  <2>2. CASE s # <<>>
    <3>1. Len(s) \in 1 .. Len(s)
      BY <2>2, <1>1, EmptySeq
    <3>2. s[Len(s)].id = Len(s) - 1
      BY <3>1
    <3> QED
      BY <3>2, <2>2, <1>1 DEF Source, NextId
  <2> QED
    BY <2>1, <2>2
<1> HIDE DEF x
<1>3. /\ t \in Seq(S \cup {x})
      /\ Len(t) = Len(s) + 1
      /\ \A i \in 1 .. Len(s) : t[i] = s[i]
      /\ t[Len(s) + 1] = x
  BY <1>1, AppendProperties
<1>4. \A i \in 1 .. Len(t) : t[i].id = i - 1
  BY <1>1, <1>2, <1>3
<1>5. t # <<>>
  BY <1>1, <1>3
<1>6. \E T : t \in Seq(T)
  BY <1>3
<1> QED
  BY <1>4, <1>5, <1>6 DEF x

-----------------------------------------------------------------------------
(* The start of the daemon.                                                *)

\* A step of the start-up other than a failure.
LEMMA StartupConf ==
    ASSUME ConfInv, Startup, stage # "gone"
    PROVE  ConfInv'
<1> USE DEF ConfInv
<1>0. /\ OptsOK(opts) /\ argv \in CommandLines
      /\ \A k \in Numbers \cap DOMAIN argv.set : argv.set[k] \in Int
      /\ argv.off \cap Numbers = {}
  BY ConfigAssumption DEF ConfChecked, Flags, Numbers
<1>f. CASE Fatal
  BY <1>f DEF Fatal, ConfChecked, Numbered, OptsOK, check_conf
<1>1. CASE parse_argv /\ ~Fatal
  <2> DEFINE f == [k \in DOMAIN opts |->
                    IF k \in DOMAIN argv.set THEN argv.set[k]
                    ELSE IF k \in argv.off THEN k = "dry_run" ELSE opts[k]]
  <2>1. opts' = f /\ stage' = "check" /\ argv' = argv /\ sources' = sources
    BY <1>1 DEF parse_argv
  <2>2. OptsOK(f)
    <3>1. DOMAIN f = OptionNames
      BY <1>0 DEF OptsOK
    <3>2. \A k \in Numbers : f[k] \in Int
      BY <1>0 DEF OptsOK, OptionNames
    <3>3. f = [k \in OptionNames |-> f[k]]
      BY <1>0 DEF OptsOK
    <3> QED
      BY <3>1, <3>2, <3>3 DEF OptsOK
  <2> HIDE DEF f
  <2> QED
    BY <1>0, <2>1, <2>2 DEF ConfChecked, Numbered, OptsOK
<1>2. CASE CheckConf /\ ~Fatal
  <2>1. /\ check_conf(opts) /\ stage' \in {"load", "sources"}
        /\ UNCHANGED <<argv, opts, sources>>
    BY <1>2 DEF CheckConf
  <2> QED
    BY <1>0, <2>1 DEF ConfChecked, Numbered, OptsOK, check_conf
<1>3. CASE load_conf /\ ~Fatal
  <2>1. stage' \in {"recheck", "entries"} /\ UNCHANGED <<argv, opts, sources>>
    BY <1>3 DEF load_conf
  <2> QED
    BY <1>0, <2>1 DEF ConfChecked, Numbered, OptsOK
<1>4. CASE LoadEntry
  <2> DEFINE e == Head(entries)
  <2>1. /\ stage = "entries" /\ UNCHANGED <<stage, argv, sources>>
        /\ \/ opts' = opts
           \/ opts' = SetOption(e) /\ e.key \in OptionNames
    BY <1>4 DEF LoadEntry, OptionNames
  <2> HIDE DEF e
  <2>2. OptsOK(opts')
    BY <1>0, <2>1, SetOptionOK
  <2> QED
    BY <1>0, <2>1, <2>2 DEF ConfChecked, Numbered, OptsOK
<1>5. CASE parse_source /\ ~Fatal
  <2>1. stage = "entries" /\ UNCHANGED <<stage, argv, opts>>
    BY <1>5 DEF parse_source
  <2>2. \/ sources' = sources
        \/ sources' = Append(sources, Source(sources, stanza.host, stanza.proxy))
    BY <1>5 DEF parse_source, add_source_to_conf
  <2>3. Numbered'
    <3>1. CASE sources' = sources
      BY <3>1, <2>1 DEF Numbered
    <3>2. CASE sources' = Append(sources, Source(sources, stanza.host, stanza.proxy))
      BY <3>2, AppendNumbered DEF Numbered
    <3> QED
      BY <2>2, <3>1, <3>2
  <2> QED
    BY <1>0, <2>1, <2>3 DEF ConfChecked, OptsOK
<1>6. CASE LoadDone
  <2>1. stage' = "recheck" /\ UNCHANGED <<argv, opts, sources>>
    BY <1>6 DEF LoadDone
  <2> QED
    BY <1>0, <2>1 DEF ConfChecked, Numbered, OptsOK
<1>7. CASE Sources /\ ~Fatal
  <2>1. /\ stage = "sources" /\ stage' = "dispatch" /\ argv' = argv
        /\ check_conf(opts)
    BY <1>7 DEF Sources, ConfChecked
  <2>2. PICK b : opts' = [opts EXCEPT !["should_sync_hwclock"] = b]
    BY <1>7 DEF Sources
  <2>3. /\ OptsOK(opts')
        /\ \A k \in Numbers : opts'[k] = opts[k]
    BY <1>0, <2>2 DEF OptsOK, Numbers
  <2>4. check_conf(opts')
    BY <2>1, <2>3 DEF check_conf, Numbers
  <2>5. Numbered'
    <3>1. CASE sources = <<>>
      <4>1. sources' = Append(sources, Source(sources, "default", NULL))
        BY <3>1, <1>7 DEF Sources, add_source_to_conf
      <4>2. PICK S : sources \in Seq(S)
        BY DEF Numbered
      <4>3. /\ \E T : sources' \in Seq(T)
            /\ \A i \in 1 .. Len(sources') : sources'[i].id = i - 1
            /\ sources' # <<>>
        BY <4>1, <4>2, AppendNumbered DEF Numbered
      <4> QED
        BY <4>3 DEF Numbered
    <3>2. CASE sources # <<>>
      BY <3>2, <1>7 DEF Numbered, Sources
    <3> QED
      BY <3>1, <3>2
  <2> QED
    BY <1>0, <2>1, <2>3, <2>4, <2>5 DEF ConfChecked
<1>8. CASE conf_parse
  BY <1>0, <1>8 DEF conf_parse, ConfChecked, Numbered, OptsOK
<1> QED
  BY <1>f, <1>1, <1>2, <1>3, <1>4, <1>5, <1>6, <1>7, <1>8 DEF Startup

\* Every step but the start-up's and Exec leaves the configuration alone.
LEMMA ConfNext ==
    ASSUME ConfInv, [Next]_vars
    PROVE  ConfInv'
<1>1. CASE Startup
  <2>1. stage # "gone"
    BY <1>1 DEF Startup, parse_argv, CheckConf, load_conf, conf_parse, LoadEntry, parse_source,
                LoadDone, Sources
  <2> QED
    BY <1>1, <2>1, StartupConf
<1>2. CASE Exec
  <2>1. stage' = "gone" /\ sources' = <<>>
    BY <1>2 DEF Exec
  <2>2. <<>> \in Seq({}) /\ Len(<<>>) = 0
    BY EmptySeq
  <2>3. Numbered'
    BY <2>1, <2>2 DEF Numbered
  <2> QED
    BY <2>1, <2>3 DEF ConfInv, ConfChecked
<1>3. CASE UNCHANGED confVars
  BY <1>3 DEF confVars, ConfInv, ConfChecked, Numbered, OptsOK, check_conf
<1>4. ParentStep => UNCHANGED confVars
  BY DEF ParentStep, Main, Collect, SetClock
<1>5. ChildStep => UNCHANGED confVars
  BY DEF ChildStep, SetUp, DoConnect, ProxyHandshake, Send, ServerHello, Finished, Receive,
         Goto, read_http_date_from_bio, Inspect
<1>6. ServerAnswers \/ Network \/ Tick \/ Jump \/ Kill \/ UNCHANGED vars => UNCHANGED confVars
  BY DEF ServerAnswers, Network, Tick, Jump, Kill, vars
<1> QED
  BY <1>1, <1>2, <1>3, <1>4, <1>5, <1>6 DEF Next

\* ConfInv holds at the start.
LEMMA ConfStart ==
    ASSUME Init
    PROVE  ConfInv
<1>1. sources = <<>> /\ stage \in {"argv", "gone"}
  BY DEF Init, ConfigInit, Gone
<1>2. Numbered
  BY <1>1, EmptySeq DEF Numbered
<1>3. stage # "gone" => opts = set_conf_defaults /\ argv \in CommandLines
  BY DEF Init, ConfigInit, Gone
<1> QED
  BY <1>1, <1>2, <1>3, DefaultsOK DEF ConfInv, ConfChecked

\* The configuration is always consistent: the numbers are ints, what has
\* passed the second check (tlsdated.c, check_conf after load_conf) still does
\* when the daemon runs, and the sources are numbered in order.
THEOREM ConfInvariance == Spec => []ConfInv
<1>1. Init => ConfInv
  BY ConfStart
<1>2. ConfInv /\ [Next]_vars => ConfInv'
  BY ConfNext
<1> QED
  BY <1>1, <1>2, PTL DEF Spec

\* Whatever the command line and the configuration file set, and in whatever
\* order, the steady-state timer that the daemon arms with add_jitter is
\* positive and not further from its interval than the jitter, for every width
\* of int, every setting whose sums are ints and every random number but
\* INT_MIN.  (The hypothesis is part of the property: without it the sums of
\* add_jitter wrap, and the timer may be negative.)
THEOREM TimerIsPositive == Spec => []SteadyTimerPositive
<1>1. ConfInv => SteadyTimerPositive
  <2> DEFINE base == opts["steady_state_interval"]
             jitter == opts["jitter"]
  <2> SUFFICES ASSUME ConfInv, stage = "dispatch", JitterFits(base, jitter),
                      NEW n \in -INT_MAX .. INT_MAX
               PROVE  /\ add_jitter(base, jitter, n) > 0
                      /\ jitter >= 0 =>
                            add_jitter(base, jitter, n) \in base - jitter .. base + jitter
    BY DEF SteadyTimerPositive
  <2>1. base \in Int /\ jitter \in Int /\ jitter < base /\ base # 0
    BY DEF ConfInv, ConfChecked, OptsOK, Numbers, check_conf
  <2> QED
    BY <2>1, JitterKeepsPositive
<1> QED
  BY <1>1, ConfInvariance, PTL

\* The sources of the daemon that runs are numbered by their places, and there
\* is one: add_source_to_conf and the default source of main() see to it.
THEOREM SourcesAreNumbered == Spec => []SourceIdsArePlaces
<1>1. ConfInv => SourceIdsArePlaces
  BY DEF ConfInv, Numbered, SourceIdsArePlaces
<1> QED
  BY <1>1, ConfInvariance, PTL

-----------------------------------------------------------------------------
(* The file and the command line.                                          *)

\* What the options are before the file is read.
Given(k) == IF k \in DOMAIN argv.set THEN argv.set[k] ELSE set_conf_defaults[k]

\* The options o are what the first n lines of the file make of them: the last
\* of these lines with the option's key has set it, if there is one.
DecidedBy(o, n) ==
    \A k \in Numbers :
        \/ (\A i \in Indices(k) : i > n) /\ o[k] = Given(k)
        \/ \E i \in Indices(k) : /\ i <= n
                                 /\ \A j \in Indices(k) : j <= n => j <= i
                                 /\ o[k] = atoi(file[i].val)

\* How many lines have been looked at.
LinesRead == Len(file) - Len(entries)

\* The lines left are the last ones of the file, and those before them have
\* decided.
Loading ==
    /\ stage = "argv" => opts = set_conf_defaults
    /\ stage \in {"check", "load"} => DecidedBy(opts, 0)
    /\ stage = "entries" =>
            /\ \E S : entries \in Seq(S)
            /\ Len(entries) <= Len(file)
            /\ \A i \in 1 .. Len(entries) : entries[i] = file[LinesRead + i]
            /\ DecidedBy(opts, LinesRead)
    /\ stage \in {"recheck", "sources", "dispatch"} => DecidedBy(opts, Len(file))

LoadInv == stage # "gone" => file \in ConfFiles /\ Loading

\* A file is a sequence of lines.
LEMMA FileFacts ==
    ASSUME file \in ConfFiles
    PROVE  /\ \E S : file \in Seq(S)
           /\ Len(file) \in Nat
           /\ file = <<>> <=> Len(file) = 0
           /\ \A k : Indices(k) \subseteq 1 .. Len(file)
<1>1. PICK S : file \in Seq(S)
  BY ConfigAssumption
<1>2. Len(file) \in Nat /\ (file = <<>> <=> Len(file) = 0)
  BY <1>1, LenProperties, EmptySeq
<1> QED
  BY <1>1, <1>2 DEF Indices

\* One line further.
LEMMA NextLine ==
    ASSUME file \in ConfFiles, Loading, stage = "entries", entries # <<>>,
           entries' = Tail(entries), file' = file
    PROVE  /\ LinesRead \in Nat /\ LinesRead + 1 <= Len(file)
           /\ Head(entries) = file[LinesRead + 1]
           /\ \E S : entries' \in Seq(S)
           /\ Len(entries') <= Len(file)
           /\ LinesRead' = LinesRead + 1
           /\ \A i \in 1 .. Len(entries') : entries'[i] = file[LinesRead + 1 + i]
<1>1. PICK S : entries \in Seq(S)
  BY DEF Loading
<1>2. /\ Len(entries) \in Nat \ {0} /\ Head(entries) = entries[1]
      /\ entries' \in Seq(S) /\ Len(entries') = Len(entries) - 1
      /\ \A i \in 1 .. Len(entries') : entries'[i] = entries[i + 1]
  BY <1>1, HeadTailProperties, EmptySeq
<1>3. Len(file) \in Nat /\ Len(entries) <= Len(file)
  BY FileFacts DEF Loading
<1>4. LinesRead \in Nat /\ LinesRead + 1 <= Len(file) /\ LinesRead' = LinesRead + 1
  BY <1>2, <1>3 DEF LinesRead
<1>5. \A i \in 1 .. Len(entries) : entries[i] = file[LinesRead + i]
  BY DEF Loading
<1> HIDE DEF LinesRead
<1>6. Head(entries) = file[LinesRead + 1]
  BY <1>2, <1>5
<1>7. \A i \in 1 .. Len(entries') : entries'[i] = file[LinesRead + 1 + i]
  <2>1. SUFFICES ASSUME NEW i \in 1 .. Len(entries') PROVE entries'[i] = file[LinesRead + 1 + i]
    OBVIOUS
  <2>2. i + 1 \in 1 .. Len(entries) /\ LinesRead + (i + 1) = LinesRead + 1 + i
    BY <1>2, <1>4
  <2> QED
    BY <1>2, <1>5, <2>2
<1> QED
  BY <1>2, <1>3, <1>4, <1>6, <1>7

\* What a line does to the options.
LEMMA LineDecides ==
    ASSUME file \in ConfFiles, NEW n \in Nat, DecidedBy(opts, n), NEW o,
           \A k \in Numbers : IF n + 1 \in Indices(k) THEN o[k] = atoi(file[n + 1].val)
                                                      ELSE o[k] = opts[k]
    PROVE  DecidedBy(o, n + 1)
<1>1. SUFFICES ASSUME NEW k \in Numbers
               PROVE  \/ (\A i \in Indices(k) : i > n + 1) /\ o[k] = Given(k)
                      \/ \E i \in Indices(k) : /\ i <= n + 1
                                               /\ \A j \in Indices(k) : j <= n + 1 => j <= i
                                               /\ o[k] = atoi(file[i].val)
  BY DEF DecidedBy
<1>2. \A i \in Indices(k) : i \in Nat
  BY FileFacts
<1>3. CASE n + 1 \in Indices(k)
  BY <1>2, <1>3
<1>4. CASE n + 1 \notin Indices(k)
  <2>1. \A i \in Indices(k) : (i <= n + 1 <=> i <= n) /\ (i > n => i > n + 1)
    BY <1>2, <1>4
  <2>2. o[k] = opts[k]
    BY <1>4
  <2> QED
    BY <2>1, <2>2 DEF DecidedBy
<1> QED
  BY <1>3, <1>4

\* The file and the command line do not change while the options are read.
LEMMA StartupKeeps ==
    ASSUME Startup
    PROVE  argv' = argv /\ file' = file
  BY DEF Startup, parse_argv, CheckConf, load_conf, conf_parse, LoadEntry, parse_source,
         LoadDone, Sources, Fatal

\* A step of the start-up reads the file line by line, and in order.
LEMMA StartupLoads ==
    ASSUME ConfInv, LoadInv, Startup, stage # "gone"
    PROVE  LoadInv'
<1>0. /\ file \in ConfFiles /\ Loading /\ OptsOK(opts) /\ argv' = argv /\ file' = file
      /\ argv \in CommandLines
  BY StartupKeeps DEF LoadInv, ConfInv, ConfChecked
<1>k. file' = file
  BY <1>0
<1>i. Len(file) \in Nat /\ (file = <<>> <=> Len(file) = 0)
      /\ \A k : Indices(k) \subseteq 1 .. Len(file)
  BY <1>0, FileFacts
<1>s. SUFFICES Loading'
  BY <1>0 DEF LoadInv
<1>d. ASSUME NEW n, DecidedBy(opts', n)
      PROVE  \A k \in Numbers :
                \/ (\A i \in Indices(k)' : i > n) /\ opts'[k] = Given(k)'
                \/ \E i \in Indices(k)' : /\ i <= n
                                         /\ \A j \in Indices(k)' : j <= n => j <= i
                                         /\ opts'[k] = atoi(file'[i].val)
  BY <1>0, <1>d DEF DecidedBy, Indices, Given
<1>e. ASSUME DecidedBy(opts', Len(file)), stage' \in {"recheck", "sources", "dispatch"}
      PROVE  Loading'
  <2>1. DecidedBy(opts, Len(file))'
    BY <1>0, <1>e DEF DecidedBy, Indices, Given
  <2> QED
    BY <1>e, <2>1 DEF Loading
<1>f. CASE Fatal
  BY <1>f DEF Fatal, Loading
<1>1. CASE parse_argv /\ ~Fatal
  <2>1. stage = "argv" /\ stage' = "check" /\ opts = set_conf_defaults
    BY <1>0, <1>1 DEF parse_argv, Loading
  <2>2. \A k \in Numbers : opts'[k] = Given(k)
    <3>1. argv.off \cap Numbers = {} /\ Numbers \subseteq DOMAIN opts
      BY <1>0, ConfigAssumption DEF Flags, Numbers, OptsOK, OptionNames
    <3> QED
      BY <1>1, <2>1, <3>1 DEF parse_argv, Given
  <2>3. DecidedBy(opts', 0)
    BY <1>i, <2>2 DEF DecidedBy
  <2> QED
    BY <1>d, <2>1, <2>3 DEF Loading, DecidedBy
<1>2. CASE CheckConf /\ ~Fatal
  <2>1. opts' = opts /\ (\/ stage = "check" /\ stage' = "load"
                         \/ stage = "recheck" /\ stage' = "sources")
    BY <1>2 DEF CheckConf
  <2>2. CASE stage = "check"
    <3>1. DecidedBy(opts', 0)
      BY <1>0, <2>1, <2>2 DEF Loading
    <3> QED
      BY <1>d, <2>1, <2>2, <3>1 DEF Loading, DecidedBy
  <2>3. CASE stage = "recheck"
    <3>1. DecidedBy(opts', Len(file))
      BY <1>0, <2>1, <2>3 DEF Loading
    <3> QED
      BY <1>e, <2>1, <2>3, <3>1
  <2> QED
    BY <2>1, <2>2, <2>3
<1>3. CASE load_conf /\ ~Fatal
  <2>1. stage = "load" /\ opts' = opts /\ DecidedBy(opts', 0)
    BY <1>0, <1>3 DEF load_conf, Loading
  <2>2. CASE stage' = "recheck"
    <3>1. Len(file) = 0
      BY <1>i, <1>3, <2>2 DEF load_conf
    <3>2. DecidedBy(opts', Len(file))
      BY <2>1, <3>1
    <3> QED
      BY <1>e, <2>2, <3>2
  <2>3. CASE stage' = "entries"
    <3>1. entries' = file
      BY <1>3, <2>3 DEF load_conf
    <3>2. /\ LinesRead' = 0
          /\ \E S : entries' \in Seq(S)
          /\ Len(entries') <= Len(file')
          /\ \A i \in 1 .. Len(entries') : entries'[i] = file'[0 + i]
      BY <1>0, <1>i, <3>1, FileFacts DEF LinesRead
    <3> QED
      BY <1>d, <2>1, <2>3, <3>2 DEF Loading, DecidedBy
  <2> QED
    BY <1>3, <2>2, <2>3 DEF load_conf
<1>4. ASSUME stage = "entries", stage' = "entries", entries # <<>>, entries' = Tail(entries),
             \A k \in Numbers : IF LinesRead + 1 \in Indices(k)
                                THEN opts'[k] = atoi(file[LinesRead + 1].val)
                                ELSE opts'[k] = opts[k]
      PROVE  Loading'
  <2>1. /\ LinesRead \in Nat /\ LinesRead' = LinesRead + 1
        /\ \E S : entries' \in Seq(S)
        /\ Len(entries') <= Len(file)
        /\ \A i \in 1 .. Len(entries') : entries'[i] = file[LinesRead + 1 + i]
    BY <1>0, <1>4, NextLine
  <2>2. DecidedBy(opts, LinesRead)
    BY <1>0, <1>4 DEF Loading
  <2> HIDE DEF LinesRead
  <2>3. DecidedBy(opts', LinesRead + 1)
    BY <1>0, <1>4, <2>1, <2>2, LineDecides
  <2> QED
    BY <1>k, <1>4, <1>d, <2>1, <2>3 DEF Loading, DecidedBy
<1>5. CASE conf_parse
  <2>1. /\ stage = "entries" /\ stage' = "entries" /\ entries # <<>>
        /\ entries' = Tail(entries) /\ opts' = opts /\ Head(entries).key = "#"
    BY <1>5 DEF conf_parse, Dropped
  <2>2. Head(entries) = file[LinesRead + 1]
    BY <1>0, <2>1, NextLine
  <2>3. \A k \in Numbers : LinesRead + 1 \notin Indices(k)
    BY <2>1, <2>2 DEF Indices, Numbers
  <2> QED
    BY <1>4, <2>1, <2>3
<1>6. CASE LoadEntry
  <2> DEFINE e == Head(entries)
             option == e.key \in Flags \ {"should_dbus"} \/ (e.key \in Numbers /\ e.val # NULL)
  <2>1. /\ stage = "entries" /\ stage' = "entries" /\ entries # <<>>
        /\ entries' = Tail(entries) /\ opts' = IF option THEN SetOption(e) ELSE opts
    BY <1>6 DEF LoadEntry
  <2>2. e = file[LinesRead + 1] /\ LinesRead + 1 \in 1 .. Len(file)
    BY <1>0, <1>i, <2>1, NextLine
  <2>3. \A k \in Numbers : LinesRead + 1 \in Indices(k) <=> e.key = k /\ e.val # NULL
    BY <2>2 DEF Indices, Numbers, Flags
  <2> HIDE DEF e
  <2>4. \A k \in Numbers : IF e.key = k /\ e.val # NULL THEN opts'[k] = atoi(e.val)
                                                        ELSE opts'[k] = opts[k]
    <3>1. CASE option
      <4>1. /\ DOMAIN opts = OptionNames /\ Numbers \cap Flags = {}
            /\ opts' = [opts EXCEPT ![e.key] = IF e.key \in Numbers THEN atoi(e.val)
                                               ELSE e.val \in {NULL, "yes"}]
        BY <1>0, <2>1, <3>1 DEF OptsOK, SetOption, Numbers, Flags
      <4> QED
        BY <3>1, <4>1 DEF OptionNames
    <3>2. CASE ~option
      BY <2>1, <3>2
    <3> QED
      BY <3>1, <3>2
  <2> QED
    BY <1>4, <2>1, <2>2, <2>3, <2>4
<1>7. CASE parse_source /\ ~Fatal
  <2>1. /\ stage = "entries" /\ stage' = "entries" /\ entries # <<>>
        /\ entries' = Tail(entries) /\ opts' = opts
        /\ Head(entries).key \in {"host", "port", "proxy", "end"}
    BY <1>7 DEF parse_source
  <2>2. Head(entries) = file[LinesRead + 1]
    BY <1>0, <2>1, NextLine
  <2>3. \A k \in Numbers : LinesRead + 1 \notin Indices(k)
    BY <2>1, <2>2 DEF Indices, Numbers
  <2> QED
    BY <1>4, <2>1, <2>3
<1>8. CASE LoadDone
  <2>1. stage = "entries" /\ stage' = "recheck" /\ opts' = opts /\ entries = <<>>
    BY <1>8 DEF LoadDone
  <2>2. LinesRead = Len(file)
    BY <1>i, <2>1, EmptySeq DEF LinesRead
  <2>3. DecidedBy(opts', Len(file))
    BY <1>0, <2>1, <2>2 DEF Loading
  <2> QED
    BY <1>e, <2>1, <2>3
<1>9. CASE Sources /\ ~Fatal
  <2>1. stage = "sources" /\ stage' = "dispatch" /\ DecidedBy(opts, Len(file))
    BY <1>0, <1>9 DEF Sources, Loading
  <2>2. PICK b : opts' = [opts EXCEPT !["should_sync_hwclock"] = b]
    BY <1>9 DEF Sources
  <2>3. \A k \in Numbers : opts'[k] = opts[k]
    BY <1>0, <2>2 DEF OptsOK, Numbers
  <2>4. DecidedBy(opts', Len(file))
    BY <2>1, <2>3 DEF DecidedBy
  <2> QED
    BY <1>e, <2>1, <2>4
<1> QED
  BY <1>f, <1>1, <1>2, <1>3, <1>5, <1>6, <1>7, <1>8, <1>9 DEF Startup

\* Every other step leaves the options alone or gives them up.
LEMMA LoadNext ==
    ASSUME ConfInv, LoadInv, [Next]_vars
    PROVE  LoadInv'
<1>1. CASE Startup
  <2>1. stage # "gone"
    BY <1>1 DEF Startup, parse_argv, CheckConf, load_conf, conf_parse, LoadEntry, parse_source,
                LoadDone, Sources
  <2> QED
    BY <1>1, <2>1, StartupLoads
<1>2. CASE Exec
  BY <1>2 DEF Exec, LoadInv
<1>3. CASE UNCHANGED confVars
  BY <1>3 DEF confVars, LoadInv, Loading, LinesRead, DecidedBy, Indices, Given
<1>4. ParentStep => UNCHANGED confVars
  BY DEF ParentStep, Main, Collect, SetClock
<1>5. ChildStep => UNCHANGED confVars
  BY DEF ChildStep, SetUp, DoConnect, ProxyHandshake, Send, ServerHello, Finished, Receive,
         Goto, read_http_date_from_bio, Inspect
<1>6. ServerAnswers \/ Network \/ Tick \/ Jump \/ Kill \/ UNCHANGED vars => UNCHANGED confVars
  BY DEF ServerAnswers, Network, Tick, Jump, Kill, vars
<1> QED
  BY <1>1, <1>2, <1>3, <1>4, <1>5, <1>6 DEF Next

\* The options that the daemon runs with are the ones of the last entry that
\* the file has for them (load_conf walks its list in the order of the file),
\* else of the command line, else the defaults.
THEOREM FileDecides == Spec => []LastEntryDecides
<1>1. Init => LoadInv
  BY DEF Init, ConfigInit, Gone, LoadInv, Loading
<1>2. ConfInv /\ LoadInv /\ [Next]_vars => LoadInv'
  BY LoadNext
<1>3. LoadInv => LastEntryDecides
  <2> SUFFICES ASSUME LoadInv, stage = "dispatch", NEW k \in Numbers
               PROVE  opts[k] = IF Indices(k) # {} THEN atoi(LastEntry(k).val)
                                ELSE IF k \in DOMAIN argv.set THEN argv.set[k]
                                ELSE set_conf_defaults[k]
    BY DEF LastEntryDecides
  <2>1. /\ file \in ConfFiles /\ DecidedBy(opts, Len(file))
    BY DEF LoadInv, Loading
  <2>2. Len(file) \in Nat /\ Indices(k) \subseteq 1 .. Len(file)
    BY <2>1, FileFacts
  <2>3. CASE Indices(k) = {}
    <3>1. opts[k] = Given(k)
      BY <2>1, <2>3 DEF DecidedBy
    <3> QED
      BY <2>3, <3>1 DEF Given
  <2>4. CASE Indices(k) # {}
    <3>1. \E i \in Indices(k) : /\ \A j \in Indices(k) : j <= i
                                /\ opts[k] = atoi(file[i].val)
      BY <2>1, <2>2, <2>4 DEF DecidedBy
    <3>2. PICK i \in Indices(k) : /\ \A j \in Indices(k) : j <= i
                                  /\ opts[k] = atoi(file[i].val)
      BY <3>1
    <3> DEFINE c == CHOOSE m \in Indices(k) : \A j \in Indices(k) : j <= m
    <3>3. c \in Indices(k) /\ \A j \in Indices(k) : j <= c
      BY <3>2
    <3> HIDE DEF c
    <3>4. c = i
      BY <2>2, <3>2, <3>3
    <3>5. LastEntry(k) = file[i]
      BY <3>4 DEF LastEntry, c
    <3> QED
      BY <2>4, <3>2, <3>5
  <2> QED
    BY <2>3, <2>4
<1> QED
  BY <1>1, <1>2, <1>3, ConfInvariance, PTL DEF Spec

-----------------------------------------------------------------------------
(* The answer.                                                             *)

\* Everything that is asked of a certificate has been.
Checked == (args.racket => inspect_key(cert)) /\ check_key_length(cert)

\* The shared word and the output are empty until a child has ended well, and
\* one that has did check its peer.
Verified ==
    /\ cert.bits \in Nat
    /\ parent \in {"tlsdated", "main"} => child = "none"
    /\ time_map # Zero \/ out # Zero => child = "exit0" /\ Checked

\* The tlsdate of the daemon does not set the clock, and has printed nothing
\* before it has only success left.
ForDaemon ==
    /\ parent \in ParentPC
    /\ origin = "tlsdated" /\ parent # "tlsdated" => ~args.setclock
    /\ origin = "tlsdated" /\ parent \in {"tlsdated", "main", "wait", "died"} => out = Zero

AnswerInv == Verified /\ ForDaemon

\* What a step of the child may change: it has not ended, the parent and its
\* output stay as they are, and the shared word is written by the last check.
LEMMA ChildEffect ==
    ASSUME ChildStep
    PROVE  /\ child \notin {"none", "exit0", "died"}
           /\ UNCHANGED parentVars \/ ProxyHandshake
           /\ UNCHANGED <<origin, args, parent, out>>
           /\ \/ Inspect
              \/ time_map' = time_map /\ (cert' = cert \/ cert' \in Certs)
<1> USE DEF parentVars
<1>1. CASE SetUp \/ DoConnect
  BY <1>1 DEF SetUp, DoConnect, Goto
<1>2. CASE ProxyHandshake
  BY <1>2 DEF ProxyHandshake, helperVars
<1>3. CASE child = "client_hello" /\ Send("ClientHello", "server_hello")
  BY <1>3 DEF Send, Goto
<1>4. CASE child = "server_hello" /\ ServerHello
  BY <1>4 DEF ServerHello, Receive, Goto
<1>5. CASE child = "finished" /\ Finished
  BY <1>5 DEF Finished, Receive, Goto
<1>6. CASE child = "request" /\ Send("request", "date")
  BY <1>6 DEF Send, Goto
<1>7. CASE child = "date" /\ read_http_date_from_bio
  BY <1>7 DEF read_http_date_from_bio
<1>8. CASE Inspect
  BY <1>8 DEF Inspect
<1> QED
  BY <1>1, <1>2, <1>3, <1>4, <1>5, <1>6, <1>7, <1>8 DEF ChildStep

\* What a step of neither the child nor the parent, nor the start of tlsdate,
\* leaves alone.
LEMMA OtherEffect ==
    ASSUME \/ Startup /\ UNCHANGED <<proxyVars, helperVars>>
           \/ ServerAnswers \/ Network \/ Tick \/ Jump \/ UNCHANGED vars
    PROVE  UNCHANGED <<origin, args, parent, child, cert, time_map, out>>
<1>1. CASE UNCHANGED helperVars
  BY <1>1 DEF helperVars
<1>2. CASE ServerAnswers
  BY <1>2 DEF ServerAnswers
<1>3. CASE Tick \/ Jump
  BY <1>3 DEF Tick, Jump
<1>4. Network \/ UNCHANGED vars => UNCHANGED helperVars
  BY DEF Network, vars
<1> QED
  BY <1>1, <1>2, <1>3, <1>4

\* The disjuncts of Next, in groups.
LEMMA NextCases ==
    ASSUME [Next]_vars
    PROVE  \/ Exec \/ Main \/ Collect \/ SetClock \/ ChildStep \/ Kill
           \/ UNCHANGED <<origin, args, parent, child, cert, time_map, out>>
  BY OtherEffect DEF Next, ParentStep

\* The tlsdate of the daemon is given -n.
LEMMA DaemonNeverSets == ~tlsdate_main(build_argv, build_proxy).setclock
  BY DEF tlsdate_main, build_argv

\* A step keeps Verified.
LEMMA VerifiedNext ==
    ASSUME Verified, [Next]_vars
    PROVE  Verified'
<1> USE DEF Verified
<1>1. CASE Exec
  BY <1>1 DEF Exec, Checked
<1>2. CASE Main
  <2>1. /\ time_map' = Zero /\ UNCHANGED <<out, cert>>
        /\ parent = "main" /\ parent' # "main" /\ parent' # "tlsdated"
    BY <1>2 DEF Main, Die
  <2>2. out = Zero
    BY <2>1
  <2> QED
    BY <2>1, <2>2
<1>3. CASE Collect
  <2>1. /\ UNCHANGED <<args, child, cert, time_map>>
        /\ parent' \in {"set", "died"}
        /\ out' \in {out, time_map}
    BY <1>3 DEF Collect, Die
  <2> QED
    BY <2>1 DEF Checked
<1>4. CASE SetClock \/ Kill
  <2>1. /\ UNCHANGED <<args, child, cert, time_map, out>>
        /\ parent' \notin {"tlsdated", "main"}
    BY <1>4 DEF SetClock, Kill, Die
  <2> QED
    BY <2>1 DEF Checked
<1>5. CASE ChildStep
  <2>1. time_map = Zero /\ out = Zero /\ parent \notin {"tlsdated", "main"}
    BY <1>5, ChildEffect
  <2>2. UNCHANGED <<args, parent, out>>
    BY <1>5, ChildEffect
  <2>3. CASE Inspect
    <3>1. UNCHANGED cert
      BY <2>3 DEF Inspect
    <3>2. time_map' # Zero => child' = "exit0" /\ Checked
      BY <2>1, <2>3 DEF Inspect, Checked
    <3> QED
      BY <2>1, <2>2, <3>1, <3>2 DEF Checked
  <2>4. CASE time_map' = time_map /\ (cert' = cert \/ cert' \in Certs)
    BY <2>1, <2>2, <2>4, HelperAssumption
  <2> QED
    BY <1>5, <2>3, <2>4, ChildEffect
<1>6. CASE UNCHANGED <<origin, args, parent, child, cert, time_map, out>>
  BY <1>6 DEF Checked
<1> QED
  BY <1>1, <1>2, <1>3, <1>4, <1>5, <1>6, NextCases

\* A step keeps ForDaemon.
LEMMA ForDaemonNext ==
    ASSUME ForDaemon, [Next]_vars
    PROVE  ForDaemon'
<1> USE DEF ForDaemon, ParentPC
<1>1. CASE Exec
  BY <1>1, DaemonNeverSets DEF Exec
<1>2. CASE Main
  <2>1. /\ UNCHANGED <<origin, args, out>>
        /\ parent = "main" /\ parent' \in {"wait", "died"}
    BY <1>2 DEF Main, Die
  <2> QED
    BY <2>1
<1>3. CASE Collect
  <2>1. /\ UNCHANGED <<origin, args>> /\ parent = "wait"
        /\ parent' = "set" \/ (parent' = "died" /\ out' = out)
    BY <1>3 DEF Collect, Die
  <2> QED
    BY <2>1
<1>4. CASE SetClock
  <2>1. /\ UNCHANGED <<origin, args, out>> /\ parent = "set"
        /\ parent' = "exit0" \/ (parent' = "died" /\ args.setclock)
    BY <1>4 DEF SetClock, Die
  <2> QED
    BY <2>1
<1>5. CASE Kill
  BY <1>5 DEF Kill
<1>6. CASE UNCHANGED <<origin, args, parent, out>>
  BY <1>6
<1> QED
  BY <1>1, <1>2, <1>3, <1>4, <1>5, <1>6, NextCases, ChildEffect

\* What the answer of tlsdate rests on, of every run.
THEOREM AnswerInvariance == Spec => []AnswerInv
<1>1. Init => AnswerInv
  <2> SUFFICES ASSUME Init
               PROVE  AnswerInv
    OBVIOUS
  <2>1. cert = NoCert /\ time_map = Zero /\ out = Zero
    BY DEF Init
  <2>2. /\ parent \in ParentPC /\ (parent \in {"tlsdated", "main"} => child = "none")
        /\ origin = "tlsdated" => parent = "tlsdated"
    BY DEF Init, ParentPC
  <2> QED
    BY <2>1, <2>2 DEF AnswerInv, Verified, ForDaemon, NoCert
<1>2. AnswerInv /\ [Next]_vars => AnswerInv'
  BY VerifiedNext, ForDaemonNext DEF AnswerInv
<1> QED
  BY <1>1, <1>2, PTL DEF Spec

\* No time leaves the child, or the parent, that was not checked as the command
\* line asks: with a signature and the host's name unless -s, and always with
\* a key that check_key_length accepts.
THEOREM AnswersAreVerified == Spec => []OnlyVerified
<1>1. AnswerInv => OnlyVerified
  <2> SUFFICES ASSUME AnswerInv, time_map # Zero \/ out # Zero
               PROVE  /\ args.racket => cert.signed /\ (cert.cn = "match" \/ cert.san)
                      /\ cert.bits > (IF cert.type = "EC" THEN 159 ELSE 1023)
    BY DEF OnlyVerified
  <2>1. Checked /\ cert.bits \in Nat
    BY DEF AnswerInv, Verified
  <2>2. args.racket => cert.signed /\ (cert.cn = "match" \/ cert.san)
    BY <2>1, Zenon DEF Checked, inspect_key, verify_signature, check_name, check_cn
  <2>3. cert.bits > (IF cert.type = "EC" THEN 159 ELSE 1023)
    BY <2>1 DEF Checked, check_key_length
  <2> QED
    BY <2>2, <2>3
<1> QED
  BY <1>1, AnswerInvariance, PTL

\* The tlsdate of the daemon, once it has printed its answer, ends well or is
\* killed: no check of the clock or of the time is left that could fail it.
THEOREM AnswerMeansSuccess == Spec => []AnswerThenSuccess
<1>1. AnswerInv => AnswerThenSuccess
  BY DEF AnswerInv, ForDaemon, ParentPC, AnswerThenSuccess
<1> QED
  BY <1>1, AnswerInvariance, PTL
=============================================================================
