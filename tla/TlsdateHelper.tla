---------------------------- MODULE TlsdateHelper ----------------------------
(***************************************************************************)
(* tlsdate and tlsdate-helper (tlsdate.c, tlsdate-helper.c with OpenSSL),  *)
(* started from a shell as root or by tlsdated as the unprivileged user:   *)
(* the options on their way through three programs, the parent that may    *)
(* set the clock, the child that talks to the network, and the shared word *)
(* between them.  Time runs in ticks, K of them to the second; it passes   *)
(* while the parent waits for the child.  A third way in is that of        *)
(* proxy-bio-unittest.c: the proxy BIO on an open connection, with any     *)
(* type set; the helper itself never sets "socks4a".                       *)
(***************************************************************************)
EXTENDS ProxyBio, Config

CONSTANTS
    ShellLines,            \* tlsdate command lines: records [flags, proxy]
    BareTypes,             \* types of a proxy BIO that is driven directly
    K,                     \* ticks to a second
    RECENT_COMPILE_DATE,   \* seconds
    MAX_REASONABLE_TIME,
    TLS_RTT_UNREASONABLE,  \* ticks
    Epoch,                 \* the true time at the start, in ticks
    MaxTicks,              \* bound: how long the exchange takes at most
    BootClocks,            \* what the local clock may show at the start
    ClockJumps,            \* by how much others may move it
    FalseTimes,            \* seconds a false ticker may claim
    CENTURY,               \* seconds between 1900 and 2000
    HttpHeads,             \* replies to the HTTP request: sequences of text
    MAX_HTTP_HEADERS_SIZE, \* pieces of text the buffer holds
    Certs                  \* certificates: records [signed, cn, san, type, bits]

ASSUME HelperAssumption ==
    /\ K \in Nat \ {0}
    /\ {RECENT_COMPILE_DATE, MAX_REASONABLE_TIME, TLS_RTT_UNREASONABLE, Epoch, MaxTicks} \subseteq Nat
    /\ MAX_HTTP_HEADERS_SIZE \in Nat \ {0}
    /\ CENTURY \in Nat /\ CENTURY > MAX_REASONABLE_TIME
    /\ BootClocks \subseteq Nat /\ ClockJumps \subseteq Int /\ FalseTimes \subseteq Int
    /\ BareTypes \subseteq {"NULL", "socks4a", "socks5", "http"}
    /\ HttpHeads \subseteq Seq(Text)
    /\ \A c \in Certs : c.bits \in Nat

\* A line with a date is ended after the whole of it.
ASSUME HeadsAssumption ==
    \A head \in HttpHeads : \A j \in 1 .. Len(head) :
        head[j] = "\r\n" /\ (\E i \in 1 .. j - 1 : head[i] = "Date") =>
            \E i \in 1 .. j - 1 : head[i] = "ate"

VARIABLES
    origin,    \* who started tlsdate
    args,      \* argv of tlsdate-helper
    parent,    \* the parent's program counter
    child,     \* the child's
    start,     \* start_time, in ticks
    now,       \* the true time
    clock,     \* the local clock
    jumped,    \* history: others have moved the clock meanwhile
    stamp,     \* the last time the server has sent
    result,    \* result_time in the child
    buf,       \* what read_http_date_from_bio has gathered
    cert,      \* the peer's certificate and what OpenSSL says about it
    time_map,  \* the shared word
    out,       \* what -V raw has printed
    setBy      \* history: the helper's last change of the clock

helperVars == <<origin, args, parent, child, start, now, clock, jumped, stamp,
                result, buf, cert, time_map, out, setBy>>
vars == <<proxyVars, confVars, helperVars>>

\* A time in seconds; honest: it is the server's true time.
Zero == [sec |-> 0, honest |-> FALSE, form |-> "good"]
NoCert == [signed |-> FALSE, cn |-> "none", san |-> FALSE, type |-> "none", bits |-> 0]
NoArgs == [n |-> 0]

ParentPC == {"tlsdated", "main", "wait", "set", "exit0", "died", "killed"}
ChildPC == {"none", "run_ssl", "connect", "client_hello", "server_hello", "finished",
            "request", "date", "inspect", "exit0", "died"}
Over(pc) == pc \in {"exit0", "died", "killed"}

-----------------------------------------------------------------------------
(* The command line of the helper.                                         *)

\* tlsdate: the last occurrence of an option decides, so that flags has only
\* what nothing after it overrides.  The long options are all declared without
\* an argument: --proxy and --host give a null pointer, that is no proxy, and
\* an argument vector that ends early.
tlsdate_main(flags, proxy) ==
    [n         |-> IF "--host" \in flags THEN 1 ELSE 13,
     racket    |-> "-s" \notin flags,
     container |-> IF "-C?" \in flags THEN "missing" ELSE "good",
     protocol  |-> "-P?" \notin flags,
     setclock  |-> "-n" \notin flags,
     raw       |-> "-Vraw" \in flags,
     timewarp  |-> "-t" \in flags,
     leap      |-> "-l" \in flags,
     http      |-> "-w" \in flags,
     proxy     |-> IF "--proxy" \in flags \/ proxy \in {NULL, ""} THEN "none" ELSE proxy]

\* The daemon's child runs tlsdate; the daemon's own state is of no use to it.
Exec ==
    /\ parent = "tlsdated" /\ stage = "dispatch"
    /\ args' = tlsdate_main(build_argv, build_proxy)
    /\ parent' = "main"
    /\ stage' = "gone" /\ argv' = [set |-> <<>>] /\ file' = <<>> /\ opts' = <<>>
    /\ sources' = <<>>
    /\ UNCHANGED <<entries, stanza, proxyVars, origin, child, start, now, clock,
                   jumped, stamp, result, buf, cert, time_map, out, setBy>>

-----------------------------------------------------------------------------
(* The parent.                                                             *)

Die(pc) == pc' = "died"
Sec(ticks) == ticks \div K

\* clock_set_real_time needs root, which a daemon's child is not, and may fail
\* for root too.
Root == origin = "shell"

\* main() up to the wait: arguments, time warp, shared word, fork.
Main ==
    /\ parent = "main"
    /\ LET early == Sec(clock) < RECENT_COMPILE_DATE
           warp == early /\ args.timewarp
       IN  \/ (args.n # 13 \/ warp) /\ Die(parent) /\ UNCHANGED <<child, start, clock, setBy>>
           \/ /\ args.n = 13 /\ (warp => Root)
              /\ clock' = IF warp THEN RECENT_COMPILE_DATE * K ELSE clock
              /\ setBy' = IF warp THEN "warp" ELSE setBy
              /\ start' = clock'
              /\ \/ parent' = "wait" /\ child' = "run_ssl"
                 \/ Die(parent) /\ UNCHANGED child       \* mmap or fork fails
    /\ time_map' = Zero
    /\ UNCHANGED <<proxyVars, confVars, origin, args, now, jumped, stamp, result, buf, cert, out>>

\* The round trip by the local clock; "non-linear time" counts as none.
rt_time == IF clock < start THEN 0 ELSE clock - start

\* After the wait: the child's status, the shared word, the round trip, and
\* only then the answer.
Collect ==
    /\ parent = "wait" /\ Over(child)
    /\ \/ /\ \/ child # "exit0"
             \/ time_map.sec = 0
             \/ rt_time > TLS_RTT_UNREASONABLE
          /\ Die(parent)
          /\ UNCHANGED out
       \/ /\ child = "exit0" /\ time_map.sec # 0 /\ rt_time <= TLS_RTT_UNREASONABLE
          /\ out' = IF args.raw THEN time_map ELSE out
          /\ parent' = "set"
    /\ UNCHANGED <<proxyVars, confVars, origin, args, child, start, now, clock, jumped,
                   stamp, result, buf, cert, time_map, setBy>>

\* Mutant: the answer is taken to be a whole round trip old.
ServerTime_WholeTrip == time_map.sec + (rt_time \div K)

\* Half the round trip later than the server said.  The remainder goes into
\* the nanoseconds as milliseconds and is lost.
ServerTime == time_map.sec + (rt_time \div (2 * K))

SetClock ==
    /\ parent = "set"
    /\ \/ ~args.setclock /\ parent' = "exit0" /\ UNCHANGED <<clock, setBy>>
       \/ args.setclock /\ Die(parent) /\ UNCHANGED <<clock, setBy>>   \* implausible, or not set
       \/ /\ args.setclock /\ Root
          /\ RECENT_COMPILE_DATE < ServerTime /\ ServerTime < MAX_REASONABLE_TIME
          /\ clock' = ServerTime * K
          /\ setBy' = "server"
          /\ parent' = "exit0"
    /\ UNCHANGED <<proxyVars, confVars, origin, args, child, start, now, jumped, stamp,
                   result, buf, cert, time_map, out>>

ParentStep == Main \/ Collect \/ SetClock

-----------------------------------------------------------------------------
(* The child: run_ssl.                                                     *)

parentVars == <<origin, args, parent, start, now, clock, jumped, stamp, out, setBy>>

\* A step of the child alone.
Goto(pc) ==
    /\ child' = pc
    /\ UNCHANGED <<proxyVars, confVars, parentVars, result, buf, cert, time_map>>

\* validate_proxy_scheme, and the host and port of the URI.
parse_proxy_uri(proxy) == proxy \in {"http", "socks4", "socks5"}

\* BIO_proxy_set_type leaves a scheme it does not know without a callback.
BIO_proxy_set_type(scheme) == IF scheme \in {"socks5", "socks4a", "http"} THEN scheme ELSE "NULL"

\* A proxy BIO is pushed on the chain if there is a proxy.
setup_proxy == IF args.proxy = "none" THEN "none" ELSE BIO_proxy_set_type(args.proxy)

\* Everything run_ssl may refuse before there is a connection.
SetupOK ==
    /\ args.protocol
    /\ args.racket => args.container # "missing"
    /\ args.proxy # "none" => parse_proxy_uri(args.proxy)

SetUp ==
    /\ child = "run_ssl"
    /\ \/ ~SetupOK /\ Goto("died")
       \/ /\ SetupOK
          /\ connect' = setup_proxy
          /\ child' = "connect"
          /\ UNCHANGED <<bio, line, left, sent, wire, arrived, link, tunnel, confVars,
                         parentVars, result, buf, cert, time_map>>

\* BIO_do_connect runs the handshake, whose first write makes the connection to
\* the proxy or to the server; a write to one that cannot be made fails.
DoConnect ==
    /\ child = "connect"
    /\ link' \in {"open", "reset"} /\ child' = "client_hello"
    /\ UNCHANGED <<connect, bio, line, left, sent, wire, arrived, tunnel, confVars,
                   parentVars, result, buf, cert, time_map>>

\* The proxy's callback runs within the first write of the handshake.
ProxyHandshake ==
    /\ child = "client_hello"
    /\ ConnectStep
    /\ UNCHANGED <<confVars, helperVars>>

\* A write of the TLS layer, through proxy_write if there is one.
Send(u, next) ==
    /\ MayPass \/ Refused
    /\ \/ Refused /\ ~MayPass /\ Goto("died")
       \/ /\ MayPass /\ link \in {"open", "eof"}
          /\ sent' = Append(sent, u) /\ child' = next
          /\ UNCHANGED <<connect, bio, line, left, wire, arrived, link, tunnel, confVars,
                         parentVars, result, buf, cert, time_map>>
       \/ MayPass /\ link = "reset" /\ Goto("died")

\* A read of the TLS layer: the next message, if it is the one expected.
Receive(m, effect) ==
    /\ Readable
    /\ \/ (arrived > 0 => wire[1] # m) /\ Goto("died")
       \/ /\ arrived > 0 /\ wire[1] = m
          /\ Consume(1)
          /\ effect
          /\ UNCHANGED <<connect, bio, line, left, sent, link, tunnel, confVars, parentVars,
                         buf, time_map>>

\* With -l the server's time must be plausible before its certificate is
\* checked against it; a false ticker ends the child.
openssl_time_callback ==
    args.leap => RECENT_COMPILE_DATE < stamp.sec /\ stamp.sec < MAX_REASONABLE_TIME

ServerHello ==
    Receive("hello", /\ child' = IF openssl_time_callback THEN "finished" ELSE "died"
                     /\ result' = stamp
                     /\ UNCHANGED cert)

Finished ==
    Receive("fin", /\ child' = IF args.http THEN "request" ELSE "inspect"
                   /\ cert' \in Certs
                   /\ UNCHANGED result)

\* handle_date_line: years of two digits are relative to 1900, and a date
\* before 1970 is no date.  Text that stops in the seconds is still a date.
handle_date_line(d, whole) ==
    IF d.form = "junk" THEN -1
    ELSE (IF d.form = "rfc850" THEN d.sec - CENTURY ELSE d.sec) - (IF whole THEN 0 ELSE 1)

\* Mutant: the date is parsed as soon as it begins.
DateComplete_Begun(t) == \E i \in 1 .. Len(t) - 1 : t[i] = "Date" /\ t[i + 1] = "d"

\* The buffer holds "\r\nDate: " and the end of that line.
DateComplete(t) == \E i, j \in 1 .. Len(t) : i < j /\ t[i] = "Date" /\ t[j] = "\r\n"

\* Mutant: a read may fill the whole buffer again.
Room_Whole == MAX_HTTP_HEADERS_SIZE

\* What the buffer still has room for.
Room == MAX_HTTP_HEADERS_SIZE - Len(buf)

\* One turn of the loop of read_http_date_from_bio.
read_http_date_from_bio ==
    /\ Readable
    /\ LET n == Got(Room)
           text == buf \o SubSeq(wire, 1, n)
           whole == \E i \in 1 .. Len(text) : text[i] = "ate"
           t == handle_date_line(stamp, whole)
       IN  /\ Consume(n)
           /\ \/ n = 0 /\ child' = "died" /\ UNCHANGED <<buf, result>>
              \/ /\ n > 0 /\ DateComplete(text)
                 /\ child' = IF t < 0 THEN "died" ELSE "inspect"
                 /\ result' = IF t < 0 THEN result ELSE [stamp EXCEPT !.sec = t, !.form = "good"]
                 /\ buf' = <<>>
              \/ /\ n > 0 /\ ~DateComplete(text)
                 /\ child' = IF Len(text) = MAX_HTTP_HEADERS_SIZE THEN "died" ELSE child
                 /\ buf' = text
                 /\ UNCHANGED result
    /\ UNCHANGED <<linkVars, bio, line, left, confVars, parentVars, cert, time_map>>

\* The verdict of OpenSSL on the chain.
verify_signature(c) == c.signed

\* The common name is the host's; check_name does not survive its absence.
check_cn(c) == c.cn = "match"

\* check_san is asked in any case; what it says is part of the certificate.
check_name(c) == c.cn # "none" /\ (check_cn(c) \/ c.san)

\* Mutant: a certificate with the right name need not be signed.
inspect_key_NameOnly(c) == check_name(c)

inspect_key(c) == verify_signature(c) /\ check_name(c)

\* Keys whose bits can be counted; any other type ends the child.
KeyTypes == {"RSA", "DSA", "DH", "EC"}

check_key_length(c) ==
    /\ c.type \in KeyTypes
    /\ IF c.type = "EC" THEN 160 <= c.bits /\ c.bits <= 521 ELSE 1023 < c.bits

\* The rest of run_ssl: the time is stored last.
Inspect ==
    /\ child = "inspect"
    /\ LET ok == (args.racket => inspect_key(cert)) /\ check_key_length(cert)
       IN  /\ child' = IF ok THEN "exit0" ELSE "died"
           /\ time_map' = IF ok THEN result ELSE time_map
    /\ UNCHANGED <<proxyVars, confVars, parentVars, result, buf, cert>>

ChildStep ==
    \/ SetUp \/ DoConnect \/ ProxyHandshake
    \/ child = "client_hello" /\ Send("ClientHello", "server_hello")
    \/ child = "server_hello" /\ ServerHello
    \/ child = "finished" /\ Finished
    \/ child = "request" /\ Send("request", "date")
    \/ child = "date" /\ read_http_date_from_bio
    \/ Inspect

-----------------------------------------------------------------------------
(* The server, the network, the clock, and the daemon.                     *)

\* The server's own time, or a false ticker's.
Stamps(forms) == [sec : {Sec(now)}, honest : {TRUE}, form : forms]
                    \cup [sec : FalseTimes, honest : {FALSE}, form : forms]

ServerAnswers ==
    /\ link = "open" /\ sent # <<>>
    /\ connect = "none" \/ tunnel \in {"granted", "granted6"}
    /\ sent' = Tail(sent)
    /\ \/ /\ Head(sent) = "ClientHello"
          /\ stamp' \in Stamps({"good"})
          /\ wire' = wire \o <<"hello", "fin">>
       \/ /\ Head(sent) = "ClientHello"
          /\ wire' = wire \o <<"alert">>
          /\ UNCHANGED stamp
       \/ /\ Head(sent) = "request"
          /\ stamp' \in Stamps({"good", "rfc850", "junk"})
          /\ \E head \in HttpHeads : wire' = wire \o head
    /\ UNCHANGED <<connect, bio, line, left, arrived, link, tunnel, confVars, origin, args, parent,
                   child, start, now, clock, jumped, result, buf, cert, time_map, out, setBy>>

Running == child \notin {"none"} /\ ~Over(child)

Network == Running /\ (ProxyAnswers \/ Arrive \/ Close) /\ UNCHANGED <<confVars, helperVars>>

Tick ==
    /\ parent = "wait" /\ Running
    /\ now < Epoch + MaxTicks
    /\ now' = now + 1 /\ clock' = clock + 1
    /\ UNCHANGED <<proxyVars, confVars, origin, args, parent, child, start, jumped, stamp,
                   result, buf, cert, time_map, out, setBy>>

\* Someone else sets the clock.
Jump ==
    /\ parent = "wait" /\ Running /\ ~jumped
    /\ \E d \in ClockJumps : clock + d >= 0 /\ clock' = clock + d
    /\ jumped' = TRUE
    /\ UNCHANGED <<proxyVars, confVars, origin, args, parent, child, start, now, stamp,
                   result, buf, cert, time_map, out, setBy>>

\* The daemon's timeout kills the process it knows: the child goes on alone.
Kill ==
    /\ origin = "tlsdated" /\ parent \in {"wait", "set"}
    /\ parent' = "killed"
    /\ UNCHANGED <<proxyVars, confVars, origin, args, child, start, now, clock, jumped, stamp,
                   result, buf, cert, time_map, out, setBy>>

Gone == stage = "gone" /\ argv = [set |-> <<>>] /\ file = <<>> /\ opts = <<>>
            /\ entries = <<>> /\ stanza = Closed /\ sources = <<>>

Init ==
    /\ \/ /\ origin = "tlsdated" /\ parent = "tlsdated" /\ child = "none"
          /\ args = NoArgs
          /\ ConfigInit
          /\ connect = "none" /\ link = "none"
       \/ /\ origin = "shell" /\ parent = "main" /\ child = "none"
          /\ \E l \in ShellLines : args = tlsdate_main(l.flags, l.proxy)
          /\ Gone
          /\ connect = "none" /\ link = "none"
       \/ /\ origin = "unittest" /\ parent = "exit0" /\ child = "client_hello"
          /\ args = tlsdate_main({"-n"}, NULL)
          /\ Gone
          /\ connect \in BareTypes /\ link = "open"
    /\ bio = "idle" /\ line = "empty" /\ left = 0
    /\ sent = <<>> /\ wire = <<>> /\ arrived = 0 /\ tunnel = "wait"
    /\ start = 0 /\ now = Epoch /\ clock \in BootClocks /\ jumped = FALSE
    /\ stamp = Zero /\ result = Zero /\ buf = <<>> /\ cert = NoCert
    /\ time_map = Zero /\ out = Zero /\ setBy = "none"

Next ==
    \/ parent = "tlsdated" /\ Startup /\ UNCHANGED <<proxyVars, helperVars>>
    \/ Exec \/ ParentStep \/ ChildStep
    \/ ServerAnswers \/ Network \/ Tick \/ Jump \/ Kill

Spec == Init /\ [][Next]_vars

\* Each process runs, and bytes that have been sent arrive.  Nothing makes a
\* proxy or a server answer, or close the connection.
FairSpec ==
    /\ Spec
    /\ WF_vars(ParentStep) /\ WF_vars(ChildStep)
    /\ WF_vars(Running /\ Arrive /\ UNCHANGED <<confVars, helperVars>>)

-----------------------------------------------------------------------------
Stamp == [sec : Int, honest : BOOLEAN, form : {"good", "rfc850", "junk"}]

TypeOK ==
    /\ ProxyTypeOK
    /\ stage \in Stages
    /\ parent \in ParentPC /\ child \in ChildPC
    /\ {start, now, clock} \subseteq Nat
    /\ {stamp, result, time_map, out} \subseteq Stamp
    /\ Len(buf) <= MAX_HTTP_HEADERS_SIZE

\* A time gets into the shared word, and out of the parent, only when every
\* check that was asked for has passed: the signature and the name unless -s,
\* a key that is long enough always.
OnlyVerified ==
    time_map # Zero \/ out # Zero =>
        /\ args.racket => cert.signed /\ (cert.cn = "match" \/ cert.san)
        /\ cert.bits > (IF cert.type = "EC" THEN 159 ELSE 1023)

\* An answer that reaches the daemon's pipe is never followed by a failure of
\* the process that wrote it: the daemon would throw the answer away.
AnswerThenSuccess ==
    origin = "tlsdated" /\ out # Zero => parent \in {"set", "exit0", "killed"}

\* After an exchange with an honest server, -s or not, -w or not, the clock is
\* never ahead of the true time by more than half of the longest round trip,
\* and, unless others have moved it, never behind by more than that and what
\* two divisions lose.
ClockClose ==
    parent = "exit0" /\ setBy = "server" /\ time_map.honest =>
        /\ clock - now <= TLS_RTT_UNREASONABLE \div 2
        /\ ~jumped => now - clock <= TLS_RTT_UNREASONABLE \div 2 + 2 * K

\* However the reply is cut into pieces, the date that is used is the one the
\* server sent, to the last digit.
HttpDateWhole ==
    args # NoArgs /\ args.n = 13 /\ args.http /\ child = "inspect" /\ stamp.form = "good" =>
        result = stamp

\* Once the connection is closed or broken, both processes come to an end: no
\* loop waits for bytes that cannot come.
CloseEnds == link \in {"eof", "reset"} ~> Over(child) /\ Over(parent)
=============================================================================
