------------------------------ MODULE MCHelper ------------------------------
(***************************************************************************)
(* TlsdateHelper for TLC.  Two ticks to the second; the true time starts   *)
(* at second 5, plausible times lie between 2 and 8.  A round trip of more *)
(* than 4 ticks is unreasonable.                                           *)
(***************************************************************************)
EXTENDS TlsdateHelper

Line(set, off, named, extra, bad) ==
    [set |-> set, off |-> off, file |-> named, extra |-> extra, bad |-> bad]
None == [k \in {} |-> 0]
Entry(k, v) == [key |-> k, val |-> v]

\* tlsdated with: nothing, a negative interval, jitters whose sums and whose
\* double are no ints, options for tlsdate, a proxy, a file that must exist, an
\* unknown option.
DaemonLines ==
    {Line(None, {}, FALSE, {}, FALSE),
     Line([steady_state_interval |-> -2, jitter |-> -3], {"should_dbus"}, FALSE, {}, FALSE),
     Line([jitter |-> -7], {}, FALSE, {}, FALSE),
     Line([jitter |-> -8], {}, FALSE, {}, FALSE),
     Line([max_tries |-> 0], {}, FALSE, {}, FALSE),
     Line([jitter |-> 1], {}, FALSE, {"-t", "-w", "--host", "--proxy"}, FALSE),
     Line([proxy |-> "socks5"], {"dry_run"}, TRUE, {"-s"}, FALSE),
     Line(None, {}, FALSE, {}, TRUE)}

Source1 == <<Entry("source", NULL), Entry("host", "a"), Entry("port", "p")>>
End == <<Entry("end", NULL)>>

\* No file, an empty one, options twice, a jitter too large, two sources, a
\* stanza without its end, one with a key that does not belong there.
Files ==
    {<<>>,
     <<Entry("#", NULL)>>,
     <<Entry("max_tries", "3"), Entry("jitter", "2"), Entry("#", NULL), Entry("max_tries", "1"),
       Entry("leap", NULL)>>,
     <<Entry("steady_state_interval", "2"), Entry("jitter", "3"), Entry("max_tries", NULL)>>,
     Source1 \o <<Entry("#", NULL), Entry("proxy", "http")>> \o End \o Source1 \o End
        \o <<Entry("unknown", "1"), Entry("dry_run", "no")>>,
     Source1,
     Source1 \o <<Entry("jitter", "1")>> \o End,
     <<Entry("source", NULL), Entry("host", "a")>> \o End}

Shell(flags, proxy) == [flags |-> flags, proxy |-> proxy]

\* By hand, directly: the clock is set unless -n.
Direct ==
    {Shell({}, NULL), Shell({"-t", "-l"}, NULL), Shell({"-s", "-w"}, NULL),
     Shell({"-P?"}, NULL), Shell({"-C?"}, NULL), Shell({"--host"}, NULL)}

\* Through a proxy.
Proxied ==
    {Shell({"-n", "-Vraw"}, "http"), Shell({"-s"}, "socks5"), Shell({}, "socks4"),
     Shell({"-l"}, "bad"), Shell({"-n", "--proxy"}, "http")}

NoLines == {}

NoFiles == {}
NoTypes == {}
BareBios == {"socks4a", "socks5", "http"}
DomainOnly == {"domain"}
NoFaults == {}
AllAddresses == {"domain", "ipv4", "ipv6"}
AllNetFaults == NetworkFaults
Clocks == {2, 9}
NoJumps == {}
BackAndForth == {-6, 3}
Liars == {0, 2, 8}
NoLiars == {}

Heads == {<<"hdr", "Date", "d", "ate", "\r\n">>,
          <<"hdr", "\r\n">>,
          <<"hdr", "hdr", "hdr", "Date", "d", "ate", "\r\n">>}

\* A good one, an unsigned one, one for another host, one for several hosts,
\* keys of the boundary lengths, an unknown kind of key.
Good == [signed |-> TRUE, cn |-> "match", san |-> FALSE, type |-> "RSA", bits |-> 1024]
GoodPeer == {Good}
Peers ==
    {Good,
     [Good EXCEPT !.signed = FALSE],
     [Good EXCEPT !.cn = "mismatch"],
     [Good EXCEPT !.cn = "mismatch", !.san = TRUE, !.type = "EC", !.bits = 160],
     [Good EXCEPT !.cn = "none", !.san = TRUE],
     [Good EXCEPT !.bits = 1023],
     [Good EXCEPT !.type = "EC", !.bits = 159],
     [Good EXCEPT !.type = "GOST"]}
=============================================================================
