---------------------------- MODULE CrosResolver ----------------------------
(***************************************************************************)
(* The Chromium OS platform of tlsdated (platform-cros.c): before every    *)
(* run of tlsdate the browser is asked over D-Bus which proxy to use; a    *)
(* method return says that it will look, a signal brings the answer, and   *)
(* tlsdate runs without an answer after RESOLVER_TIMEOUT.  Of the daemon   *)
(* there is what takes part in that: whether it needs the time, its tries, *)
(* its child, and the events E_RESOLVER and E_TLSDATE.  cur_source changes *)
(* in the forked child only, so the source is always the first.            *)
(***************************************************************************)
EXTENDS Naturals, Sequences

CONSTANTS
    max_tries,
    Pacs,         \* what the browser may answer: records [type, valid]
    CrosFaults,   \* subset of {"send", "noreply", "mismatch", "disconnect"}
    MaxPending,   \* bound: resolutions the browser works on
    BusRoom       \* bound: signals under way to the daemon

ASSUME CrosAssumption ==
    /\ max_tries \in Nat /\ MaxPending \in Nat /\ BusRoom \in Nat
    /\ CrosFaults \subseteq {"send", "noreply", "mismatch", "disconnect"}

VARIABLES
    daemon,          \* "up", or "dead"
    resolve_msg,     \* there is a message for the source: its proxy is "dynamic"
    last_sync_type,  \* "NET", or "RTC" for every type that needs the network
    tries,
    running,         \* a tlsdate child is running
    resolving,
    serial,          \* resolve_network_proxy_serial is not 0
    dynamic_proxy,
    E_RESOLVER,      \* armed
    E_TLSDATE,       \* "off", "soon": in a second, or "after": armed together
                     \* with E_RESOLVER, RESOLVER_TIMEOUT later
    call,            \* method calls that nobody has taken yet
    bus,             \* messages on their way to the daemon, in order
    browser,         \* the name org.chromium.LibCrosService has an owner
    pending,         \* resolutions the browser is working on
    fresh,           \* history: dynamic_proxy is newer than the last launch
    late,            \* history: E_TLSDATE has come while a call was still open
    failed           \* history: a call has ended in an error nobody handles

daemonVars == <<last_sync_type, tries, running, E_RESOLVER, E_TLSDATE>>
resolverVars == <<resolving, serial, dynamic_proxy, fresh>>
busVars == <<call, bus, browser, pending>>
vars == <<daemon, resolve_msg, daemonVars, resolverVars, busVars, late, failed>>

Replies == {"return", "ServiceUnknown", "error"}
Urls == {"", "http", "socks4", "socks5", "https"}

-----------------------------------------------------------------------------
(* The daemon's handlers.                                                  *)

\* Mutant: no run of tlsdate is waiting in the wings.
ArmBoth_ResolverOnly == E_RESOLVER' = TRUE /\ UNCHANGED E_TLSDATE

\* tlsdate runs even if the resolver does not come back.
ArmBoth == E_RESOLVER' = TRUE /\ E_TLSDATE' = "after"

\* action_kickoff_time_sync once the time is known to be needed.
Kickoff ==
    /\ last_sync_type' = "RTC"
    /\ \/ tries > 0 /\ tries' = tries - 1 /\ UNCHANGED <<E_RESOLVER, E_TLSDATE>>
       \/ tries = 0 /\ E_TLSDATE # "off" /\ UNCHANGED <<tries, E_RESOLVER, E_TLSDATE>>
       \/ tries = 0 /\ E_TLSDATE = "off" /\ ArmBoth /\ UNCHANGED tries
    /\ UNCHANGED <<daemon, resolve_msg, running, resolverVars, busVars, late, failed>>

\* A change of a service, of the default service or of the browser's name, a
\* resume, a route, or the timer that checks the clock's continuity.  If the
\* time is not needed it changes nothing, unless the clock is out of step.
Wake == daemon = "up" /\ Kickoff

\* The steady-state timer.
action_invalidate_time ==
    /\ daemon = "up"
    /\ ~(last_sync_type = "RTC" /\ E_TLSDATE # "off")
    /\ Kickoff

\* Mutant: only an answer that is awaited keeps a request back.
Busy_Resolving == resolving

\* A request has not been answered, or its method call has not returned.
Busy == resolving \/ serial

\* Mutant: the proxy of the last run stays.
Forgotten_Not == dynamic_proxy

\* What a new resolution leaves of the proxy.
Forgotten == ""

action_resolve_proxy ==
    /\ daemon = "up" /\ E_RESOLVER
    /\ E_RESOLVER' = FALSE
    /\ \/ /\ Busy
          /\ UNCHANGED <<resolverVars, E_TLSDATE, call>>
       \/ /\ ~Busy /\ ~resolve_msg
          /\ dynamic_proxy' = Forgotten
          /\ E_TLSDATE' = "soon"
          /\ UNCHANGED <<resolving, serial, fresh, call>>
       \/ /\ ~Busy /\ resolve_msg
          /\ dynamic_proxy' = Forgotten
          /\ resolving' = TRUE
          /\ \/ serial' = TRUE /\ call' = call + 1
             \/ "send" \in CrosFaults /\ UNCHANGED <<serial, call>>
          /\ UNCHANGED <<fresh, E_TLSDATE>>
    /\ UNCHANGED <<daemon, resolve_msg, last_sync_type, tries, running, bus, browser, pending, late, failed>>

\* PAC text to the URL of a proxy; more than one proxy, or a host and port
\* that are not valid, is no proxy.
canonicalize_pac(p) ==
    IF ~p.valid THEN ""
    ELSE CASE p.type = "PROXY" -> "http" [] p.type = "SOCKS" -> "socks4"
           [] p.type = "SOCKS5" -> "socks5" [] p.type = "HTTPS" -> "https" [] OTHER -> ""

\* The answer to an earlier request counts as long as one is awaited.
handle_proxy_change(m) ==
    /\ IF resolving /\ ~m.mismatch
       THEN /\ resolving' = FALSE
            /\ dynamic_proxy' = canonicalize_pac(m.pac)
            /\ fresh' = TRUE
            /\ E_TLSDATE' = "soon"
       ELSE UNCHANGED <<resolving, dynamic_proxy, fresh, E_TLSDATE>>
    /\ UNCHANGED serial

\* Mutant: the error leaves the method call open.
service_unknown_Pending ==
    /\ resolving' = FALSE /\ E_TLSDATE' = "soon"
    /\ UNCHANGED <<serial, dynamic_proxy, fresh>>

\* The browser is not there: run without a proxy.
service_unknown ==
    /\ serial' = FALSE /\ resolving' = FALSE /\ E_TLSDATE' = "soon"
    /\ UNCHANGED <<dynamic_proxy, fresh>>

\* Every other error is a message nobody knows.
dbus_filter ==
    /\ daemon = "up" /\ bus # <<>>
    /\ bus' = Tail(bus)
    /\ failed' = (failed \/ Head(bus).kind = "error")
    /\ LET m == Head(bus)
       IN  \/ m.kind = "ProxyChange" /\ handle_proxy_change(m)
           \/ m.kind = "ServiceUnknown" /\ service_unknown
           \/ m.kind = "return" /\ serial' = FALSE /\ UNCHANGED <<resolving, dynamic_proxy, fresh, E_TLSDATE>>
           \/ m.kind = "error" /\ UNCHANGED <<resolverVars, E_TLSDATE>>
    /\ UNCHANGED <<daemon, resolve_msg, last_sync_type, tries, running, E_RESOLVER, call, browser, pending, late>>

\* The bus goes away: the "graceful" SIGINT has no handler.
Disconnected ==
    /\ daemon = "up" /\ "disconnect" \in CrosFaults
    /\ daemon' = "dead"
    /\ UNCHANGED <<resolve_msg, daemonVars, resolverVars, busVars, late, failed>>

\* Mutant: one attempt more than max_tries.
TriesLeft_OneMore == tries <= max_tries

TriesLeft == tries < max_tries

\* E_TLSDATE "after" cannot come before the E_RESOLVER it was armed with.
action_run_tlsdate ==
    /\ daemon = "up"
    /\ E_TLSDATE = "soon" \/ (E_TLSDATE = "after" /\ ~E_RESOLVER)
    /\ E_TLSDATE' = "off" /\ late' = (late \/ serial)
    /\ \/ /\ last_sync_type = "NET"
          /\ UNCHANGED <<tries, running, resolving, fresh>>
       \/ /\ last_sync_type # "NET" /\ running
          /\ resolving' = FALSE
          /\ tries' = IF tries > 0 THEN tries - 1 ELSE 0
          /\ UNCHANGED <<running, fresh>>
       \/ /\ last_sync_type # "NET" /\ ~running /\ ~TriesLeft
          /\ resolving' = FALSE /\ tries' = 0
          /\ UNCHANGED <<running, fresh>>
       \/ /\ last_sync_type # "NET" /\ ~running /\ TriesLeft
          /\ resolving' = FALSE
          /\ \/ tries' = tries + 1 /\ running' = TRUE /\ fresh' = FALSE
             \/ tries' = 0 /\ UNCHANGED <<running, fresh>>          \* no fork
    /\ UNCHANGED <<daemon, resolve_msg, last_sync_type, E_RESOLVER, serial, dynamic_proxy, busVars, failed>>

\* action_tlsdate_status: the child's answer, sane or not.
action_tlsdate_status ==
    /\ daemon = "up" /\ running
    /\ last_sync_type' \in {"NET", last_sync_type}
    /\ tries' = 0
    /\ UNCHANGED <<daemon, resolve_msg, running, E_RESOLVER, E_TLSDATE, resolverVars, busVars, late, failed>>

\* The child has ended; a failure is retried through the resolver.
handle_child_death ==
    /\ daemon = "up" /\ running
    /\ running' = FALSE
    /\ \/ ArmBoth
       \/ UNCHANGED <<E_RESOLVER, E_TLSDATE>>
    /\ UNCHANGED <<daemon, resolve_msg, last_sync_type, tries, resolverVars, busVars, late, failed>>

-----------------------------------------------------------------------------
(* The message bus and the browser.                                        *)

Message(k) == [kind |-> k]
Put(m) == bus' = Append(bus, m)

\* The call reaches the browser, which returns at once and may never answer;
\* nobody owns the name; or the browser goes away before it returns.
Deliver ==
    /\ daemon = "up" /\ call > 0 /\ call' = call - 1
    /\ \/ /\ browser
          /\ Put(Message("return"))
          /\ pending' \in {pending, pending + 1} \cap 0 .. MaxPending
          /\ UNCHANGED browser
       \/ ~browser /\ Put(Message("ServiceUnknown")) /\ UNCHANGED <<browser, pending>>
       \/ /\ browser /\ "noreply" \in CrosFaults
          /\ Put(Message("error"))
          /\ browser' = FALSE /\ pending' = 0
    /\ UNCHANGED <<daemon, resolve_msg, daemonVars, resolverVars, late, failed>>

Signals == Len(SelectSeq(bus, LAMBDA m : m.kind = "ProxyChange"))

Resolved ==
    /\ daemon = "up" /\ browser /\ pending > 0 /\ pending' = pending - 1
    /\ Signals < BusRoom
    /\ \E p \in Pacs, other \in {FALSE} \cup {f = "mismatch" : f \in CrosFaults} :
            Put([kind |-> "ProxyChange", pac |-> p, mismatch |-> other])
    /\ UNCHANGED <<daemon, resolve_msg, daemonVars, resolverVars, call, browser, late, failed>>

\* The browser leaves, with what it was working on, or comes back.
NameOwnerChanged ==
    /\ daemon = "up"
    /\ browser' = ~browser
    /\ pending' = 0
    /\ UNCHANGED <<daemon, resolve_msg, daemonVars, resolverVars, call, bus, late, failed>>

\* platform_init_cros: the filter is installed, nothing has been asked.
Init ==
    /\ daemon = "up" /\ resolve_msg \in BOOLEAN
    /\ last_sync_type = "RTC" /\ tries = 0 /\ running = FALSE
    /\ resolving = FALSE /\ serial = FALSE /\ dynamic_proxy = "" /\ fresh = FALSE
    /\ E_RESOLVER = TRUE /\ E_TLSDATE = "after"
    /\ call = 0 /\ bus = <<>> /\ browser \in BOOLEAN /\ pending = 0
    /\ late = FALSE /\ failed = FALSE

Next ==
    \/ Wake \/ action_invalidate_time \/ action_resolve_proxy \/ dbus_filter
    \/ Disconnected \/ action_run_tlsdate \/ action_tlsdate_status \/ handle_child_death
    \/ Deliver \/ Resolved \/ NameOwnerChanged

Spec == Init /\ [][Next]_vars

\* libevent serves every event, the continuity timer included, the message
\* bus delivers or refuses every call, and a child ends or is killed.
FairSpec ==
    /\ Spec
    /\ WF_vars(action_resolve_proxy) /\ WF_vars(action_run_tlsdate)
    /\ WF_vars(dbus_filter) /\ WF_vars(Deliver) /\ WF_vars(last_sync_type # "NET" /\ Wake)
    /\ WF_vars(handle_child_death)

-----------------------------------------------------------------------------
Messages == [kind : Replies] \cup [kind : {"ProxyChange"}, pac : Pacs, mismatch : BOOLEAN]

TypeOK ==
    /\ daemon \in {"up", "dead"} /\ resolve_msg \in BOOLEAN
    /\ last_sync_type \in {"RTC", "NET"} /\ tries \in 0 .. max_tries
    /\ running \in BOOLEAN /\ resolving \in BOOLEAN /\ serial \in BOOLEAN
    /\ dynamic_proxy \in Urls /\ fresh \in BOOLEAN
    /\ E_RESOLVER \in BOOLEAN /\ E_TLSDATE \in {"off", "soon", "after"}
    /\ call \in Nat /\ bus \in Seq(Messages)
    /\ browser \in BOOLEAN /\ pending \in 0 .. MaxPending /\ late \in BOOLEAN /\ failed \in BOOLEAN

IsReply(i) == bus[i].kind \in Replies

\* At most one method call is open, counting its reply on the way back, however
\* often tlsdate is started, fails and is woken meanwhile.
OneRequest ==
    /\ call <= 1
    /\ call = 1 => \A i \in 1 .. Len(bus) : ~IsReply(i)
    /\ \A i, j \in 1 .. Len(bus) : IsReply(i) /\ IsReply(j) => i = j

\* A call that is open has its serial.
SerialOpen == ~serial => call = 0 /\ \A i \in 1 .. Len(bus) : ~IsReply(i)

\* The proxy is gone while an answer is awaited, and one that has been used is
\* looked up again before the next launch.
StaleGoes ==
    /\ resolving => dynamic_proxy = ""
    /\ dynamic_proxy # "" /\ ~fresh /\ ~late =>
            /\ ~serial
            /\ E_TLSDATE = "off" \/ (E_TLSDATE = "after" /\ E_RESOLVER)

\* The inductive invariant.
IInv == TypeOK /\ OneRequest /\ SerialOpen /\ StaleGoes

\* As long as the bus answers every call within RESOLVER_TIMEOUT, no child is
\* launched with the proxy of an earlier attempt: it goes without one or takes
\* an answer that came after the last launch.
FreshProxy == [][~running /\ running' => dynamic_proxy = "" \/ fresh \/ late']_vars

\* No answer is awaited for ever while the time is needed.
ResolvingEnds == resolving ~> ~resolving \/ last_sync_type = "NET" \/ daemon = "dead"

\* "It just avoids multiple requests in a single dispatch window": the serial
\* of a call does not stay, and the next attempt can ask again.  (A call that
\* ends in another error than ServiceUnknown is the exception.)
PendingClears == serial ~> ~serial \/ failed \/ daemon = "dead"
=============================================================================
