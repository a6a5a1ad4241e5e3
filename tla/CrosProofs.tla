----------------------------- MODULE CrosProofs -----------------------------
(***************************************************************************)
(* The resolver asks once at a time and never reuses a proxy, for every    *)
(* number of tries, every answer of the browser and every order of events. *)
(***************************************************************************)
EXTENDS CrosResolver, TLAPS, SequenceTheorems

\* Whatever the browser answers becomes one of the five forms of a URL.
LEMMA PacUrl == \A p : canonicalize_pac(p) \in Urls
BY DEF canonicalize_pac, Urls

\* The numbers and the queue, which the provers take apart from the flags.
Counts == tries \in 0 .. max_tries /\ call \in Nat /\ pending \in 0 .. MaxPending /\ bus \in Seq(Messages)

Flags ==
    /\ daemon \in {"up", "dead"} /\ resolve_msg \in BOOLEAN
    /\ last_sync_type \in {"RTC", "NET"}
    /\ running \in BOOLEAN /\ resolving \in BOOLEAN /\ serial \in BOOLEAN
    /\ dynamic_proxy \in Urls /\ fresh \in BOOLEAN
    /\ E_RESOLVER \in BOOLEAN /\ E_TLSDATE \in {"off", "soon", "after"}
    /\ browser \in BOOLEAN /\ late \in BOOLEAN /\ failed \in BOOLEAN

\* Together they are the type invariant, now
LEMMA TypeParts == TypeOK <=> Counts /\ Flags
BY Zenon DEF TypeOK, Counts, Flags

\* and after a step.
LEMMA TypeParts_ == TypeOK' <=> Counts' /\ Flags'
BY Zenon DEF TypeOK, Counts, Flags

\* What a message at the end of the queue makes of it.
LEMMA PutFacts ==
    ASSUME bus \in Seq(Messages), NEW m \in Messages, Put(m)
    PROVE  /\ bus' \in Seq(Messages) /\ Len(bus') = Len(bus) + 1
           /\ bus'[Len(bus) + 1] = m
           /\ \A i \in 1 .. Len(bus) : bus'[i] = bus[i]
BY DEF Put

\* What taking the first message leaves of it.
LEMMA TailFacts ==
    ASSUME bus \in Seq(Messages), bus # <<>>, bus' = Tail(bus)
    PROVE  /\ bus' \in Seq(Messages) /\ Len(bus') = Len(bus) - 1
           /\ Head(bus) = bus[1] /\ Head(bus) \in Messages
           /\ 1 \in 1 .. Len(bus)
           /\ \A i \in 1 .. Len(bus') : bus'[i] = bus[i + 1] /\ i + 1 \in 2 .. Len(bus)
OBVIOUS

\* A step that leaves the calls and the queue alone, and the serial unless it
\* sets it, keeps one request open at most.
LEMMA QuietBus ==
    ASSUME OneRequest, SerialOpen, UNCHANGED <<call, bus>>, serial => serial'
    PROVE  OneRequest' /\ SerialOpen'
BY DEF OneRequest, SerialOpen, IsReply

\* Only the first launch after an answer uses it.
LEMMA QuietProxy ==
    ASSUME StaleGoes, UNCHANGED <<resolverVars, E_RESOLVER, E_TLSDATE, late>>
    PROVE  StaleGoes'
BY DEF StaleGoes, resolverVars

\* A wake or a retry arms the resolver before tlsdate.
LEMMA ArmBothStale ==
    ASSUME StaleGoes, ArmBoth, UNCHANGED <<resolverVars, late>>
    PROVE  StaleGoes'
BY DEF StaleGoes, resolverVars, ArmBoth

-----------------------------------------------------------------------------
\* The daemon starts with nothing asked.
LEMMA InitInv == Init => IInv
<1> SUFFICES ASSUME Init PROVE IInv
    OBVIOUS
<1>0. tries = 0 /\ call = 0 /\ pending = 0 /\ bus = <<>>
    BY Zenon DEF Init
<1>1. OneRequest /\ SerialOpen /\ bus \in Seq(Messages)
    BY <1>0 DEF OneRequest, SerialOpen, IsReply
<1>2. tries \in 0 .. max_tries /\ call \in Nat /\ pending \in 0 .. MaxPending
    BY <1>0, CrosAssumption
<1>3. TypeOK
    BY <1>1, <1>2, Zenon DEF Init, TypeOK, Urls
<1>4. StaleGoes
    BY Zenon DEF Init, StaleGoes
<1> QED BY <1>1, <1>3, <1>4 DEF IInv

\* Every wake, and the steady-state timer.
LEMMA KickoffInv == IInv /\ Kickoff => IInv'
<1> SUFFICES ASSUME IInv, Kickoff PROVE IInv'
    OBVIOUS
<1>1. TypeOK'
    <2>1. Flags'
        BY TypeParts, Zenon DEF IInv, Flags, Kickoff, ArmBoth, resolverVars, busVars
    <2>2. UNCHANGED <<call, pending, bus>> /\ (tries' = tries \/ (tries > 0 /\ tries' = tries - 1))
        BY Zenon DEF Kickoff, busVars
    <2>3. Counts'
        BY <2>2, TypeParts, CrosAssumption DEF IInv, Counts
    <2> QED BY <2>1, <2>3, TypeParts_
<1>2. OneRequest' /\ SerialOpen'
    BY QuietBus DEF IInv, Kickoff, resolverVars, busVars
<1>3. StaleGoes'
    BY QuietProxy, ArmBothStale DEF IInv, Kickoff
<1> QED BY <1>1, <1>2, <1>3 DEF IInv

\* A request is sent only when none is open, and forgets the proxy.
LEMMA ResolveInv == IInv /\ action_resolve_proxy => IInv'
<1> SUFFICES ASSUME IInv, action_resolve_proxy PROVE IInv'
    OBVIOUS
<1> USE DEF IInv
<1>1. TypeOK'
    <2>1. Flags'
        BY TypeParts, ZenonT(60) DEF Flags, action_resolve_proxy, Forgotten, Urls, resolverVars
    <2>2. UNCHANGED <<tries, pending, bus>> /\ call' \in {call, call + 1}
        BY ZenonT(60) DEF action_resolve_proxy, Busy, resolverVars
    <2>3. Counts'
        BY <2>2, TypeParts, CrosAssumption DEF Counts
    <2> QED BY <2>1, <2>3, TypeParts_
<1>2. OneRequest' /\ SerialOpen'
    BY DEF TypeOK, OneRequest, SerialOpen, IsReply, action_resolve_proxy, Busy, resolverVars
<1>3. StaleGoes'
    <2>1. CASE Busy
        <3>1. UNCHANGED <<resolving, dynamic_proxy, fresh, late>>
            BY <2>1, Zenon DEF action_resolve_proxy, resolverVars
        <3>2. dynamic_proxy = "" \/ fresh \/ late
            BY <2>1, Zenon DEF StaleGoes, Busy
        <3>3. (resolving => dynamic_proxy = "")'
            BY <3>1, Zenon DEF StaleGoes
        <3>4. (dynamic_proxy = "" \/ fresh \/ late)'
            BY <3>1, <3>2, Zenon
        <3> QED BY <3>3, <3>4, Zenon DEF StaleGoes
    <2>2. CASE ~Busy
        <3>1. dynamic_proxy' = ""
            BY <2>2, Zenon DEF action_resolve_proxy, Forgotten
        <3> QED BY <3>1, Zenon DEF StaleGoes
    <2> QED BY <2>1, <2>2
<1> QED BY <1>1, <1>2, <1>3

\* Whatever message comes first.
LEMMA FilterInv == IInv /\ dbus_filter => IInv'
<1> SUFFICES ASSUME IInv, dbus_filter PROVE IInv'
    OBVIOUS
<1> USE DEF IInv
<1>1. /\ bus' \in Seq(Messages) /\ Len(bus') = Len(bus) - 1
      /\ Head(bus) = bus[1] /\ Head(bus) \in Messages
      /\ 1 \in 1 .. Len(bus)
      /\ \A i \in 1 .. Len(bus') : bus'[i] = bus[i + 1] /\ i + 1 \in 2 .. Len(bus)
    BY TailFacts DEF dbus_filter, TypeOK
<1>2. TypeOK'
    <2>1. Flags'
        BY TypeParts, PacUrl, ZenonT(60)
           DEF Flags, dbus_filter, handle_proxy_change, service_unknown, resolverVars
    <2>2. UNCHANGED <<tries, call, pending>>
        BY Zenon DEF dbus_filter
    <2>3. Counts'
        BY <1>1, <2>2, TypeParts, Zenon DEF Counts
    <2> QED BY <2>1, <2>3, TypeParts_
<1>3. OneRequest'
    BY <1>1 DEF TypeOK, OneRequest, IsReply, dbus_filter
<1>4. SerialOpen'
    <2>1. CASE Head(bus).kind \in Replies
        BY <1>1, <2>1 DEF TypeOK, OneRequest, SerialOpen, IsReply, dbus_filter
    <2>2. CASE Head(bus).kind \notin Replies
        <3>1. serial' = serial
            BY <2>2 DEF dbus_filter, handle_proxy_change, Replies
        <3> QED BY <1>1, <3>1 DEF SerialOpen, IsReply, dbus_filter
    <2> QED BY <2>1, <2>2
<1>5. StaleGoes'
    <2>1. CASE Head(bus).kind \in Replies
        <3>1. serial
            BY <1>1, <2>1 DEF SerialOpen, IsReply, TypeOK
        <3>2. UNCHANGED <<dynamic_proxy, fresh, late>> /\ resolving' \in {FALSE, resolving}
            BY <2>1, Zenon DEF dbus_filter, service_unknown, Replies, resolverVars
        <3>3. (resolving => dynamic_proxy = "")'
            BY <3>2, Zenon DEF StaleGoes
        <3>4. (dynamic_proxy = "" \/ fresh \/ late)'
            BY <3>1, <3>2, Zenon DEF StaleGoes
        <3> QED BY <3>3, <3>4, Zenon DEF StaleGoes
    <2>2. CASE Head(bus).kind \notin Replies
        <3>1. handle_proxy_change(Head(bus)) /\ UNCHANGED <<E_RESOLVER, late>>
            BY <2>2, Zenon DEF dbus_filter, Replies
        <3>2. CASE resolving /\ ~Head(bus).mismatch
            BY <3>1, <3>2, Zenon DEF StaleGoes, handle_proxy_change
        <3>3. CASE ~(resolving /\ ~Head(bus).mismatch)
            BY <3>1, <3>3, Zenon DEF StaleGoes, handle_proxy_change
        <3> QED BY <3>2, <3>3
    <2> QED BY <2>1, <2>2
<1> QED BY <1>2, <1>3, <1>4, <1>5

\* A launch, a try that is not made, or a fork that fails.
LEMMA RunInv == IInv /\ action_run_tlsdate => IInv'
<1> SUFFICES ASSUME IInv, action_run_tlsdate PROVE IInv'
    OBVIOUS
<1> USE DEF IInv
<1>1. TypeOK'
    <2>1. Flags'
        BY TypeParts, ZenonT(60) DEF Flags, action_run_tlsdate, busVars
    <2>2. /\ UNCHANGED <<call, pending, bus>>
          /\ \/ tries' = tries \/ tries' = 0
             \/ tries' = IF tries > 0 THEN tries - 1 ELSE 0
             \/ tries < max_tries /\ tries' = tries + 1
        BY ZenonT(60) DEF action_run_tlsdate, TriesLeft, busVars
    <2>3. Counts'
        BY <2>2, TypeParts, CrosAssumption DEF Counts
    <2> QED BY <2>1, <2>3, TypeParts_
<1>2. OneRequest' /\ SerialOpen'
    BY QuietBus DEF action_run_tlsdate, busVars
<1>3. StaleGoes'
    <2>1. /\ UNCHANGED <<serial, dynamic_proxy>> /\ E_TLSDATE' = "off"
          /\ late' = (late \/ serial) /\ resolving' \in {FALSE, resolving}
        BY Zenon DEF action_run_tlsdate
    <2>2. resolving' => dynamic_proxy' = ""
        BY <2>1, Zenon DEF StaleGoes
    <2> QED BY <2>1, <2>2, Zenon DEF StaleGoes
<1> QED BY <1>1, <1>2, <1>3

\* What the child says, its end, and the end of the bus.
LEMMA ChildInv ==
    IInv /\ (action_tlsdate_status \/ handle_child_death \/ Disconnected) => IInv'
<1> SUFFICES ASSUME IInv, action_tlsdate_status \/ handle_child_death \/ Disconnected PROVE IInv'
    OBVIOUS
<1> USE DEF IInv
<1>1. TypeOK'
    <2>1. Flags'
        BY TypeParts, ZenonT(60)
           DEF Flags, action_tlsdate_status, handle_child_death, Disconnected, ArmBoth,
               daemonVars, resolverVars, busVars
    <2>2. UNCHANGED <<call, pending, bus>> /\ tries' \in {tries, 0}
        BY Zenon DEF action_tlsdate_status, handle_child_death, Disconnected, daemonVars, busVars
    <2>3. Counts'
        BY <2>2, TypeParts, CrosAssumption DEF Counts
    <2> QED BY <2>1, <2>3, TypeParts_
<1>2. OneRequest' /\ SerialOpen'
    BY QuietBus DEF action_tlsdate_status, handle_child_death, Disconnected, resolverVars, busVars
<1>3. StaleGoes'
    BY QuietProxy, ArmBothStale
       DEF action_tlsdate_status, handle_child_death, Disconnected, daemonVars
<1> QED BY <1>1, <1>2, <1>3

\* The call becomes its reply.
LEMMA DeliverInv == IInv /\ Deliver => IInv'
<1> SUFFICES ASSUME IInv, Deliver PROVE IInv'
    OBVIOUS
<1> USE DEF IInv
<1>1. PICK m \in [kind : Replies] : Put(m)
    BY DEF Deliver, Message, Replies
<1>2. /\ bus' \in Seq(Messages) /\ Len(bus') = Len(bus) + 1
      /\ bus'[Len(bus) + 1] = m
      /\ \A i \in 1 .. Len(bus) : bus'[i] = bus[i]
    BY <1>1, PutFacts DEF TypeOK, Messages
<1>3. /\ call = 1 /\ call' = 0 /\ serial /\ UNCHANGED <<daemon, resolve_msg, daemonVars, resolverVars, late, failed>>
    BY DEF Deliver, OneRequest, SerialOpen, TypeOK
<1>4. TypeOK'
    <2>1. Flags'
        BY <1>3, TypeParts, Zenon DEF Flags, Deliver, daemonVars, resolverVars
    <2>2. pending' \in {pending, pending + 1} \cap 0 .. MaxPending \/ pending' = pending \/ pending' = 0
        BY Zenon DEF Deliver
    <2>3. UNCHANGED tries
        BY <1>3, Zenon DEF daemonVars
    <2>4. Counts'
        BY <1>2, <1>3, <2>2, <2>3, TypeParts, CrosAssumption DEF Counts
    <2> QED BY <2>1, <2>4, TypeParts_
<1>5. OneRequest'
    BY <1>2, <1>3 DEF OneRequest, IsReply, TypeOK
<1>6. SerialOpen'
    BY <1>3 DEF SerialOpen, resolverVars
<1>7. StaleGoes'
    BY <1>3, QuietProxy DEF daemonVars
<1> QED BY <1>4, <1>5, <1>6, <1>7

\* A signal joins the queue; it is no reply.
LEMMA ResolvedInv == IInv /\ Resolved => IInv'
<1> SUFFICES ASSUME IInv, Resolved PROVE IInv'
    OBVIOUS
<1> USE DEF IInv
<1>1. PICK p \in Pacs, other \in BOOLEAN :
            Put([kind |-> "ProxyChange", pac |-> p, mismatch |-> other])
    BY DEF Resolved
<1>2. /\ bus' \in Seq(Messages) /\ Len(bus') = Len(bus) + 1
      /\ bus'[Len(bus) + 1] = [kind |-> "ProxyChange", pac |-> p, mismatch |-> other]
      /\ \A i \in 1 .. Len(bus) : bus'[i] = bus[i]
    BY <1>1, PutFacts DEF TypeOK, Messages
<1>3. UNCHANGED <<daemon, resolve_msg, daemonVars, resolverVars, call, late, failed>>
    BY DEF Resolved
<1>4. TypeOK'
    BY <1>2, <1>3, CrosAssumption DEF TypeOK, Resolved, daemonVars, resolverVars
<1>5. OneRequest' /\ SerialOpen'
    BY <1>2, <1>3 DEF OneRequest, SerialOpen, IsReply, TypeOK, Replies, resolverVars
<1>6. StaleGoes'
    BY <1>3, QuietProxy DEF daemonVars
<1> QED BY <1>4, <1>5, <1>6

\* The browser comes and goes.
LEMMA OwnerInv == IInv /\ NameOwnerChanged => IInv'
<1> SUFFICES ASSUME IInv, NameOwnerChanged PROVE IInv'
    OBVIOUS
<1> USE DEF IInv
<1>1. TypeOK'
    BY CrosAssumption DEF TypeOK, NameOwnerChanged, daemonVars, resolverVars
<1>2. OneRequest' /\ SerialOpen'
    BY QuietBus DEF NameOwnerChanged, resolverVars
<1>3. StaleGoes'
    BY QuietProxy DEF NameOwnerChanged, daemonVars
<1> QED BY <1>1, <1>2, <1>3

\* Nothing changes.
LEMMA StutterInv == IInv /\ UNCHANGED vars => IInv'
BY QuietBus, QuietProxy
   DEF IInv, TypeOK, vars, daemonVars, resolverVars, busVars, Messages, Replies

\* One step of anybody.
LEMMA NextInv == IInv /\ [Next]_vars => IInv'
<1> SUFFICES ASSUME IInv, [Next]_vars PROVE IInv'
    OBVIOUS
<1>1. CASE Wake \/ action_invalidate_time
    BY <1>1, KickoffInv DEF Wake, action_invalidate_time
<1>2. CASE action_resolve_proxy
    BY <1>2, ResolveInv
<1>3. CASE dbus_filter
    BY <1>3, FilterInv
<1>4. CASE action_run_tlsdate
    BY <1>4, RunInv
<1>5. CASE action_tlsdate_status \/ handle_child_death \/ Disconnected
    BY <1>5, ChildInv
<1>6. CASE Deliver
    BY <1>6, DeliverInv
<1>7. CASE Resolved
    BY <1>7, ResolvedInv
<1>8. CASE NameOwnerChanged
    BY <1>8, OwnerInv
<1>9. CASE UNCHANGED vars
    BY <1>9, StutterInv
<1> QED BY <1>1, <1>2, <1>3, <1>4, <1>5, <1>6, <1>7, <1>8, <1>9 DEF Next

-----------------------------------------------------------------------------
\* The inductive invariant holds in every reachable state.
THEOREM Invariance == Spec => []IInv
BY InitInv, NextInv, PTL DEF Spec

\* The state of the resolver, of its events and of the bus has its type.
THEOREM TypeCorrect == Spec => []TypeOK
<1>1. IInv => TypeOK
    BY DEF IInv
<1> QED BY <1>1, Invariance, PTL

\* action_resolve_proxy never opens a second method call.
THEOREM OneRequestAtATime == Spec => []OneRequest
<1>1. IInv => OneRequest
    BY DEF IInv
<1> QED BY <1>1, Invariance, PTL

\* A launch that starts from the invariant uses no proxy of an earlier attempt.
LEMMA LaunchFresh ==
    IInv /\ [Next]_vars => [~running /\ running' => dynamic_proxy = "" \/ fresh \/ late']_vars
<1> SUFFICES ASSUME IInv, [Next]_vars, ~running, running'
             PROVE  dynamic_proxy = "" \/ fresh \/ late'
    OBVIOUS
<1>1. action_run_tlsdate
    BY DEF Next, Wake, action_invalidate_time, Kickoff, action_resolve_proxy, dbus_filter,
           Disconnected, action_tlsdate_status, handle_child_death, Deliver, Resolved,
           NameOwnerChanged, daemonVars, vars, IInv, TypeOK
<1> QED BY <1>1 DEF IInv, TypeOK, StaleGoes, action_run_tlsdate

\* While the bus answers in time, action_run_tlsdate never launches a child
\* with the proxy of an earlier attempt.
THEOREM NoStaleProxy == Spec => FreshProxy
<1>1. IInv /\ [Next]_vars => [~running /\ running' => dynamic_proxy = "" \/ fresh \/ late']_vars
    BY LaunchFresh
<1> QED BY <1>1, Invariance, PTL DEF Spec, FreshProxy
=============================================================================
