# A TLA+ model of tlsdate

tlsdate sets a machine's clock from the time in TLS handshakes. Its daemon,
`tlsdated`, is an event loop around three processes: itself (unprivileged), a
*time setter* forked before privileges are dropped, and a `tlsdate` child for
every attempt to get the time. `tlsdate` runs `tlsdate-helper`, which is again
two processes: a parent that may set the clock and a child that talks to the
network, through a proxy if there is one. This project models all of these and
what they exchange, checks it with TLC and proves its core with TLAPS.
Paths below are relative to the repository.

## The system

| component | state | operations | talks to |
|---|---|---|---|
| time setter (`src/tlsdate-setter.c`) | `status`, the word in hand, an open timestamp file | read a word, `settimeofday`, `rtc_write`, save, answer | two pipes to the daemon; system clock, RTC, file |
| event loop (`src/events/*.c`, libevent) | armed events, two priority queues, caught signals | poll, run a callback | every handler |
| keeping time (`kickoff_time_sync.c`, `check_continuity.c`, `save.c`, `time_set.c`, `sigterm.c`) | `last_sync_type`, `last_time`, `clock_delta`, `exitting` | invalidate, kick off, save, take a status word, shut down | the setter |
| running tlsdate (`run_tlsdate.c`, `tlsdate_status.c`, `sigchld.c`, `tlsdate-monitor.c`) | `tries`, `backoff`, `running`, `tlsdate_pid`, `cur_source`, the monitor pipe | launch, read the answer, time out, reap, retry | the child |
| D-Bus service (`src/dbus.c`) | none of its own | SetTime, CanSetTime, LastSyncInfo | keeping time |
| start-up (`src/tlsdated.c`) | options, the timestamp file | choose the first time, fork the setter | everything |
| route monitor (`src/routeup.c`, `route_up.c`) | a netlink socket or stdin | wake | keeping time |
| Chromium OS resolver (`src/platform-cros.c`) | `resolving`, a pending D-Bus serial | ask the browser for a proxy | running tlsdate |
| tlsdate, tlsdate-helper (`src/tlsdate*.c`), proxy BIO (`src/proxy-bio.c`) | one TLS connection | fetch, verify and print the time | the network |
| configuration (`src/conf.c`, `src/tlsdated.c`) | options, list of entries, list of sources | parse, override, check | start-up, the command line of tlsdate |

What is hard here: the daemon and the setter share no lock and no request
identifiers, only two pipes, so every status word is attributed to whatever the
daemon believes when it reads it; signals coalesce; the child can answer after
it was killed, or die without answering; `E_SAVE` sends the state of the moment
it fires; clock, RTC and file are three stores that are written one after the
other with a crash possible in between; a stream socket cuts what a proxy or a
server says anywhere; the browser answers late, twice or never; and everything
must still end, save and retry. `PROJECT.json` lists these as hazards, each at its line.

## Modules

* **TlsdateDefs** - sane times, sync types, status words. A time carries a tag
  `net` that says whether it reached the program as an answer of a network
  source. The tag is bookkeeping: no guard reads it.
* **TimeSetter** - `time_setter_coprocess`, one action per system call with an
  effect outside the process. `MayFail` selects the failures explored.
* **SetterService** - the setter with an arbitrary client that speaks its
  protocol and may go away at any moment: what the setter promises whoever
  calls it. `MCSetterService` gives it values.
* **Tlsdated** (extends TimeSetter) - the whole daemon with the real setter at
  the other end of the pipes: libevent, all handlers, the child, D-Bus, signals,
  start, power loss and restart. `MCTlsdated` gives it values.
* **TimeService** - what a client of the setter may rely on, without its
  program counter, its flags or its order of system calls. `SetterService`
  instantiates it with a refinement mapping; `ServesInOrder` says that the
  coprocess implements it.
* **Config** - how `tlsdated` gets its options: defaults, command line, file,
  the two checks, the list of sources, the jitter, and the command line it makes
  of them for `tlsdate`.
* **ProxyBio** - the filter between OpenSSL and the socket: SOCKS4a, SOCKS5 and
  HTTP CONNECT on a stream that delivers any number of bytes at a time.
* **TlsdateHelper** (extends Config and ProxyBio) - the way from `tlsdated`'s or
  a shell's command line through `tlsdate` to `tlsdate-helper`, its two
  processes, the shared word between them, the exchange with the server, the
  certificate and the clock. `MCHelper` gives it values.
* **CrosResolver** - the Chromium OS platform: the D-Bus round trip to the
  browser, with the part of the daemon's retry logic that it races with.
  `MCCros` gives it values.
* Theorems: **SetterProofs** and **ServiceProofs** (the setter), **CrosProofs**
  (the resolver); for the daemon **TlsdatedProofs** (the child), **LoopProofs**
  (the loop, extends TlsdatedProofs) and **BeliefProofs** (what it believes,
  saves and leaves on disk, extends LoopProofs); for `tlsdate` **HelperProofs**
  (configuration and answer) and **ExchangeProofs** (the wire, extends
  HelperProofs).

### How Tlsdated corresponds to the code

A handler is one action with the name of its C function; libevent calls it
through `Callback(e)` and what it adds to or deletes from the loop goes through
`Return(e, added, deleted)`, which is `trigger_event`/`event_del` seen from the
loop. `action_kickoff_time_sync` is called by other handlers at their end, so
its body is the operator `Kickoff`. `action_sigchld` reaps until nothing is
left, as the `while` at its end does; the setter's death (`SetterLost`) breaks
the loop and includes `cleanup_main`. `action_sync_and_save` includes its
recursive call. Handlers that differ in nothing but the exit they take are
separate actions (`SaveHangup`, `SaveSigpipe`, `StdinBroken`).

*libevent.* With two priorities a pass of the loop polls, queues what is ready,
and runs the highest non-empty queue to its end. `Poll` queues file events in
any order, then expired timers, then signals, which reach the loop through
libevent's own socket pair and are translated after the other files. Deleting
or re-adding an event removes it from its queue. One-shot events leave `armed`
before their callback runs.

*Time.* The monotonic clock stands still at 0, so `clock_delta` is the value of
the real-time clock, and a clock that only ticks makes no step. Durations are
left out: an armed timer may expire at any poll. This gives more interleavings
than the real intervals do; `restart` therefore leaves out the steady-state
timer, which by default fires a day after the start and could otherwise race
the very first `settimeofday`.

*Pipes.* `PipeRoom` bounds the words in the pipe to the setter; libevent reports
it writable when two more fit. The real pipe holds thousands of words, so small
values add back-pressure that is rare in practice; runs whose property depends
on it use 4 (no back-pressure for one shutdown), the others 2 or 3; `time` uses 2,
where libevent reports the pipe writable only when it is empty.

*History.* `term_sync` and `term_time` record the sync type and the clock at the
first SIGTERM, for `ExitSaves`. Nothing reads them.

### How the other modules correspond to the code

*TlsdateHelper.* One action per stretch of code between two points where the
other process, the network or the clock can be seen. `Main` is the parent up to
its wait, `Collect` and `SetClock` what follows; `SetUp` to `Inspect` are
`run_ssl`, in its order. `DoConnect` only starts the handshake: on an SSL BIO the
connection is made by its first write, in the proxy callback if there is one, so
a connection that could not be made is a `link` that is reset from the start.
Setting the clock may fail, for root too. The time the server sends is stored in `result` by
`ServerHello` or `read_http_date_from_bio` and reaches `time_map` only in
`Inspect`, as in the code. A time carries a tag `honest`, which no guard reads.
Time runs in ticks, K to the second, while the parent waits for the child;
`ClockClose` compares the clock with the true time. A reply of the HTTP server
is a sequence of pieces of text; a read may end after any of them, and the date
itself is two pieces, so that it can be cut. A certificate is a record of what
the checks find in it. The start state `"unittest"` is that of
`src/proxy-bio-unittest.c`, which drives a proxy BIO without the helper; it
reaches `socks4a_connect`, which the helper never selects because it knows the
scheme as `socks4`.

*ProxyBio.* What this side writes are whole messages, what it reads are bytes
as far as a boundary between them matters: the replies of the SOCKS proxies are
byte by byte, the lines of an HTTP proxy in words. `bio` is where a callback is;
`"up"`, `"failed"` and `"broken"` are its results 1, 0 and -1, and `MayPass` is
the test in `proxy_write`, which only 0 fails.

*Config.* `parse_argv`, `load_conf`, `parse_source` and `add_source_to_conf` are
actions on the state of `main()`; a line is a key and a value. The list that
`conf_parse` builds is not kept next to the file: the walk of `load_conf` goes
over the lines, and the action `conf_parse` drops an empty line or a comment when
the walk gets to it; that a file without an entry is refused is in `load_conf`.
`Exec` hands the result to `tlsdate`, whose own option parser is `tlsdate_main`.
Options are a set; of a long `--host` or `--proxy` in the configured command and
the `-H` or `-x` that the daemon appends, the last one counts (`Overridden`). The
sums of `add_jitter` are ints of any width (`Wrap`), and `Traps` is its division by
zero.

*CrosResolver.* Of the daemon there are `last_sync_type` (does it need the
time), `tries`, the child, and the two events that matter. `E_TLSDATE` armed
together with `E_RESOLVER` comes RESOLVER_TIMEOUT later, so it cannot overtake
it; every other order of events is possible. `fresh`, `late` and `failed` are
history and nothing reads them. A signal with the answer carries no request, so
the answer to an earlier one counts as long as one is awaited, as in
`handle_proxy_change`.

### Not modelled

* The Plan 9 and PolarSSL ports: copies of code that is modelled.
* How OpenSSL verifies a chain, and how a name matches a wildcard: a certificate
  comes with the verdicts. The list of accepted ciphers and the text and verbose
  output formats.
* In libdbus, watches, timeouts and the sending of replies; the `TimeUpdated`
  signal, which only reads state.
* The walk of `routeup_process` over one packet: it keeps no state, and its
  result is the wake that Tlsdated has.
* Descriptors that leak through `execve`: a child that outlives a crashed daemon
  holds a copy of the setter's pipe; in the model the pipe closes with the
  daemon.
* A torn write of the 8-byte timestamp.
* In Tlsdated, the exits of `main()` before the loop runs because an allocation, a
  fork or the set-up of an event failed (`goto out`): nothing has been sent to the
  setter by then, and the process is gone.
* A second attempt of OpenSSL's connect BIO after the first one failed within a
  proxy callback: in the model the connection stays broken.
* In Tlsdated, negative values of `max_tries` and `wait_between_tries`, which
  `check_conf` lets through (module Config has them); the constants are assumed
  positive.
* Logging, the seccomp filter program, the length check of `base_path`,
  `verbose`, and the two options that nothing reads
  (`min_steady_state_interval`, `subprocess_tries`).

## What is checked

Deadlock checking is off in every run because the system may stop: the daemon
exits and nobody restarts it.

| run | question | bounds |
|---|---|---|
| `setter` | all failures, any client: `AppliedEverywhere`, `DiskIsNetTime`, `DiskAfterClocks`, the refinement `ServesInOrder`, and under fairness of the coprocess `OrphanExits` | two words in each pipe, one sane and one insane time, both signs, 0 |
| `time` | `BeliefIsTrue`: when the setter is idle and nothing is on its way, a clock said by `LastSyncInfo` to show network, D-Bus, disk or build time shows it, and the delta agrees; with SetTime, CanSetTime and LastSyncInfo, several in one dispatch. `DiskIsNetTime` without SIGTERM | one network time, one requested over D-Bus, steady-state timer at any poll; a pipe of two words, so that one waiting word holds up the next save |
| `children` | `ChildKnown`, `ChildGuarded`, `DeathsNoticed`, `BackoffBounded` with failing forks, truncated, silent, stopped and killed processes, no D-Bus (SIGPIPE kills), no disk (SIGTERM kills) | two tries, two answers (sane, too late) |
| `retry` | `ChildReaped`, `KeepsTrying`, and `DesyncNoticed`: a stale delta does not survive the continuity timer | one try; failing forks, silent children; the clock jumps back to the boot time at any moment |
| `shutdown` | `ExitSaves`, `StatusAssigned` with one or more SIGTERMs at any point, clock sane or not at boot and set by others at any moment | pipe of four words |
| `shutdown_live` | `ShutdownCompletes`, also when the setter is killed; it is a dry run, so also `DryRunTouchesNothing` | one SIGTERM |
| `helper` | tlsdate by hand, without a proxy: `OnlyVerified`, `ClockClose`, `HttpDateWhole` with false tickers, bad certificates, replies in any pieces, long exchanges, a clock that others move | two ticks to the second; plausible seconds 2 to 8; a round trip of at most 4 ticks is accepted, the exchange lasts up to 5; one jump of the clock, back or forth; buffer of 5 pieces, replies of 2 to 7 |
| `proxy` | from `tlsdated`'s options to the proxy: `SteadyTimerPositive`, `LastEntryDecides`, `SourceIdsArePlaces`, `NoEarlyData`, `TunnelAligned`, `AnswerThenSuccess`, and under fairness `CloseEnds` | eight command lines (two with a jitter that overflows, one with `--host` and `--proxy`), eight files, two of them with comments between the entries, ints of four bits; all address types, short writes, end of stream and reset at every point |
| `resolver` | `OneRequest`, `FreshProxy`, and under fairness `ResolvingEnds`, `PendingClears`, with late, lost and foreign answers, errors, a browser that comes and goes, the loss of the bus | two tries, two resolutions in the browser, two signals under way |
| `restart` | `ClockAboveDisk`, `DiskIsNetTime` across power loss, failing setters and clocks at the epoch | two boot times, one saved time, two answers, earlier and later than it |

One network answer is enough for `time` and `shutdown` because the
properties only tell apart where a time came from and whether two stores agree;
a second child run produces the same value again, and stale answers of a killed
child still race the next one's. Times 3, 4 and 6 are pairwise a desync apart.

For `helper`, five ticks are one more than the longest round trip accepted, so
both verdicts occur, and two ticks to the second are enough for every division
to lose something. The longest reply does not fit the buffer, the others do.
Command lines and files of `proxy` are chosen so that each option is overridden,
each error path of the parser taken, and the negative settings that `check_conf`
accepts occur; the address of a SOCKS5 reply has 3 bytes, so its loop takes one
to three reads. With two pending resolutions and two signals in `resolver` an
answer can be late for one request and early for the next.

*Fairness.* `FairSpec` of the daemon assumes that the loop polls and runs its
callbacks, that the kernel schedules the setter, and that an armed timer is due
at infinitely many polls, so that it fires (strong fairness, since other events
may be handled in between). Nothing is assumed of the child, of D-Bus clients,
of routes or of signals: a child may hang for ever. The setter's own `FairSpec`
assumes only that the coprocess is scheduled. The helper's assumes that both
of its processes run and that bytes that were sent arrive; no proxy or server
has to answer or to close. The resolver's assumes that libevent serves its
events, the continuity timer included, that the message bus delivers a call or
refuses it, and that a child ends (its timeout sees to that); the browser need
not answer.

Each property of each run has a mutant in `PROJECT.json`: a definition marked
`Mutant:` that changes one mapped definition the way a slip in the C code would,
and makes that property fail.

### Where the code departs from its comments

Two runs are expected to fail; `PROJECT.json` quotes the lines.

* `doc_sources`: the source list is advanced in the forked child, so every try
  uses the first source. The unit test `rotate_hosts` does not notice.
* `doc_sigterm` (`OnlyNetToDisk`): SIGTERM between the write of a network time and
  the setter's `settimeofday` sends the old clock with a network flag: the clock is
  set back and the old time saved. This is why the theorem and the runs about
  `DiskIsNetTime` are without SIGTERM; `ExitSaves` holds, as what it asks for is
  the time the clock showed.

These other departures were met while modelling and are part of the modules; they have
no run of their own.

* Status words carry no time. If tlsdate answers while the setter still works on
  the start-up time, that time's `TIME_SET` is taken for the network's and
  `clock_delta` is set from the unsynchronized clock.
* An insane time is answered with the status of the word before it;
  `SETTER_BAD_TIME` is never written.
* `MAX_SANE_BACKOFF` is tested before the doubling, so 10 doubles to 640
  (`BackoffBounded` states the bound the code does keep).
* SIGTERM saves nothing unless the last sync was the network's, which
  `ExitSaves` has as its premise, although the head comment of `src/tlsdated.c`
  says that the timestamp is saved.
* `check_conf` only asks that the jitter be less than the interval, and `add_jitter`
  computes with ints (`-fwrapv`): `-a 86400 -j -2147483647` is accepted and the
  timer wraps to a negative interval. Twice a jitter of INT_MIN is 0, and the
  daemon ends at the division. `SteadyTimerPositive` has the premise that the
  largest sum is an int (`JitterFits`).
* `tlsdate` declares its long options without arguments (`src/tlsdate.c:148`):
  `--proxy` gives no proxy and `--host` ends the helper's argument vector early,
  although `man/tlsdate.1` lists them as equal to `-x` and `-H`.
* The SOCKS4a proxy cannot be used: the helper refuses the scheme `socks4a` that
  `man/tlsdate.1` documents, and for the scheme it accepts, `socks4`, the BIO has
  no callback, so `proxy_write` fails its assertion (`NoCallback`).
* A proxy callback that returns -1 counts as connected in `proxy_write`. It does
  no harm, because the connection is broken by then: `NoEarlyData` holds.
* The address of a SOCKS5 reply is not skipped if it is an IPv6 one, so TLS
  starts in the middle of it; `TunnelAligned` leaves that reply out.
* A method call that ends in another error than ServiceUnknown leaves its serial
  set for ever: no later attempt asks again. `PendingClears` and `FreshProxy`
  name the exception.

## What is proved

Assumptions: the named `ASSUME`s of the modules, and what a theorem states as its
hypothesis. The `ASSUME`s say that constants have their types, that the sane range
is not empty, that a pipe holds two words, that the daemon's `max_tries` and
`wait_between_tries` are positive, that an option letter switches off a flag or
sets a number that is an int, that a configuration file is a sequence of lines, that a year of
two digits is later than any plausible time when read a century off, and (`HeadsAssumption`) that the line of a date in an HTTP
reply is not ended in the middle of the date.

**SetterProofs.** `SetterInv` is inductive: next to types and the properties
themselves it says that a positive word in the pipe is the network's
(`PipeOK`), that a time being applied is sane and, if it goes to disk, the
network's (`TvOK`), and that the stores before the current one already show it
(`Applied`). Without `PipeOK` the word read next could be anything; without
`Applied` nothing relates clock and disk when the file is written. From it
follow `SetterTypes`, `OnlyNetTimeOnDisk`, `SuccessIsComplete`, and the action
properties `DiskFollowsClocks` and `DryRunIsDry`, for every client, option,
failure set, pipe size and set of times.

**TlsdatedProofs.** `ChildInv` adds to `ChildKnown`, `ChildGuarded` and
`BackoffBounded` that only a child that has not exited can be stopped: otherwise
`handle_child_stop` could kill a process that is not there. Most steps leave the
child alone (`Leaves`), which needs only that a callback that neither is nor
deletes the timeout keeps it armed (`RanKeepsTimeout`). Results: `OneChild`,
`ChildUnderTimeout`, `BackoffLimit`, whatever the loop's queues hold.

**LoopProofs.** `LoopInv` = `TypeOK`, `QueuesOK`, `StillReady` is inductive. A
callback runs some time after the poll that queued it, and others run before it:
`StillReady` says that the room in the pipe and the word on the monitor pipe that
the poll saw are still there, which is what keeps a pipe from overflowing and a
handler from reading an empty one; `QueuesOK` (no event is queued twice) keeps
the same word from being promised to two callbacks. Results: `DaemonTypes`;
`NoDeathForgotten`, for which `Callback` of anything but `E_SIGCHLD` must leave
a queued SIGCHLD alone; and, with `FirstWord`, `StatusIsAssigned`: until the
setter has read a word, either a sane one is at the head of its pipe or
`last_time` is sane and no callback comes before `E_SAVE` (`SaveComesFirst`).

**BeliefProofs.** Every step of the daemon is first reduced to what it does to
the clock, the pipe and the belief (`HandlerEffect`, `NextEffect`), so that the
invariants below look at a handful of cases and not at every handler.

* `DiskInv` for `DiskHoldsNetTimes`: a positive word in the pipe, a time being
  applied for the disk, and a belief of type NET are the network's. Hypothesis:
  nobody sends SIGTERM, since the word of a shutdown may carry another time (see
  the departures above).
* `BeliefInv` for `BeliefHolds`: `HeadsForBelief` says that the time the clock is
  heading for (the last word in the pipe, else the one being applied, else what
  it shows) is `last_time` whenever `E_SAVE` is not armed and the setter lives; the
  property is the case of an idle setter. It needs `Answered`, because a status
  other than TIME_SET would make the daemon forget its time, and `ClockSet`.
  Hypotheses: nobody else sets the clock, and it is not a dry run; either makes
  the belief wrong by design. The size of the pipe is any.
* `GoodbyeInv` for `ExitIsSaved`: from the first SIGTERM in sync on, the exit is
  at one stage of `TermStage`: about to be written, in the pipe before the word 0,
  being applied with the word 0 next, on disk, or given up without a clean exit.
  Hypotheses: not a dry run, and the clock never shows the epoch, whose word is
  that of the exit.
* `AboveInv` for `ClockIsAboveDisk`. The property is about an idle setter; that it
  survives the words still under way takes the whole path of a time.
  `FirstAbove` says that the time of `main()`, the first word, is not behind the
  file; `LaterSaved` and `TvAbove` that each later word is the network's, so the
  file is written with it too; `ClockAbove` that clock and file have met when the
  setter gets to its answer. `InTurn` is why no other word comes in between: at
  most two words and statuses are under way, at most one while a network time is
  pending, none when its delta is already noted, so that `check_continuity` finds
  the clock where it was and does not give the time up before it is sent.
  `NetAsked` keeps a second answer of the child from replacing it. Hypotheses, those
  of the run `restart`: the setter has a file and it is not a dry run, nobody else
  sets the clock or asks over D-Bus, nobody sends SIGTERM, and the steady-state
  timer is off. The last one is needed: durations are not modelled, and a
  steady-state timer that overtook the first `settimeofday` (in the program it is
  due a day later) would send the unset clock in place of the network's time.

Also `DryDaemonIsDry`: a dry run of the whole daemon touches neither clock nor
file, if nobody else sets the clock and the machine stays up; it rests on `Dry`, the
places where the setter then never is.

**HelperProofs.** `ConfInv` (numbers are ints, what passed `check_conf` still does,
sources are numbered) gives `TimerIsPositive` and `SourcesAreNumbered`, for every
command line, file, width of int and random number; the timer's premise is that the
largest sum of `add_jitter` is an int, for which `JitterKeepsPositive` shows that
nothing on the way to it wraps. `LoadInv` follows the walk of
`load_conf`: the lines not looked at are the end of the file, and every option is
what the last of the lines before them with its key made it, or what the command
line or the default says if there is none (`DecidedBy`). At the end of the file
this is `FileDecides`; it needs no induction over the file because every line is a
step. `AnswerInv` says that the
shared word is empty until a child has ended well with everything checked that
the arguments ask for, and that a child of the daemon has no setting of the
clock ahead; from it `AnswersAreVerified` and `AnswerMeansSuccess`, for every
certificate, proxy and reply.

**ExchangeProofs.** `TypeInv` gives `HelperTypes`. `WireInv` says what is on the
wire at each place of each callback and of the TLS exchange: the rest of one of
the answers the peer may give (`Cut`), all of it unless the connection was reset
(`InPlace`, `InStep`), and how far the child may come with a callback that has not
returned 1 (`Passage`). It yields `NoDataBeforeGrant`, `TunnelIsAligned`, and,
with `DateInv`, `DateIsExact`: what is in the buffer is a beginning of a reply, and
a beginning in which the date's line ends has the whole date. `ClockInv` relates
the time in `result`, `time_map` and the round trip to the true time; it gives
`ClockIsClose` for every tick rate, round-trip limit, jump and set of false times.
Hypothesis: the exchange takes place less than a century after 1970, as the code
reads a year of two digits.

**ServiceProofs.** The refinement: `SetterImplementsService` says that
`SetterService` implements `TimeService`. The initial states map to initial
states, and under `SetterInv` and `ServingOK` every step maps to a step or to
none. `ServingOK` says that a time being served is not 0 and has lost its sign,
so that the word it came from can be told from it and the mapping's queue has
the client's words in it, and that a coprocess about to end has a reason for it,
which the abstract service reports.

**CrosProofs.** `IInv` = `TypeOK`, `OneRequest`, `SerialOpen`, `StaleGoes`.
`SerialOpen` (while the serial is 0 there is neither a call nor a reply) is what
makes a new call the only one; `StaleGoes` (a proxy that has been used is
forgotten before `E_TLSDATE` can come) is what `FreshProxy` needs at a launch.
Results: `TypeCorrect`, `OneRequestAtATime`, `NoStaleProxy`, for every set of
faults, every number of tries and every bound on browser and bus.

Only model-checked: everything about liveness, as fairness is out of the prover's
reach (`OrphanExits`, `ChildReaped`, `KeepsTrying`, `DesyncNoticed`,
`ShutdownCompletes`, `CloseEnds`, `ResolvingEnds`, `PendingClears`). Every safety
property that a passing run checks is also stated by a theorem, under the
hypotheses given here.

## Plan

1. (done) TimeSetter, SetterService, Tlsdated; their runs; SetterProofs and
   TlsdatedProofs.
2. (done) TimeService and the refinement, run and proof.
3. (done) CrosResolver, its run and CrosProofs.
4. (done) Config, ProxyBio and TlsdateHelper with two runs.
5. (done) Proofs of every safety property of the daemon, the helper, the proxy
   BIO and the configuration: LoopProofs, BeliefProofs, HelperProofs,
   ExchangeProofs.

The suite is kept to a dozen runs, one for each question.
