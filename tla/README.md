# ferryman: TLA+ models and proofs

ferryman is an L7 reverse proxy: it matches a request's path against a table of
routes, forwards the request to the route's upstream, and keeps a circuit
breaker per upstream. This directory models its stateful parts in TLA+, checks
them with TLC on small instances, and proves with TLAPS, for all instances, every
safety property of the runs: of the circuit breaker, the route table, its paths and
its reloads, the request and its headers, serving and shutdown. `PROJECT.json` maps
every definition to the lines it models and lists the runs, the mutants that show
each property can fail, the hazards and the theorems.

Running it, from this directory:

    tlc -workers 2 -config breaker.cfg MCBreaker     # a run: <name>.cfg and its MC module
    tlapm BreakerProofs.tla                          # the proofs of a *Proofs module

## 1. The system

### Parts, their state, their operations

| part | source | state | operations |
|---|---|---|---|
| circuit breaker | `core/breaker.rs` | six atomics (state, failure count, two stamps, two settings) and two gauges | `try_acquire`, `release`, `record_success`, `record_failure`, `reconfigure`, `set_gauges` |
| health checks | `core/health.rs` | the table of the round, the ticker | one round: publish gauges, probe every upstream, report with a `Probe` ticket |
| route table | `core/route.rs`, `core/path.rs` | immutable table behind an `ArcSwap` | `lookup`, `normalize`, `stripped_path`, `bad_path`, `ambiguous_route` |
| configuration | `core/config.rs`, `core/error.rs` | the previous table's upstreams | `build_table`: validate, then construct, reusing breakers |
| trusted proxies | `core/proxies.rs` | none | CIDR parsing and matching |
| headers | `server/proxy.rs` | the head of a request and of its answer | request id, Host check, hop-by-hop, Host, prefix, forwarding headers |
| proxy handler | `server/proxy.rs` | ticket, timer, `BodyState` atomics | `handle_core`, `RequestBody::poll_frame` |
| accept loop, shutdown | `server/lib.rs`, `server/main.rs` | listener, connections, draining flag | accept, handshake, deadlines, drain, signals |
| hot reload | `server/reload.rs` | `seen` digests under a mutex, the live table, a channel of events | watch thread, SIGHUP task, `Reloader::reload` |
| TLS | `server/tls.rs` | the certificate in use | load, swap |
| admin, systemd | `server/admin.rs`, `server/sd_notify.rs` | the draining flag, the unit's state | `/readyz`, READY, RELOADING, STOPPING |
| embedding | `examples/embedded` | tasks, listeners, a shutdown flag | `start`, `Running::shutdown`, a guarded client |

### How they interact, and what is hard about it

- Request handlers, health checks and reloads use one breaker without a lock.
  Each operation is several atomic accesses, and decides on values that may be
  old when it acts. A ticket may also be lost with its handler.
- A reload builds a new table while requests hold the old one. Both must use the
  same breaker for an upstream. A config that is refused must leave no trace,
  although the breakers it would have retuned are live.
- The files of a reload are read one by one, some of them twice, while an
  operator edits them. Two threads reload.
- The handler must tell a slow client from a slow upstream, out of two flags, two
  stall stamps and three timers that two tasks share.
- Startup and shutdown interleave with SIGHUP, with a second signal, with failing
  accepts and with clients that never finish.
- A path has many spellings, and an upstream may read it differently from the proxy.
- Proxies stand behind proxies. Each reads headers that strangers and trusted
  proxies wrote together, and adds its own.
- Upstreams come and go by reloads while calls and health rounds still hold the
  breakers of the old table, and all of them write gauges under the same names.
- An application that embeds the proxy has to get all its tasks back, in the time
  it was promised, while clients hold connections and the config is reloaded.

## 2. The modules

| module | models | kind |
|---|---|---|
| `Breaker` | the breaker, one step per atomic access or clock reading | core specification |
| `BreakerTimely` | `Breaker` when a call takes at most `MaxStall` ms | restriction, with two ghosts |
| `Circuit` | what the breaker promises: one step per call | abstract specification |
| `BreakerSequential` | `Breaker` when calls do not overlap, with its mapping to `Circuit` | refinement |
| `Paths` | `normalize`, `prefix_matches`, `bad_path` on sequences of characters | algorithms |
| `Routing` | `lookup`, `stripped_path`, `ambiguous_route` against a meaning of paths | algorithms and reference |
| `BuildTable` | `build_table`, step by step, against a declarative `Accepts` | algorithm and reference |
| `Reload` | `Reloader`, watch thread, SIGHUP task, startup, certificate swap | state machine |
| `Request` | one request: handler, timer, body, client, upstream | state machine |
| `Serve` | startup, accept loop, connections, signals, drain | state machine |
| `TrustedProxies` | `parse` and `contains` with masks, against `Covers` by leading bits | algorithms and reference |
| `Forwarding` | one request and its answer along a chain of proxies | state machine, with the journey as a ghost |
| `Upstreams` | health rounds, calls, reloads and gauges over several upstreams | composition of breakers |
| `Embedded` | `start`, its tasks and `Running::shutdown`, with time | state machine |
| `*Proofs` | theorems about the module they are named after; `BreakerProofs` also about `BreakerTimely` and `BreakerSequential`, `ServeProofs` about `Embedded`, `ReloadProofs` about `Circuit`, `ForwardingProofs` about `TrustedProxies`; `PathsProofs` has the lemmas for `RoutingProofs` | proofs |
| `MC*` | the constants of the runs | instances |

### Breaker

Variables are the fields of `CircuitBreaker` (`state`, `failures`, `openedAt`,
`rearmedAt`, `cooldown`, `threshold`), the gauges, the clock `now`, and for each
thread its next access `pc`, its `ticket` and the locals of its call. A thread is
a request handler (or the embedding example's guarded client, which makes the same calls),
a health check or a reload. An operation is a chain of
actions: `try_acquire` is `TryAcquire`, `ClaimLoad`, `ClaimClock`, `ClaimCheck`,
`ClaimCas`, `HalfCas`; `release` is `Release` to `ReleaseArm`; `record_success`
is `RecordSuccess` to `SuccessReset`; `record_failure` is `RecordFailure` to
`FailureCas`; `set_gauges` is `GaugeLoad` to `GaugeAlive`. Atomics are taken as
sequentially consistent, and the clock as one clock for all threads.

`Circuit` keeps ages, capped at `Cap`, in place of stamps, so its state space is
finite without stopping the clock; this is what makes its liveness properties
meaningful. `BreakerSequential` maps a call to one step of `Circuit`, taken at
the call's first store.

### Reload

Each read of a file is a step. Startup is the steps of `main` up to the watch, which may
fail and end the program (`MainWatchFails`). A digest is the bytes it was taken of. A config
is a record of whether `build_table` accepts it and of the cooldown it gives each
upstream. A setup says whether the config is in a file, whether TLS is on, and how
often the files are edited. The
ghost `kinds` remembers the kinds of edit made: "early" between the load of a
file and its first digest, "back" to an older certificate or key. Time is not
counted: the debounce ends when the channel is empty or `MaxPolls` events have
been taken, which stands for `MAX_COALESCE`.

### Request

One request, in the streaming or the legacy form, chosen in `Init`. Two tasks work on
it: the handler with its timer (`handler`) and hyper's connection task, which polls the
body (`poll`). They share the atomics of `BodyState`, and each access is a step of its
own: `poll_frame` is `PollBegin`, then `PollFrame` or `PollOver` with `StallMax` (the two
atomics of `stall_ended`) and `PollReturn`, or `PollPending` and `PollWait`; a window of
the timer is `TimerSwap` and `TimerLoad`; `client_stalled` is `LoadSince` and
`LoadLongest`. The steps of the two tasks interleave freely, but no time passes while a
task runs. The timers count down in ticks. The client sends, pauses, ends or breaks off
at will; the upstream reads, answers, fails or does nothing at will; hyper is a buffer of
`Buffer` frames between the two. Ghosts hold the truth that the code estimates: how long
it has been the upstream's move (`turn`) and how long the client has kept the upload
waiting (`truth`).

### Serve

`main` walks through the stages of startup and shutdown. Each connection goes
through handshake, first request, idle and busy. The timers (handshake, first
request, delay, drain, back-off) may run out at any moment.

### BuildTable, Paths and Routing

`BuildTable` validates the globals, then one route per step, then constructs one
route per step. `Accepts` says which configs are sound without an order.
`Routing` lets a path grow by one unit (a byte or an escape) at a time. A unit
carries its raw characters and its meaning, so `MostSpecific` can define the
right route by meaning alone. In `BuildTable` a path is a sequence of characters, of
which `"space"` stands for any that a `PathAndQuery` does not parse with, and `"utf8"` for
any that is not ASCII.

### Forwarding and TrustedProxies

A request leaves a client with arbitrary headers and crosses up to `MaxHops`
proxies, each with its own settings; then the answer goes back. `Forward` is all that
`handle_core` does to the head of a request, in its order: request id, Host check,
upgrade, hop-by-hop headers, cookies, Host, `apply_forwarded_headers`, prefix.
`Refuse` is its early returns: it may happen to any request, since routes, breakers and
upgrades are other modules' business (a CONNECT is only ever refused). `Return` is its
treatment of the answer. The settings of the proxies differ in everything but
`trusted_proxies`, which they are assumed to share: a chain whose members trust
different ranges agrees on no edge. A header map is
a function from names to values, with as many lines and list elements as the code
tells apart; of `x-forwarded-for` that is the visible entries and how many of them come
before the last line that is not visible ASCII, where the walk from the right ends. The
ghost `via` records who really connected to each proxy, how, and
asking for what. The *edge* is the last proxy that was reached from outside
`trusted_proxies`. A route's prefix may be any path, also one with a comma, which the next
proxy to strip a prefix does not take for plain and does not carry on; `Obscures` says at
which hops that happens. The widths of addresses are constants, so that every address can
be enumerated.

### Upstreams

Several breakers, each taken with one step per call as in `Circuit`, and everyone who
uses them: the health loop with its tick, its table of the round and its probes; calls
by request handlers, each of which reports on the breaker that admitted it; reloads that drop an upstream and bring it back with a new breaker; and the
exporter, which drops a gauge that nobody wrote for three intervals. A cooldown is
over when it likes.

### Embedded

`start` is a sequence of steps that may fail, then it spawns four tasks. `shutdown`
sets the flag, aborts the health task, and awaits the others one by one under a single
deadline. Time passes in seconds and only when no task has anything to do, so that a
property can say "in time". After an accept that failed `serve` sleeps for 100 ms without
polling its shutdown future; the model takes a whole second for it, and bounds how often
it happens to fewer than the margin's seconds (`MaxFails`).

### Sum modules

`MCServe`, `MCBuildTable` and `MCRouting` each hold two or three systems that do not
interact (`MCServe`: `Serve`, `Embedded` and `Circuit`). A behaviour is about one of them
while the others stand still.

## 3. The runs

States are distinct states.

| run | instance | states | checks |
|---|---|---|---|
| `breaker` | handler, health check, reload, gauges, 1 ms | 729,534 | `GaugesConverge`, `HealthChecksCloseTheCircuit` |
| `breaker_races` | 2 handlers, cooldown 3, 6 ms, calls of up to 2 ms | 994,436 | `NoStampAheadOfClock`, `OnlyProbesMoveAnOpenCircuit`, `SlotsAreACooldownApart`, `RearmsAreACooldownApart`, `ProbesAreACooldownApart` |
| `breaker_sequential` | 2 handlers, health check, reload, 2 tunings, 5 ms | 232,212 | `ImplementsCircuit` |
| `build_table` | all configs of up to 3 routes out of a set of sound and odd ones; 2 upstreams, 1 call, 2 reloads among 3 tables | 354,511 | `AcceptsExactlyTheSound`, `RejectionHasNoEffect`, `BreakersAreShared`; `VerdictFollows`, `MetricsTellTheTruth` |
| `reload` | 3 configs and 3 edits of the config, or 2 certificates and 2 edits; 1 request | 142,150 | `ResultsReachTheLiveBreaker`, `LiveBreakersAreTuned`, `ConfigIsServed`, `CertificateIsServed`, `SighupServesTheFiles` |
| `request` | 2 frames, buffer 1, timeouts 2, 4 and 5 | 485,942 | `TimeoutIsTheUpstreamsUnlessRaced`, `StalledClientIsNoEvidence`, `IdleTimeoutIsTheClients`, `EveryTicketIsSettled`, `EveryRequestEnds` |
| `serve` | 3 TLS connections; an embedded proxy with 2 clients and 3 settings; a circuit with 2 handlers, a health check and 2 tunings | 59,561 | `ServeTypeOK`, `ReadyzMeansAccepting`, `OnlyShutdownCuts`, `SignalEndsTheProcess`; `ShutdownIsOrderly`, `ShutdownStopsEverything`; `ClosedBelowThreshold`, `CircuitIsNeverStuck`, `HealthyUpstreamIsRestored` |
| `routing` | all paths of up to 5 units, 3 prefixes; any 2 of 24 headers from 4 clients, chains of up to 3 of 5 proxies | 179,543 | `RoutedByMeaning`, `UpstreamsAgree`, `StripLeavesTheRest`; `TrustIsByRange`, `OriginIsTheEdges`, `TargetIsRecoverable`, `ForwardedIsTheJourney`, `OneRequestId` |

What they show, in short:

- **Breaker.** However handlers race, a probe window has one winner and re-arms
  are a cooldown apart. Late results of ordinary requests never move an open
  circuit. If calls take at most `MaxStall` ms, probes are a cooldown (the one the
  later claim read) less that time apart in real time, unless one was handed back. Passing health checks
  close the circuit without traffic. A stale gauge is repaired.
- **Circuit.** A circuit is never stuck: failing health checks do not starve the probe,
  and a lost probe is replaced. An upstream that answers its probes is closed again.
  `ClosedBelowThreshold` is about *some* configured threshold: a reload may lower
  the threshold below the current count.
- **BuildTable.** It accepts exactly the sound configs, a refusal has no effect on
  the previous tuning, and routes to one upstream share a breaker.
- **Reload.** A good config that stays is served, even in a busy directory. A
  request's result reaches the live breaker over any reloads, unless its upstream
  was dropped. SIGHUP serves the files whatever the watch saw.
- **Request.** A timeout counts against the upstream only when it was its move for
  a whole timeout, but for one race (`finding_timer_race`). While the time for the whole
  upload lasts, a 408 goes only to a client that kept a willing upstream waiting for the
  idle timeout. (The deadline for the whole upload does not ask who was slow: an upstream
  that reads slowly can use it up, and the client gets the 408.) A stalled client's bad
  answer is not evidence against the upstream. Every request ends.
- **Upstreams.** An upstream that stays bad is shut off and one that stays well is let
  through, for good, although a hung neighbour holds up the rounds and reloads replace
  breakers under calls in flight. In the end the gauges are those of the live table.
- **Serve.** `/readyz` is 200 only while the proxy accepts. Connections are cut only
  by the end of the drain or a second signal. A signal ends the process.
- **Embedded.** A failed start leaves nothing behind. A shutdown ends every task in the
  time that was promised, and returns even when clients and reloads work against it.
- **Routing.** Spelling does not change the route. An admitted path is read alike by
  an upstream that decodes separators and one that drops parameters.
- **Forwarding.** Whatever the client wrote, and however the proxies are configured apart
  from the ranges they trust together, the upstream reads the address, scheme, path and
  host that the edge saw, a `Forwarded` list that is the journey since then, and one
  request id that also comes back. With one exception: when a proxy since the edge strips a
  prefix that is not plain, and another strips one after it, the path is the one that a
  proxy behind the first was asked for.

### The bounds, and why they are enough

- `breaker_races`: a cooldown of 3 and calls of up to 2 ms leave room for a call to
  be overtaken by other calls and the clock; 6 ms hold two windows and a re-arm.
  Its two handlers are symmetric. The theorems lift the bounds on threads and time,
  and add health checks and reloads, for all of its properties.
- `breaker`: with a cooldown and a threshold of 1, all transitions happen in 1 ms.
  The clock then stops, but the liveness properties of this run do not need it:
  a health check reports whatever the clock says. Liveness that needs time is
  checked of `Circuit`, where time never stops.
- `serve`, circuit: `Cap` is beyond every cooldown, so no comparison is affected by it.
- `build_table`: a conflict involves two routes. The third shows that it is found
  wherever it stands.
- `reload`: three edits of the config allow good, bad and good again; two edits
  replace a certificate and its key one after the other. The two setups, config alone and TLS
  alone, are explored separately: in `reload` the two halves share only the mutex.
- `request`: timeouts are pairwise different. The idle timeout holds two windows of the
  timer, and the total one ends within neither. `Theta` is two ticks: it is reached by one
  long stall but not by a pause of one tick. Two frames give a pause before, between and
  after data, and a full buffer. The theorems lift all of these bounds.
- `serve`: three connections can be in three different stages. Plain connections
  are those whose handshake is over at once.
- `routing`: five units hold a prefix, a separator and an escape, in all orders.
  In a chain of three a proxy reads what another wrote after reading a third one's
  headers. Headers are combined in pairs: the code judges each by
  itself, or together with `Connection`, `Host` or the peer's address. Addresses have 2 and 3 bits: every
  entry that parses meets every address, at /0, at full length and mapped. The theorems
  lift all of these bounds but the set of units.
- `build_table`, upstreams: two reloads drop an upstream and bring it back; one call
  can hold its old breaker meanwhile. The threshold is 2. A probe
  timeout of 2 and an interval of 1 second is the tightest case the code allows for
  the gauges' timeout of three intervals.
- `serve`, embedded: the settings have a drain longer and shorter than the delay, and
  no delay; a reload can change from any to any. A margin of 2 leaves room for one accept
  that fails. The theorem lifts these bounds.

Deadlock is checked for the breaker, which never stops. The other
systems may stop: the request ends, the process exits, all edits are made.

### Fairness

- `Breaker`: the health loop runs for ever, and a probe reports because it has a
  timeout. No handler and no reload need take a step, or finish a call it began.
- `Circuit`: time passes, requests end, and requests keep coming, since a circuit
  is only probed by traffic. Health checks need not run.
  `HealthyUpstreamIsRestored` has the upstream's good health as a hypothesis in the
  formula, not in the specification.
- `Reload`: the threads are scheduled. The mutex is got in the end (strong
  fairness): its critical sections are finite and rare. Nobody need edit.
- `Request`: woken tasks run. Time passes however often the body is polled without need
  (strong fairness of `Tick`). Whenever the handler runs, its `select!` looks at the result
  as well, so the timer's windows do not keep it from a result for ever (strong fairness of
  the answer). Client and upstream owe nothing.
- `Serve`: timers elapse. `tokio::select!` polls its branches in random order, so a
  shutdown that keeps being ready is taken (strong fairness).
- `Upstreams`: time passes, the health task runs, probes and calls end (both have
  timeouts). Nobody need call, reload, fail or recover.
- `Embedded`: the runtime runs its tasks and time passes. Clients need not disconnect.

### Where the code and its documentation part

Each of these is a run that TLC must refute.

- `finding_normal_ticket`: on a lost transition `try_acquire` gives an ordinary
  ticket because "Someone closed the circuit meanwhile" (`breaker.rs:295`). It can also
  have been lost to another probe, which won the slot, made the circuit half-open and
  handed the slot back, all after the caller had read that the circuit is open. The caller
  then wins the slot again, and gets an ordinary ticket in a half-open circuit.
- `finding_timer_race`: "A client that is merely slow is left to the body's own idle/total
  deadlines (408)." (`proxy.rs:653`). At the end of a window the timer asks with two
  atomics, `polled` and then `waiting_on_client`. If the client was waited for all through
  the window and its frame is read between the two, both say no: the answer is 504, and a
  failure is counted against an upstream that was waiting for data.
- `finding_startup_edit`: the watch starts with a reload to "Catch an edit made
  between the initial load and the watch start" (`reload.rs:143`). An edit between
  the load in `main` and the digest in `Reloader::new` is taken for loaded.
- `finding_early_ready`: "ferryman sends READY=1 once the proxy and admin listeners
  are bound" (`ferryman.service:8`). A SIGHUP during startup makes the SIGHUP task
  send it before.

### Further observations

These were met while modelling. They have no run of their own; where a property
has to allow for one, its comment says so.

- Two failing threads can leave an older stamp on an open circuit than the later of
  the two read (`breaker.rs:391`, `docs/architecture.md:133`). The next probe is
  early by at most the delay (`ProbesAreACooldownApart`).
- A re-arm cannot tell two stamps of the same millisecond apart, so it can undo a
  concurrent restamp (`breaker.rs:353`). The cap on re-arms bounds the effect.
- `set_gauges` loads and stores in two steps and can leave an old value
  (`breaker.rs:437`) until the next round (`GaugesConverge`).
- Certificate and key are read once for the digest and again to load them
  (`reload.rs:101`), so going back to an old pair can be missed.
  `CertificateIsServed` excludes that.
- `client_stalled` between the two atomics of `stall_ended` sees neither stall
  (`proxy.rs:78`). `StalledClientIsNoEvidence` allows for it.
- The deadline for the whole upload answers 408 also when the upstream was slow to read
  (`proxy.rs` `poll_frame`). `IdleTimeoutIsTheClients` is about the time before it.
- A timeout of the legacy handler that is not counted leaves its ticket unsettled
  (`proxy.rs:674`). `EveryTicketIsSettled` excepts it.
- A SIGHUP during shutdown sends READY=1 after STOPPING=1 (`main.rs:209`).
- A second signal before `second_signal` listens again is lost (`main.rs:264`).
- `Running::shutdown` says that the health task is "never still running in the
  background" (`examples/embedded/src/lib.rs:342`), but does not await its abort; a probe
  under way can outlive the return by a moment. Connection tasks that outlast the drain
  outlive it as well. `ShutdownStopsEverything` is about the four tasks, in the end.
- The deadline of an embedded shutdown is fixed when it begins, while delay and drain
  are read when they begin (`examples/embedded/src/lib.rs:349`, `server/lib.rs:178`). A
  reload in between can make the proxy miss the deadline (`reloaded` in
  `ShutdownIsOrderly`).
- `book/src/operations.md:33` says that an invalid `$PORT` is ignored with a warning;
  `main.rs:84` refuses to start.

## 4. The proofs

All are proved for every value of the constants that the named assumptions allow.

| module | theorem | property |
|---|---|---|
| `BreakerProofs` | `TypeCorrectness` | `TypeOK` |
| | `StampsBehindClock` | `NoStampAheadOfClock` |
| | `ProbeSlotsApart` | `SlotsAreACooldownApart` |
| | `RearmsApart` | `RearmsAreACooldownApart` |
| | `ProbesMoveTheCircuit` | `OnlyProbesMoveAnOpenCircuit` |
| | `ProbesApartInRealTime` | `ProbesAreACooldownApart` |
| | `SequentialRefinement` | `ImplementsCircuit` |
| `RequestProofs` | `TimeoutsAreTheUpstreamsUnlessRaced` | `TimeoutIsTheUpstreamsUnlessRaced` |
| | `StallsExcuseTheUpstream` | `StalledClientIsNoEvidence` |
| | `IdleTimeoutsAreTheClients` | `IdleTimeoutIsTheClients` |
| | `TicketsAreSettled` | `EveryTicketIsSettled` |
| `ServeProofs` | `WatchedMeansOpen` | `ServeTypeOK` |
| | `ReadinessIsHonest` | `ReadyzMeansAccepting` |
| | `CutsAreExplained` | `OnlyShutdownCuts` |
| | `OrderlyShutdown` | `ShutdownIsOrderly` |
| `BuildTableProofs` | `SoundConfigsAreAccepted` | `AcceptsExactlyTheSound` |
| | `RejectionIsHarmless` | `RejectionHasNoEffect` |
| | `OneBreakerPerUpstream` | `BreakersAreShared` |
| | `TableIsInLookupOrder` | the table is in the order that `lookup` relies on |
| `ReloadProofs` | `ResultsAreNotStranded` | `ResultsReachTheLiveBreaker` |
| | `BreakersFollowTheConfig` | `LiveBreakersAreTuned` |
| | `ThresholdOpens` | `ClosedBelowThreshold` |
| `ForwardingProofs` | `OneId` | `OneRequestId` |
| | `TargetRecoverable` | `TargetIsRecoverable` |
| | `ForwardedTellsTheJourney` | `ForwardedIsTheJourney` |
| | `OriginTold` | `OriginIsTheEdges` |
| | `TrustByRange` | `TrustIsByRange` |
| `RoutingProofs` | `RoutedByItsMeaning` | `RoutedByMeaning` |
| | `StripsTheRest` | `StripLeavesTheRest` |
| | `AllReadersAgree` | `UpstreamsAgree` |

### Breaker

For any sets of handlers, health checks and reloads and any clock bound.
Assumptions: `ConfigsAssumption` (cooldowns and thresholds are at least 1, which
`build_table` ensures) and `ConstantsAssumption` (the types of the constants).

The inductive invariant `IInv` has two parts. `SharedInv` says of the atomics that
they have their types, that the cooldown in force was configured, and that no stamp
is ahead of the clock. `Knows` says for each label what a thread there has already
established about its locals: at the exchange of a claim, that a cooldown has passed
since the stamp it loaded; at the cap of a release, the same of the last re-arm; in
the steps that close or re-open a circuit, that it holds a `Probe` ticket. None of
the properties is inductive without `Knows`: the exchange that wins a slot checks
only that the stamp is unchanged, and the cooldown was compared two steps earlier.

The lemma `ThreadStep` reduces a step of one thread to the shared part and that
thread's own new label, ticket and locals, since no property of the locals mentions
another thread. Then there is one lemma per operation with a step per action. The
action properties follow from `IInv` and from `WhoWrites`, which names
the few steps that can change the variable.

*In real time* (`StallAssumption`: `MaxStall` is a natural number). The comparison is
between stamps, the property about the clock. `TimelyInv` ties the two: a call is at most
`MaxStall` old, what it read from the clock it read since it began, and the last slot was
won at most `MaxStall` after the stamp in force. The last fact needs that a store of the
stamp is dated since its call began, which is where the bound on a call enters.

### BreakerSequential

`SequentialSpec` implements `Circuit`, for any users and reloads and every `Cap` beyond
the cooldowns (`SequentialAssumption`). `SequentialInv` adds to `IInv` that one thread at
most is inside a call, who may be at which label with which ticket (`Belongs`), and that
what the thread has read is still so (`Fresh`); this last one is what overlapping calls
would break. `MapIsLocal` reduces the mapped state, which quantifies over all threads, to
the label and the locals of the thread inside the call. Then there is one lemma per
access: it is the step of `Circuit` for that call (at the first store whose effect others
can see), or leaves the mapped state as it is. Ages are stamps seen from the clock and
capped; `SameAges`, `RearmAges` and `RearmedAge` compare them.

### Request

For any timeouts of at least one tick, any buffer and bodies of any length
(`TimeoutsAssumption`). The properties are about ghosts (whose move it was, how long the
client was waited for), the code decides by timers and stall stamps, and `RInv` ties the
two together: `TurnInv` says that what has run off the timer has been the upstream's
move, unless the body was polled or the client is waited for; `StallInv` that the longest
wait is in one of the three places the code keeps stalls in, also for a handler that has
loaded one of them; `IdleInv` that the idle timeout runs only while the client is waited
for. No property is inductive without them, since the handler's verdict is about time
that has passed. `PollInv` says what a poll that is under way has found, and that a window
which began before it knows of it: this is what confines the race of
`finding_timer_race` to the last step of a silent window, the one exception the theorem
makes. There is one lemma per action.

### Serve

For any number of connections, with or without TLS (`ServeAssumption`). `SInv` adds that
nothing is accepted before `serve` runs, which excuses a failing startup, and that
readiness is withdrawn before the delay begins.

### Embedded

For any delays, drains and clients, and any margin that is longer than the accepts which
fail can take (`EmbeddedAssumption`). `Phases` says what each task may be doing in each phase of the
application. `InTime` is the heart: unless a reload interfered, the deadline leaves the
proxy what it `Needs` (delay and drain that are still to come) plus what is left of the
margin after the back-offs so far, and the other tasks end before any time passes.

### BuildTable

For any set of configs, with any number of routes, and any previous table. Assumptions:
`PreviousAssumption` (the previous table is one that `build_table` made: finite, one
breaker per name, breakers numbered from 1) and `RoutesAssumption` (the routes are a
sequence, a prefix has a length). What `Normalize` computes is not used.

`BuildInv` says what each loop has done up to the route at hand. While validating: the
routes seen are sound and agree pairwise, and the three maps hold exactly what they said.
While constructing: the config is accepted, every route so far is in the table with its
upstream, upstreams and breakers are one to one, old ones kept, and the breakers handed
out carry the config's tuning. The theorems are its conjuncts at the end.
`RouteChecksOk` turns the ordered list of checks into a conjunction; `RankIsAPermutation`
shows that the sort of `RouteTable::new` permutes the routes, longest prefix first.

### Reload

For any configs, any number of edits and of requests or checks that hold a breaker
(`ReloadAssumption`: an upstream is a number, a config has finitely many, and one config is
good). `ReloadInv` says that the steps of a reload run under the mutex, that a table about
to be stored has a breaker of its own for each upstream, shared with the live table where
both have it, and that breakers are tuned as the live table says unless a reload stands
just before its store: `build_table` retunes live breakers before the table is swapped,
and only the mutex keeps that from being seen between reloads.

### Circuit (at the end of `ReloadProofs`)

For any users and any configurations within `CapAssumption` (a cooldown is at most
`Cap`, a threshold at least 1). `CInv` adds to the property that the settings in force
are a configuration: a failure compares the count with the threshold in force, and the
property speaks of `Configs`.

### Forwarding

For any requests, proxies and answers, and chains of any length. Assumptions:
`WidthsAssumption` (the widths of addresses) and `JourneyAssumption`: a header that is
present has lines, addresses are addresses, paths are sequences, and a name in its
canonical spelling is nobody's other spelling. Nothing is assumed of what the client
claims in these headers.

Three invariants build on one another. `IdInv`: once a proxy has settled an id, the request
has one line with it, and so has every later hop; `Stripped` is why nothing in
`Connection` takes it away. `JourneyInv`: seen from every hop that is the edge, the prefix
header followed by the path is the path it was asked for, or one behind a hop that
`Obscures`; and where no hop has, the header is plain, so the next proxy carries it on
(`PathBack`). Host is its host (`HostBack`), and the `Forwarded` list is the hops since then in order (`ListBack`). It is
stated of the edge so far, since the next stranger makes a new edge and the headers start
anew; after the first hop it needs that no `Connection` is left and that the target has
no authority. `OriginInv`: the walk of `x-forwarded-for` from the right past the
trusted addresses ends at the edge's peer (`WalkFinds`), in either mode, and the other
headers name its address and scheme or are absent. The append mode keeps it because a
trusted proxy adds an address that the next walk passes over, the replace mode because
what it writes is the address that its own walk found. Then there is one lemma per action
that matters and per header: what leaves a proxy (`Sent`, `SentOrigin`) in terms of what
came in.

The last three need `TrustIsByRange`, since the walk and the list rely on what
`contains` holds of; they are first proved from it (`TargetGivenTrust`,
`JourneyGivenTrust`, `OriginGivenTrust`).

### TrustedProxies (at the end of `ForwardingProofs`)

For any widths of addresses (`WidthsAssumption`). The code masks bits, `Covers` compares
leading bits, and both are arithmetic on powers of two, which the prover does not know:
`Pow2` is a recursive function and its laws are proved by induction. `MaskBits` says which
bits the mask has, at every prefix length and at either width; `EqualBits` that numbers
with the same bits from `k` on have the same quotient by `Pow2[k]`, by induction
downwards from the top bit. `NormaliseKeeps` and `ParseKeeps` say that a mapped address and its plain
form have the same bits, and that parsing a mapped entry moves its length along.
`TrustContainsIsCovers` puts them together.

### Routing

For every table in the order that `lookup` relies on (`RoutingAssumption`: prefixes begin
with a slash, are canonical and distinct, longest first; `config.rs` refuses others, and
`TableIsInLookupOrder` proves it of the tables that `build_table` makes) and for paths of
any length out of the ten units.

*Induction over data.* The algorithms scan a path recursively. Of the library's induction
theorems the ones about operators cannot be used here, but the one about sets can: a
non-empty set of numbers has a least element (`LeastNatural`). `SetInduction`, `RankInduction` and
`DownInduction` follow, and `Recursion` for functions that call themselves further to
the right. `PathsProofs` uses them to show what `normalize` and `bad_path` make of a path
that is put together from a left and a right part, which is what a step of the
specification does to it. The obstacle is that an escape may be cut in two: `Complete`
says of a path that none is, and `Word` of a piece that it is read on its own.

*By meaning.* `SpellingInv` says that no escape of the path is cut short and that it
normalises to its canonical spelling. Doubled slashes are why it also has to say that
both end in a slash or neither does. `LookupIs` shows that the first match in the table is
the most specific one.

*What follows the prefix.* `stripped_path` refuses a remainder that is bad, so a path that
was let through must never have one. But `bad_path_normalized` judges the canonical
spelling only where there is an escape. `PiecesInv` compares the spellings piece by piece
between separators: a path without escapes has every dot segment of its canonical
spelling, and what an upstream reads has none that the canonical spelling has not.
`StripsExactly` shows that the pieces of a remainder are pieces of the path.

*All readers.* `ReadersInv` says that two of the four readings that `ambiguous_route`
compares are what the two kinds of upstream make of the path: flattened and then
stripped, or stripped and then flattened. `PlainInv` covers the paths it does not look
at: where nothing is suspicious, every reader sees the canonical path. Both lean on
`PiecesInv` for dot segments: a reading has one only if the canonical path has.

### Only model-checked

Liveness: it needs fairness and ENABLED, which the prover does not handle. These are
`GaugesConverge`, `HealthChecksCloseTheCircuit`, `CircuitIsNeverStuck`,
`HealthyUpstreamIsRestored`, `VerdictFollows`, `MetricsTellTheTruth`, `ConfigIsServed`,
`CertificateIsServed`, `SighupServesTheFiles`, `EveryRequestEnds`, `SignalEndsTheProcess`
and `ShutdownStopsEverything`; they include everything about `Upstreams`. Every invariant and every action property that a run
checks is also proved.

## 5. What is not modelled

- Memory orderings weaker than sequential consistency, and wrap-around of the 32-bit
  failure count and the 64-bit clock.
- The access log, counters, the latency histogram and the warning about private peers:
  output that nothing in the program reads.
- How addresses, hosts, ids, URIs and configs are spelled: whether they parse is an input.
- TOML and PEM parsing, rustls, hyper, reqwest, the rendering of `/metrics`, the systemd
  socket: external, or seen only through their result.
- Response bodies (the ticket is settled at the response head).
- The command line with its `check` and `healthcheck` commands: one-shot programs without
  state.
- Tasks of the embedding example that panic, its admin pages, and the demo upstream's
  pages.

## 6. What could follow

1. `Request` composed with `Breaker`: several requests that share a breaker, so that
   blame and tickets meet the state machine at the level of atomics.
2. More units in `Routing`: double escapes and other reserved characters, so that all of
   `suspicious` and `Forbidden` is met by a path.
