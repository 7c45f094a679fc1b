# Heeler in TLA+

Heeler is an NTP server: it answers client requests over UDP with the time of the
host's clock. This directory holds TLA+ models of the parts of it whose correctness
depends on more than one line of code, configurations that check them with TLC on small
instances, and theorems about them whose proofs TLAPS checks.

## The system

| Part | Source | State | Operations |
|---|---|---|---|
| receive loops, one per socket | `server.rs` `recv_loop`, `handle_datagram`, `send_kod` | the datagram in hand | receive, deny, ask the limiter, parse and validate, build, stamp, send |
| housekeeping task | `server.rs` `housekeeping_loop` | tick count | once a second: `check_jump`, gauges; every 30th time a sweep |
| rate limiter | `rate_limit.rs` | table of clients, global bucket, time of the last forced scan (one mutex) | `check`, `sweep`, `active_entries` |
| clock source | `clock.rs` | `synchronised`, `reference`, `jump_state` | `now`, `status`, `reference_timestamp`, `check_jump` |
| timestamps | `timestamp.rs` | none | conversions between instants, 64-bit wire timestamps and system time |
| wire format, validation, answers | `packet.rs`, `validation.rs`, `response.rs` | none | parse, encode, validate, build |
| access control | `access.rs` | rule tables, fixed at start | `evaluate` |
| counters and histogram | `metrics.rs` | relaxed atomics | increments, `observe_build_duration`, `render` |
| metrics endpoint | `metrics.rs` `serve_metrics` | the listener, one task per connection | accept, read with a time limit, render, write, stop |
| configuration | `config.rs`, `main.rs` `load_config` | the settings | defaults, file, environment, arguments, `validate` |
| start-up | `main.rs`, `privilege.rs`, `server.rs` `bind_sockets`, `run_server` | user ids, sockets, loops | validate, bind, drop privileges, spawn |
| shutdown | `shutdown.rs` | one flag | set by a signal, seen by every loop |
| query client | `client.rs` `query` | one exchange | ask, hear, time out; offset and delay |
| packet inspector | `inspect.rs` | none | `decode_hex`, `civil_from_days` |
| load generator | `bench.rs` | | not modelled, see the end |

The loops, the housekeeping task and the metrics endpoint run concurrently on a
multi-threaded runtime. They meet in the limiter's mutex, the clock source's atomics and
mutexes, the counters and the shutdown flag.

What is hard about it, and hard to test:

* `Instant::now()` is evaluated *before* the limiter's mutex is taken, so the limiter sees
  readings out of order as soon as there are two sockets;
* the wall clock may be set at any moment, between any two of the readings the code
  takes: the two of `check_jump`, T2 and T3 of an answer;
* status and reference are read in two steps while housekeeping may change them;
* a dozen return paths of `handle_datagram` and `send_kod` each keep several counters;
* a scrape reads the histogram cell by cell while observations update it cell by cell;
* shutdown must get through although datagrams, or connections to the metrics endpoint,
  keep arriving;
* an answer to `query` may be lost, late, repeated, or belong to an earlier query;
* a setting comes from one of four layers, and some must never come by accident;
* a fixed-point conversion multiplies before it looks at the range;
* privileges are dropped in a sequence of calls each of which may fail.

`PROJECT.json` lists these as hazards, each with the line where it bites and the
properties that would catch it going wrong.

## Modules

| Module | Models | Notes |
|---|---|---|
| `TokenBucket` | `TokenBucket` of `rate_limit.rs` | operators; one unit of time is a nanosecond, `Second = MICRO * NanosPerMicro` of them |
| `RateLimiter` | `check`, `sweep` | a call is two steps: reading the clock (`StartCheck`), and the critical section (`Check...`, one action per return) |
| `RateHistory` | `RateLimiter` plus history: admissions, tokens, rewinds, scans | the history never constrains a step |
| `UseHistory` | `RateLimiter` plus history: when `check` last served each client | real use, which `last_seen` is not: a check that waited stores an old reading |
| `KodHistory` | `RateLimiter` plus history: allowed, limited and kissed requests | |
| `Timestamp` | `timestamp.rs` | operators, with a small era and a small second |
| `SystemClock` | `SystemClockSource` | `check_jump` is two steps, one per clock reading; the wall clock is the monotonic one plus an offset anyone may set |
| `ClockHistory` | `SystemClock` plus history: offsets at the checks | |
| `Packet` | `packet.rs`, `validation.rs`, `response.rs` | a datagram is a record of its fields, with the flag byte and signed bytes kept as bytes |
| `Wire` | what the server sends and who reads it: `to_timestamp` and `unfold` between two clocks, a datagram and the answers to it | a state machine around `Timestamp` and `Packet` |
| `Server` | `server.rs`, `shutdown.rs` | composes `SystemClock`, `Packet` and (by `INSTANCE`) `RateLimiter` |
| `Responder` | nothing: the promise of the server to a client | abstract specification |
| `ServerPromise` | nothing: the refinement mapping from `Server` to `Responder` | `KeepsPromise`: the server implements it |
| `ServerInvariant` | nothing: the inductive invariant of `Server` | |
| `Client` | `query` of `client.rs` | composed with the server as a client sees it and an unreliable network |
| `Inspect` | `decode_hex`, `civil_from_days` | operators, beside reference definitions of the calendar and of hexadecimal text |
| `Metrics` | histogram of `metrics.rs` | one `fetch_add` or load per step; a history counts what was observed |
| `Endpoint` | `serve_metrics` | extends `Metrics`: the task of a connection does the loads |
| `Config` | `config.rs`, the arguments of `main.rs` | operators: sections, defaults, layers, every check of `validate` |
| `Access` | `access.rs` | operators; addresses of any width, for TLC of 2 and 4 bits |
| `Startup` | `load_config`, `check_config`, `serve`, `run`, `bind_sockets`, `drop_privileges`, `run_server` | layer by layer, then one system call per step, each of which may fail |

`MC...` modules give constants their values, and feed inputs to the pure operators. `MCWire`, `MCEndpoint` and `MCStartup` begin from several families of
initial states, one per question, so that the variations of one do not multiply those of
another. `MCRateHistory` and `MCOneLoop` each run two histories of the limiter side by side. `...Proofs` modules
hold theorems, and the inductive invariants they need where those are not in a module of
their own.

`Responder` says what a client may rely on, in terms of a clock that may be set at will, a
trust in it that is never regained, and workers that hold a question or an answer: only
requests are answered, once at most and never at greater length; T2 and T3 are readings
of the clock at receipt and at departure, so T3 precedes T2 only if the clock was set back
in between; a source the rules deny gets a `DENY` kiss or nothing; and an answer that
calls the clock good goes only to datagrams that came while it was trusted. The
refinement mapping of `ServerPromise` reads a loop as a worker: idle at its select, a question until the
transmit timestamp is stamped, then an answer.

In `Server` a loop's step ends where the code touches what another task changes. The
counters are never read by the server, so the increments between two such points are
one step; `Metrics` takes the histogram apart into single atomic operations. Relaxed atomics
are read as interleaved operations, each loop's in program order. The hardware may
reorder further, so the bounds on a torn scrape hold under that reading only.

Definitions whose comment begins with "Mutated form" play no part in a specification.
Each is a plausible mistake in the definition that follows it, and `PROJECT.json` pairs
it with the property that fails when the definition is replaced by it: a property that no
mistake in the code could break would say nothing.

## What TLC checks

| Run | Question | Answer |
|---|---|---|
| `limiter` | With two loops and stale readings: is the table bounded, how soon after its last use is an entry evicted, how often is a full table scanned, how much can the global bucket let through? | yes; not before the time to live less `MaxDelay`; once per elapsed second in all; burst + rate x (elapsed + rewound) |
| `limiter_one_loop` | With one socket: are the documented sustained rates kept, across evictions? Can a stream of limited requests get a stream of kisses? | yes, if entries outlive a refill; no, one in `KOD_INTERVAL` |
| `limiter_two_loops` | Is the global rate kept with two sockets? | no, it is exceeded |
| `wire` | Does a client read the time that was sent, across eras? Is an answer ever answered, or ambiguous? | yes, to a nanosecond; no |
| | Is the offset `query` reports right, whatever the network repeats or delays, and does a query end? | when the origin matched and T3 is there, to half the delay; yes |
| | Is the inspector's date the Gregorian one, over 400-year cycles? Can odd text make `decode_hex` panic or misread? | yes; no |
| `clock` | Does `check_jump` miss jumps, raise false alarms, or let the clock creep? | no, no, and by at most the threshold per check |
| `server_paths` | Does every path count what it does, for each kind of datagram the counters tell apart? Is every client told that the source was given up, and is a denied one refused without a trace? Does the server implement `Responder`? | yes |
| `server_shutdown` | Does the server stop although datagrams keep arriving on two sockets? | yes, under fairness |
| `server_kiss` | Is nothing sent when the clock cannot be read? | no: a kiss is, with a zero T3 |
| `endpoint` | Is the histogram exact when quiet, and nearly so when scraped busy? | yes, off by one per loop |
| | Can one connection hold up another, lose a request to the time limit, or keep the listener from stopping? | no, under fairness |
| `access_exact` | Does an exact deny always win? | no, not one for a mapped address |
| `startup` | Can a loop run with root's user id, another group than the one configured, or the right to low ports after a drop was asked for? Does a start fail without a reason? | no, whichever call fails; no |
| | Can a public bind, a metrics endpoint or a claim to be a primary server come about unasked, through any layers? Can settings pass `validate` under which no request ever passes the limiter? | no; only a global rate with a global burst of 0 |
| | Is the documented precedence of access rules what `evaluate` computes? | yes |
| `config_short` | Are root delay and dispersion announced as configured? | no: a huge value wraps around and is accepted |

Four runs end in a counterexample on purpose. Each states what a comment or a test of the
repository says and shows a behaviour of the code that differs; `PROJECT.json` quotes the
lines under "findings".

* The sustained global rate is exceeded by the rate times what stale readings moved
  `last_refill` back. `MaxDelay`, the time a thread waits between `Instant::now()` and
  the mutex, bounds each such move (`GlobalRateBound` is the rate that is kept).
* `send_kod` answers with a zero transmit timestamp when the clock fails, and does not
  count the failure, where `handle_datagram` drops and counts.
* A deny rule written for an IPv4-mapped IPv6 address never matches, since sources are
  canonicalised and rules are not.
* `from_millis` multiplies by 65536 in `i64` before it checks the range. In a release
  build the product of a root delay beyond `2^63 / 65536` milliseconds can wrap into the range and is then accepted
  as another, small value.

Eight smaller remarks have no run of their own. Both fraction conversions truncate, so a
round trip can lose exactly one nanosecond, where `timestamp.rs:28` says less than one
(`RoundTrip` states the exact bound). And a scrape in the middle of an observation can
show a bucket larger than the next one (`TornByAtMostLoops` states by how much). The
metrics endpoint reads once, so a request that arrives in two segments is answered with
404; `EarlyRequestsAreServed` promises only what had arrived together. And `validate`
accepts a global rate with a global burst of 0, which refuses every request
(`RequestsCanPass` says that this is the only such case). And `from_config` accepts
`RATE` or `DENY` as a reference identifier, so a client can tell a Kiss-o'-Death by its
stratum of 0 only, never by its code; `AnswersAreTold` says that this is enough. A check that
waited for the mutex moves `last_seen` back, so that an entry may be evicted up to `MaxDelay`
before it was idle for its time to live (`EvictedOnlyWhenIdle` states the bound, and fails
without it); in the same way two forced scans may be closer than a second, and
`ForcedScanBound` is a count over the life of the limiter. Finally, `drop_privileges` refuses
a target user 0 but not a target group 0: `NoLoopRunsAsRoot` says that the groups of the
process are the configured one and no other, not that this one differs from root's.

### Bounds

Two loops, two clients and a table of one entry give every order of two calls at a full
table. The limiter's time runs to 4 ticks, more than a time to live of 2
plus the largest delay, 1, so eviction, early eviction after a late check, and re-creation happen. `KOD_INTERVAL` and the modulus
of `limited_count` are small enough that the counter wraps (`U32` stays a multiple of
`KOD_INTERVAL`, as 2^32 is of 8). An era is 4 to 16 seconds of one to
5 nanoseconds, and the instants of `wire` cover three eras. The fraction has as many values as there are
seconds in an era, as in the code (both are `2^32`).

The server has too many parts to vary everything at once. `server_paths` has one loop, every
return path, the limiter, a clock that is set back, jumps and fails, and two requests,
which with two clients beside the denied one, a table for one and a second of two ticks
meet every decision of the limiter; `Responder` is checked there, with answers and kisses
of both kinds. Its datagrams are a request, one too long, one of another version and one
of another mode, one for each counter of rejections; the other ways to be malformed are in
`wire`, and the theorems hold for any datagrams. `server_shutdown` has two loops, a steady clock and the limiter disabled; it
sets `CounterModulus = 1`, which collapses the counters, so that the stream of datagrams
never ends.

`wire` has two queries, enough for an answer to the first to arrive during the second, at
most two datagrams in the network, and clocks on both sides of an era boundary with a skew
of just under half an era; `recv` may overrun its limit by `MaxOvertime`. Its dates
are all days of the years 1600 to 2400, two cycles of the calendar, and its texts all
strings of up to `MaxText` characters over some hexadecimal digits, the
letter of the prefix, a blank and a character of more than one byte. `endpoint` has two
connections that come and go without end, enough for one to be stuck while the other waits,
and three observations by two loops, one more than a scrape may be torn by. `startup`
varies, each in a family of its own, the settings the order of the start-up depends on (with
the users, groups and capabilities of the host, root's group among them, and ports that are
low, high or left to the system), the
layers that can give consent, the other layers, the file, values at the edges of `validate`
two at a time, and tables of up to two access rules (three for IPv4 prefixes).

Bounds of the models are the constants `MaxTime`, `MaxMono`, `MaxDelay`, `MaxReadGap`,
`MaxLimited`, `MaxRequests`, `MaxObservations`,
`MaxQueries`, `MaxInFlight`, `MaxOvertime`, `MaxTicks`, `MaxText` and `MaxInstant`. Of these
`MaxDelay` and `MaxReadGap` also mean something: how long a thread may wait between reading
a clock and using the reading.

### Fairness

`SFairSpec` assumes weak fairness of each loop's own steps and of housekeeping: the
runtime schedules a task that can run, and `send_to` on a UDP socket returns. Nothing is
assumed of arrivals, of time, or of who sets the clock. `ShutdownCompletes` then needs
the `biased` select: without it, a loop whose socket is always readable might
choose to receive for ever.

`EFairness` assumes the same of the endpoint's listener and of the task of each connection.
Peers are obliged to nothing: they may stay silent or never take their answer, and
`ConnectionsEnd` is about the connections of those that do take it. `accept` may fail any
number of times in a row, and is tried again each time, but not for ever: while it does fail
for ever (say, without file descriptors) the code keeps trying and no connection that waits
is served, so `ConnectionsEnd` promises nothing then. `EndpointStops` does not depend on it. `QueriesEnd` assumes
that time passes and that `recv` returns once its limit is over, which the operating
system's read timeout gives; nothing is assumed of the network or the server.

## What is proved

Theorems hold for all values of the constants that satisfy the named assumptions of the
modules: any finite number of clients and loops, any rates, bursts, thresholds and bounds,
any datagrams, any layers of settings, any width of addresses and counters.

| Module | Theorem | Statement |
|---|---|---|
| `RateLimiterProofs` | `TypeCorrect`, `TableIsBounded` | the limiter's type, the table bound |
| `RateHistoryProofs` | `EvictionIsLate` | no entry is evicted before its time to live less `MaxDelay` after its last use |
| | `ForcedScansAreRare` | scans of a full table: `forced * Second <= mono` |
| | `GlobalRateIsBounded` | global bucket, any number of loops |
| | `GlobalRateIsSustained` | global bucket, one loop: the documented rate |
| | `ClientRateIsSustained` | each client, one loop: the documented rate, across evictions |
| | `KodIsThrottled` | kisses per limited request |
| `TimeProofs` | `NeverAFalseAlarm`, `JumpsAreCaught`, `CreepStaysBounded`, `ReferenceIsChecked` | what `check_jump` promises |
| | `TimestampsRoundTrip`, `TimestampsAreInOrder`, `ZeroIsEraStart`, `SystemTimesRoundTrip` | timestamps are read as they were meant, for every length of a second and of an era |
| | `AnswersAreNotAnswered`, `AnswersTell` | the answers to any datagram |
| | `OffsetsAreRight` | `query` reports an offset right to half its delay |
| `ServerLoopProofs` | `ServerRunsTheClock`, `ServerRunsTheLimiter` | every step of the server is a step of `SystemClock`, and of `RateLimiter`, or none |
| | `LoopInvariance` | what a loop holds at each place |
| | `AlarmsAreTold`, `DeniedGetNoService` | no stale claim to be synchronised; nothing for denied sources |
| `ServerProofs` | `ServerKeepsPromise` | `Server` implements `Responder` |
| | `ServerInvariance`, `RequestsAreAccounted`, `RefusalsHaveOneCause`, `ServerTypeCorrect` | the counters add up (the books are in `ServerBookProofs`) |
| | `ServerTableIsBounded` | the limiter's bound, inside the server |
| `StartupProofs` | `LoadInvariance`, `StartInvariance` | settings, rights, sockets and loops at each step of the start-up |
| | `PublicBindHasConsent`, `NothingUnasked` | what takes somebody's asking |
| | `LoopsRunWithoutRoot` | with a drop asked for: no root user id, no right to low ports, the configured group only, inside the configured root directory |
| | `FailuresHaveReasons` | whichever system call fails |
| | `AcceptedServesRequests` | settings that pass `validate` |
| | `TableHasPrecedence`, `RulesMoveOneWay` | access rules, for addresses of any width |
| `ReportProofs` | `MetricsInvariance`, `HistogramIsExact`, `ScrapesAreHardlyTorn` | the histogram, with any number of loops, buckets and scrapes |
| | `DatesFollow`, `CalendarHolds` | `civil_from_days` is the Gregorian calendar, for every day and every year |
| | `HexIsRead` | `decode_hex` reads or refuses a text of any length |

### Assumptions

They are the `ASSUME`s of the modules, which TLC evaluates in the runs. Most say that a
constant has its type. These say more:

* `RateLimiterAssumption`: rates, bursts, time to live and table size are positive when
  the limiter is enabled, which `validate` enforces; `KOD_INTERVAL` divides `U32`, as 8
  divides 2^32. `RateHistoryAssumption`, `UseHistoryAssumption`: the histories are those of an
  enabled limiter.
* `PacketAssumption`: the identity is one that `validate` accepts (stratum 1 to 15, a poll
  of 0 to 17), and the supported versions are 3 and 4 at most.
* `ServerAssumption`, `LimiterAssumption`, `MetricsAssumption`: finitely many loops; the
  server's limiter satisfies the limiter's own assumptions; the bounds of the buckets
  increase, and a single duration fits a counter (the code caps it at `u64::MAX`).
* `StartupAssumption`: a layer gives a setting a value of its type (serde and clap see to
  it), and arguments such as `--metrics` can only switch on.
* `ClientAssumption`: what comes from the server's address without being an answer does not
  claim the server's mode, as nothing the server sends does. `EraAssumption`: no datagram is
  on its way for a whole era of 136 years; one that was would match the origin of a later
  query. `NearSkews`, which is the initial condition of `ClientSpec`: the clocks are less
  than half an era apart, without which no client can tell the era.

### Arguments

* **Limiter.** `IInv` says that readings carried by pending calls and stored in buckets lie
  in the past, that entries exist only when the limiter is enabled, and that the table is
  within its bound. The first is what makes `saturating_duration_since` behave like
  subtraction up to reordering.
* **Rates.** A bucket's tokens plus what was spent never exceed the burst plus what the
  time up to `last_refill` earned; refilling moves both sides together, truncation
  only loses, and a rewind of `last_refill` is paid for by `rewound`. With one loop there
  are no rewinds, since the pending reading is the latest one. For a single client the
  invariant also covers the time after its entry is evicted: by then the idle time has
  earned a whole burst, which is where `EntriesOutliveRefill` is needed.
* **Eviction.** `UInv` says that a pending call carries a reading at most `MaxDelay` old and that
  the `last_seen` of an entry is at most `MaxDelay` before its client's last use. An entry
  goes when `last_seen` is a time to live before a reading, and readings lie in the past; so
  the last use lies a time to live less `MaxDelay` back. Without the second conjunct nothing
  ties the stored reading to real use.
* **Kisses.** Per entry, `limited_count` modulo `KOD_INTERVAL` tells how many limited
  requests lie before the next kiss. An entry is only ever created, and its count
  reset, by an allowed request, which pays for the extra kiss.
* **Clock.** The recorded `last_wall - last_mono` is the offset seen by the last check, up
  to the gap between its two readings; each conjunct is one inequality about that gap.
* **Timestamps.** An instant is a quotient and a remainder by the length of a second, and
  the quotient again one by the length of an era. Within half an era the pivot determines
  the era. The fraction is the one place where anything is lost: two truncating divisions,
  one nanosecond together, because a second has at most as many nanoseconds as there are
  fractions.
* **Answers.** What parse reads from what encode wrote is what was built, field by field,
  the packed flag byte and the signed bytes included; and mode 4 is not mode 3. `HopsHold`
  says that whatever is on its way after an answer carries mode 4.
* **Queries.** `ClientInv` says of every datagram in the network, and of every request in
  the server's hands, which query it belongs to and between which moments T2 and T3 were
  read. A matching origin then identifies the query, since timestamps repeat only after an
  era, and the pivot T1 determines the era of T2 and T3. The bound is what remains when
  both differences are written with the true times and the truncations.
* **Loops.** `LoopInv` gives, for each place of `handle_datagram` and `send_kod`, what the
  loop holds there: a datagram, a reading of the clock, a status that lies between the
  alarm noted at receipt and the one there is now, and a reply built from these. An alarm
  is never withdrawn, so a status read late can only be more careful. `LimiterKnows` ties the
  loop's place to its pending call, so denied sources have no entry in the table.
* **Refinement.** Each step of `Server` maps to the step of `Responder` for the same worker,
  or to none; `LoopInv` supplies what the mapped step needs of the reply. The clock and the
  limiter inside the server are shown to take only their own steps, so that the table
  bound of `RateLimiter` carries over by instantiation.
* **Books.** `BookInv` states the two balances as "the difference is a multiple of the
  counter's width", which survives wrapping counters; a loop in flight stands for the
  request it holds. A step moves a loop into or out of a set, and the set's cardinality by
  one.
* **Start-up.** `LoadHolds` says which layer each setting comes from, `RightsHold` which of
  root's rights (ids, groups, the right to low ports) are gone after which call of the drop, and every failing step leaves its
  reason behind. Longest match is an existence argument: a non-empty set of prefix lengths
  has a greatest member.
* **Histogram.** What a loop has still to add to a counter is a set of units, `Owed(i)`, so
  that the sum over the loops is a cardinality and needs no induction: a counter and what
  is owed to it make up what was observed, modulo the counter's width. Quiet means that
  nothing is owed. For a scrape, the bucket loaded last is compared with the next counter:
  that counter only grows, and lags by at most one unit per loop.
* **Calendar.** Years of an era begin in March, so `YearOf` and `MonthOf`, the divisions of
  the code, are right if the day lies between the start of the year (month) they give and
  the start of the next, and years (months) do not overlap. A day more is then a day more
  of the same month, the next month or the next year. The first day of a year needs the
  number of leap years since 1970, for which a closed form is shown by way of the least
  number that would contradict it.
* **Hexadecimal text.** The least bad position lies past the end only if all characters are
  digits and their number is odd; but then the bytes are as many and `OddLength` came first.

The two lemmas on the type of a timestamp stand in `TimeProofs` and in `ServerLoopProofs`,
whose other modules declare variables of the same names and cannot be extended together.
Those on least numbers stand in `StartupProofs` and in `ReportProofs`.

## What is only model-checked

* Liveness (`ShutdownCompletes`, `QueriesEnd`, `EarlyRequestsAreServed`, `ConnectionsEnd`,
  `EndpointStops`), which is out of the prover's reach.
* Of `decode_hex`, that what is left of a text without prefix and white space is a sequence
  of its characters. `HexIsRead` takes it as a hypothesis, because `SelectSeq` is recursive
  and the prover cannot do an induction over data; the `wire` run goes through the texts.
* The runs that end in a counterexample.

The proofs take atomics as interleaved, like the models, and say nothing about the parts
listed next.

## Not modelled

* `bench.rs`: a timing loop that keeps no state; the choice of command in `main`, argument
  parsing by clap, and what the commands print.
* `client.rs` `resolve`, `has_port` and `format_report`, and the layout of the inspector's
  report: text, on which no step depends.
* The text of a scrape and its scalar counters, each of which is one load. Connections still
  open when the process ends, which the runtime cuts off.
* TOML: a file parses, with known keys, or does not.
* Root delay and dispersion inside packets (their conversion is in `Config`), logging,
  `MockClockSource`, the measurement of the clock's precision, poisoned mutexes.
* How fresh the gauge of active entries is: it is stored before the sweep of the same tick.
* Fuzz targets, packaging and scripts.

## Plan

Every safety property that a passing run checks is also proved, for all values of the
constants; `CalendarIsGregorian` and `HexIsReadOrRefused`, which speak of the inputs of the
`wire` run, as `CalendarHolds` and, up to the hypothesis named above, `HexIsRead`. What could
follow is more of the system: root delay and dispersion inside packets, the scalar counters
of a scrape, and the choice between several addresses of a name in `query`.
