# demobot2: specification and proofs

This directory holds TLA+ modules that model demobot2, the TLC configurations
that check them on small instances, and proofs, checked by the TLA+ proof system,
of what matters most for every instance. `PROJECT.json` maps every definition to
the source lines it stands for, lists the hazards of the code with the properties
that watch them, and gives for each property a plausible bug that it catches.

- Check a run: `tlc -config any_order.cfg MCV2Runtime.tla`
- Check the proofs of a module: `tlapm V2RuntimeProofs.tla`

## 1. Inventory of the system

demobot2 is a trading, risk and advisory backend (FastAPI, `api/`), a library of
domain code (`core/`) and a Streamlit interface (`pages/`, `charts/`, `ui/`).
One uvicorn process serves the API (`Dockerfile.api`).

| Component | State it keeps | Operations | What is hard | What makes it correct |
|---|---|---|---|---|
| V2 runtime (`core/v2/orchestrator.py`, `snapshot_policy.py`, `event_ordering.py`) | applied ids and version, in memory | ingest, build snapshot, recover, replay | restart between commits; late events; cadence by `==` | memory within log, snapshots within log, bounded replay loses nothing |
| V2 stores (`core/v2/*_sqlite.py`) | tables sessions, events, snapshots | append, list, list after version, put, latest | duplicate and contradicting events; `DO NOTHING` | one event per id, append-only |
| V2 API (`api/v2`) | none of its own | create session, command gate, ingest, snapshots, lists | two appends per request; errors after a commit | 201 means stored |
| V2 portfolio (`core/portfolio/v2_*.py`) | none | reduce the log, totals, limits | late events, malformed events, two sources of version | last write wins, version monotone, looser limits find less |
| Arbitrage sessions (`core/arbitrage`, `core/services/arbitrage_orchestration.py`) | per session: snapshots, history, events, opportunity states | scan, recommend, readiness, expire, prune | threads share it without a lock | caps hold, no sighting is invented; alone, nothing recent is lost |
| Arbitrage search and ranking (`core/arbitrage/engine.py`, `opportunity_space`, `execution`) | none | search, enumerate, screen, rank, score | order of quotes, one-pass frontier | search within enumeration, frontier undominated |
| Artifact stores (`core/portfolio/advisory_payload_artifact_store_v1.py`, `core/market_data/artifact_store.py`, `core/treasury/*`) | rows in the V2 event table under reserved sessions | put, get, decide, follow up | two appends per artifact, check then append | a reference always resolves, a row never changes |
| v1 persistence (`core/persistence`) | numbered rows, snapshots | append, list after version, save | `MAX(seq) + 1` read outside the insert's transaction | order of appends kept; snapshot and tail are the log |
| Commands (`core/validation`) | none | map, validate, fingerprint, classify | replay against conflict | a repeat is a replay whatever its meta |
| Market data, advisory, risk, hedging (`core/market_data`, `core/risk`, `core/services`) | none | snapshot checks, risk run, ladder, limits, report | rounding, ties, readers that disagree on a format | parts add up, bounds hold, order does not matter |
| Options (`core/contracts`, resolver, kernels, artifacts) | none | construct, resolve, price, export, import | spellings, letter case, order of labels | construct twice is construct once, import undoes export, parity |
| Strategies (`core/strategy_*.py`, screens) | none | detect, warn, suggest, figures | unbounded losses shown as limited | limited is limited or warned of, figures are the payoff's |
| Books (`core/pnl`, `core/backtest`, `core/fx`, `core/portfolio`, `core/scenario`) | scenario cache: dict and FIFO list | totals, limits, profit, backtest, convert, cache | order by spelling, netting, eviction | totals independent of grouping, cache transparent |
| SaaS, v1 API, brokers, UI | none or demonstration data | forwarding | nothing TLC reaches | not modelled |

How the parts interact: the V2 router validates and calls the service; the
service commits the event through the event store, then calls the orchestrator,
which appends again (and finds the row), advances its memory, asks the policy,
and may build and save a snapshot. GET snapshot calls `recover`, which *replaces*
that memory. The portfolio summary reads the event table and the latest snapshot
directly. Artifact stores and governance repositories write to the same event
table under sessions of their own; a compute request is accepted only if the
market snapshot it names is there and is enough; the copilot reads stored
portfolios and snapshots, runs risk and hedge on them, and stores its decision.
The arbitrage routes of API v1 are plain functions, which the server runs in a
pool of threads over one orchestrator in memory.

### Concurrency and failure, as the code has them

- The V2 endpoints are `async def` functions without an `await`, in one process:
  a handler runs from its first statement to its last before another starts. What
  can come in between is the end of the process, so the only interleaving within
  a handler is a crash between two SQLite commits; `V2Runtime` splits ingest
  there. Between handlers every order is possible.
- The arbitrage routes are `def` functions: `ArbitrageSession` interleaves the
  single reads and writes of their handlers.
- Artifact stores and the v1 event store may be used by several processes on one
  database (API, scripts, copilot command line): `ArtifactStore` interleaves
  whole SQLite statements with their commits, `SeqEventStore` goes below an
  append, whose reads are outside the transaction of its insert.
- Everything else is sequential and keeps no state: operators, checked over inputs.

## 2. Modules

| Module | Models | Kind |
|---|---|---|
| `EventLog`, `EventLogLoops` | order, numbering, replay, snapshots as set operators; the loops of the code they stand for | operators, reference |
| `V2Runtime` | one V2 session: tables, memory, handlers, crash | state machine |
| `SessionJournal` | what a V2 client is promised | abstract specification |
| `V2Delivery`, `V2Portfolio` | the runtime with a client that retries; with the portfolio summary | compositions |
| `ArbitrageSession` | one session under request threads | state machine |
| `ArtifactStore` | clients, their pending steps, the shared table | state machine |
| `WriteOnce` | a map whose entries never change | abstract specification |
| `SeqEventStore` | processes that append to the v1 store, snapshots | state machine |
| `ArbitrageEngine`, `OpportunitySpace` | search, ids, gate; feasibility, ranking, scores | operators |
| `CommandGate` | mapping, structure, legality, fingerprint, classification | operators |
| `MarketData`, `AdvisoryInput`, `RiskPipeline`, `HedgeAdvisory` | from stored payloads to a hedge and its report | operators |
| `Contracts`, `OptionExchange`, `OptionInputs`, `OptionPricing` | an option from constructor to artifact | operators |
| `Strategies`, `StrategyMetrics` | positions, detection, suggestions, figures | operators |
| `Books` | conversion, totals, limits, profit, backtest, lists, cache | operators |
| `Common` | first fault of a list of checks, stable sort | operators |
| `ArbitrageChecks`, `AdvisoryChecks`, `OptionChecks`, `StrategyChecks`, `BooksChecks` | what the operators promise, and the inputs | properties |
| `Algorithms` | the promises that are also proved, under the names `A` and `B` | instances |
| `MC*` | values for TLC | instances |
| `*Proofs` | theorems (section 4) | proofs |

`ArtifactStore` uses the operators of `AdvisoryInput` (canonical payloads),
`MarketData` (what a compute request needs of a snapshot, what the copilot can
resolve); `MarketSound` runs a snapshot through `MarketData` into `RiskPipeline`;
`RiskSound` compares `RiskPipeline` with the side `HedgeAdvisory` reports.

### State and actions

`V2Runtime`: `session`, `events` and `snaps` are the rows of the three tables,
`mem` is `_session_states[session_id]`, `inflight` the ingest handler that has
appended and not yet applied, `reply` the last answer.

| Action | Code |
|---|---|
| `CreateSession`, `Refuse` | `create_session`; every early return of the endpoints |
| `IngestAppend` (`AppendNew`, `AppendAgain`, `AppendConflict`) | `ingest_event` to the end of `SqliteEventStore.append` |
| `IngestApply` (`ApplyNew`, `ApplyAgain`) | `V2RuntimeOrchestrator.ingest_event` with policy, build and save |
| `CreateSnapshot`, `GetSnapshot` | POST: build, save, answer; GET: recover, answer |
| `Crash` | the process stops and `V2ServiceSqlite.__init__` runs again |

`ArbitrageSession`: `snapshots`, `history`, `states`, `events` are the attributes
of `ArbitrageSessionState`; `req[r]` holds the stage of its handler a request is in,
its program counter there, the opportunities it has still to upsert and its locals;
`sighted` and `overlapped` are ghosts. A scan is the stages opening, upsert (once per
opportunity) and closing; the tables `Opening`, `Upsert`, `Closing`, `Recommend` and
`Readiness` list the reads and writes of a stage in the order of the code. One action
per kind of instruction: `Open`, `Sweep` and `Delete` are `expire_stale_states`, step by step
through the dict, with the RuntimeError of a dict resized meanwhile and the
KeyError of a key deleted twice; `Filter`, `Assign`, `Slice` are the prunes;
`Lookup` and `Store` the lifecycle update; `Raise` is a currency the converter
does not know; `Capture` and `Scan` build recommendations; `Tick` is time.

`ArtifactStore`: `rows` is the event table by session kind and id, `job[c]` the
append client c has still to make, `told` what was answered. `PutAdvisory`
appends the payload and leaves the lineage to do, `CheckCompute` and `AskHedge`
check and leave the append, `Finish` makes it, `Crash` forgets it.

`V2Portfolio` adds `summary`, the last answer of the summary endpoint. The reducer's
loop is a recursive function over the positions of the sorted log: `Portfolios(S)[n]`
is the portfolio after the first n events. The loops of `EventLogLoops` have the same
form: `DictAfter` is the dict, `CountAfter` the counter and the ids seen, after each
event of the sorted list.

`SeqEventStore`: `rows` with their numbers, `job[w]` a process between `Begin`,
`Look` (is the id there), `Number` (the largest number plus one) and `Insert`;
`Save` takes a snapshot of all rows.

### Abstractions

- One session. Every table and dict is keyed by session, and no operation reads
  two. Ids, bodies and payloads are told apart by equality only; a hash is taken
  as injective, and modelled as what it hashes.
- V2 event ids are numbers, in place of strings in lexicographic order. The log is
  a set; the number of an event is how many sort at or before it. `EventLogLoops`
  has the loops of the code over the sorted list, and `ReplayIsTheLoop` says that
  both compute the same.
- `ts` is a time and a zone mark: Python refuses to compare naive with aware
  timestamps, which is the only thing about zones that is modelled.
- A commit is durable: loss of recent commits by a power failure (WAL with
  `synchronous=NORMAL`) is not modelled, only the end of a process.
- Requests to the V2 API are handled one at a time, see above.
- Amounts are whole numbers or fractions of them, so that equality is exact.
  Rounding is modelled where the code rounds on purpose (ladder units, policy
  lots, price ticks), not where floats do. Tolerances are one unit.
- The kernels are taken in units in which they are exact: spot and strike powers
  of two, rates in units of ln 2, a volatility whose step is a power of two. Of
  the normal distribution only the symmetry is kept.
- A text is the form in which it is written (exact, in other letters, padded,
  blank, not a text) and which value it is; a conversion is what it does to the
  form. Sorting by a text's spelling is modelled where numbers are spelled
  (`Books.Spelled`, the tenors of `OptionInputs`).
- Wording, charts, logging and timing measurements are left out.

`InOrder` is an assumption on the clients of V2: a *new* event sorts after
everything stored. The code does not enforce it, and the runs with
`InOrder = FALSE` show what holds without it. `V2Delivery` shows that a client
that waits for each 201 gets exactly-once storage whatever it has to repeat, and the
proofs that a client who lists its events in order meets the assumption without
knowing of it; this client is external, the protocol is the one the idempotent
endpoint is written for.

## 3. Runs

Runs that pass:

| Run | Module | What it shows | Bounds | Distinct states |
|---|---|---|---|---|
| `any_order` | `MCV2Runtime` | consistency of log, snapshots, memory and answers in every arrival order, with retries, contradictions, mixed zones and crashes | 3 ids, 2 times, 2 zones, 2 bodies, N = 2 | 1,265,065 |
| `in_order` | `MCV2Runtime` | snapshots are prefixes, reads are whole, the runtime implements `SessionJournal`, across crashes | 4 ids, N = 2 | 138,281 |
| `cadence` | `MCV2Runtime` | the tail stays below N; state_version counts the log; no crash | 7 ids, N = 3 | 42,974 |
| `delivery` | `MCV2Delivery` | exactly once, and in the end everything | 3 events, 3 faults | 1,587 |
| `portfolio` | `MCV2Portfolio` | last write wins, summary version monotone, a malformed event is for good; tail, replay and version are what the loops compute | 3 ids, 6 commands, N = 2 | 289,932 |
| `arbitrage_race` | `MCArbitrageSession` | under overlapping requests: once they are done the caps hold again, and nothing is seen more often than it was sighted | 3 requests, 2 at a time, 2 opportunities, every cap 1 | 967,639 |
| `arbitrage_serial` | `MCArbitrageSession` | one request at a time: nothing fails, history is the most recent sightings, states count them exactly | 3 requests finding up to 2, caps and TTL 2, clock to 4 | 565,574 |
| `artifacts` | `MCArtifactStore` | content addresses never conflict, a lineage has its payload, what a compute request was accepted with stays there, answers hold, and the table implements `WriteOnce` | 2 clients, one payload in two spellings and its run, 2 markets | 90,625 |
| `seq_store` | `MCSeqEventStore` | numbers follow real time, what was answered is stored, and without overlap snapshot and tail are the log | 2 processes, 3 ids, one with two payloads | 53,061 |
| `algorithms` | `MCAlgorithms` | each operator against what it promises, on every input of small sets | see below | 486,457 |

Bounds. In the state machines the only bounds are the sizes of the sets, and for
`ArbitrageSession` the clock. Three ids are enough for a snapshot, a late event
that sorts before it and a tail after it; with N = 2 the automatic snapshot falls
inside the run, between manual ones. Four ids give two automatic snapshots in a
row, seven with N = 3 (the service's value) two full periods and a rest.
`MaxFaults` bounds crashes and lost answers of a delivery: one for each event.
`portfolio` runs without crashes, which change neither the log nor the snapshots
the summary reads; the theorems about it cover them. In `arbitrage_race` two
requests overlap and a third comes before, between or after, with caps of one, so
that every append is followed by a prune that has something to do;
`arbitrage_serial` has time for an opportunity to expire and to be found again.
In `artifacts` the second spelling makes two puts of one content, and the clients
stop between any two appends. In `seq_store` three ids and a repeated one with
another payload give a number taken twice, a conflict and a key that is refused. `Requests`,
`Opps`, `Clients` and `Writers` are symmetric.

Deadlock is checked for the V2 runs: `Refuse` or a visit is always possible. It is
off for the others because their systems really stop: the requests of a session,
the ids of a store, and, in `algorithms`, the one case a behaviour takes, are used up.

What `algorithms` says, one line per invariant:

| Invariant | Cases | Promise |
|---|---|---|
| `ScanSound` | 2 quotes of any kind, or 3 without size or fees | search is within enumeration and the widest edge of each symbol; readiness and gate hold nothing back; order of quotes does not matter; the ranking lists each option once, frontier first, best edge first |
| `RankingSound` | options with few edges, prices, sizes; contexts of limits; edges seen | one-pass frontier is the undominated set; lifting a limit refuses nothing new; scores in 0..1, not rising with age |
| `GateSound` | commands against an earlier one of the same or another session, both modes; broken fields | a repeat replays whatever its meta, a changed repeat is a conflict, lenient accepts what strict does; a repaired field uncovers a later fault |
| `MarketSound` | snapshots of 2 currencies, 2 needs | requirements hold part by part; more data never fails; from a validated snapshot to the repriced cube, with discount factors on the day of expiry and the days of the curves |
| `RiskSound` | scenario specs, exposures, order and spelling of rows; buckets of the ladder | worst scenario independent of order, delta explains spot moves, the report asks for the side the exposures ask for; ladder targets add up within rounding |
| `HedgeSound` | losses, ratios, limits, policies; lists of exposures | no unwinding, no over-hedging, a policy's bounds kept, or their nearest whole percents where it rounds, limits only cut, what is cut needs approval; exposures are taken one by one and not twice |
| `OptionsSound` | contract tables, results, surfaces, kernels | construct twice is construct once; import undoes export and nothing altered passes; resolution independent of order; parity in nine measures; lattice bounds |
| `StrategiesSound` | positions of up to 4 legs, chains | limited is limited or warned of, a loss without bound warned of unless two short calls share a cover; suggestions are what they are called; the screens' figures are the payoff's, or off by a known amount |
| `BooksSound` | quotes, legs, books, timelines, closings, lists, cache scripts | totals independent of grouping and order, conversion undone where it can be, cache transparent and in step |

The invariants say what the code does, also where it surprises. They pin down:

- The credit and debit labels of a vertical are the other way round than the money
  (`core/strategy_detector.py:87`); Iron Butterfly
  is never answered (`:328`), since the test before it wants every put strike below
  every call strike.
- A short butterfly's figures count its premium with the wrong sign
  (`core/short_butterfly.py:148`), a long one with unequal wings understates its loss.
- A flat volatility surface never resolves for an option: the label asked for is a tenor.
- A payload that passes the validation of snapshots never resolves as an FX
  snapshot: one wants every rate by pair, the other reads the first key as a currency.
- A policy with a lot set rounds its ratio again after it held it within its bounds
  (`core/services/hedge_policy_constraints_v1.py:100`): a highest ratio of 0.128
  becomes 0.13, a lowest of 0.125 becomes 0.12.
- Two short calls count the same long call as their cover
  (`core/strategy_warnings.py:43`), so a loss without bound may go without a warning.
- The API's gate wants version `"1.0"`, the registry the number 1: no version suits both.
- The limit on gross exposure looks at netted amounts; realized profit ignores the
  quantity of the closing event; a timeline is sorted by the spelling of its times.

Runs that refute a claim of the sources (each is a finding in `PROJECT.json`):

| Run | Claim | What the code does |
|---|---|---|
| `late_event` | replay yields identical state; GET "always includes all applied events" | an event that arrives after a snapshot and sorts before its events gets a position below the snapshot's version: it is not in the tail and missing from every later snapshot and read |
| `restart_cadence` | "next snapshot at last_snapshot_version + N" | a crash between commit and application keeps an event out of the version in memory, so nobody asks about the target; GET snapshot then recovers the target itself with no snapshot saved there, and the `==` is false from there on, until a manual snapshot or another restart |

Three lesser disagreements follow from the same model and have no run of their
own: the answered `state_version` restarts with the process until a GET snapshot;
a naive and an aware timestamp are both stored, after which no snapshot can be
built; GET answers `None` for every payload where POST answers the payloads.

### Fairness

Only `delivery` needs it. Weakly fair are: opening the session, the client sending
its current event while it has no 201 for it, the second half of a handler that
has started, and the client going on after a 201. The first, second and fourth are
what a retrying client does; the third is the event loop, which runs a coroutine
that is not waiting. Nobody has to read, save, crash or drop an answer, and
faults are bounded, because a process that crashes in every request delivers
nothing. The other machines have no eventual promise that the code makes: a client
that stops before its second append leaves the artifact as it is, and nothing in the
repository takes it up again.

## 4. Proofs

The theorems hold for every set of ids, times, bodies, clients, payloads, requests and
opportunities, every N, limit and cap, and every arrival order, under assumptions on
the constants that are named in the modules that declare them: ids and times are
numbers, N and the limits are positive, requests are finitely many, the outbox is a
sequence of events with different ids, the rows of a payload are a sequence of rows,
kinds are not the reserved sessions. Facts about finite sets, functions and sequences
come from the library. The bounds of the runs (the clock, faults, what a scan finds,
how many requests run at once) are numbers in the theorems, as large as one likes.

Which theorem states which property:

| Property | Theorem | Inductive invariant |
|---|---|---|
| `TypeOK`, `SnapshotsWithinLog`, `SnapshotChain`, `MemoryWithinLog`, `AcceptedIsStored`, `HistoryImmutable`, `OnlyLateEventsAreMissed`, `ReplayIsTheLoop` | `TypeCorrect`, `SnapshotsStayWithinLog`, `SnapshotsFormChain`, `MemoryStaysWithinLog`, `AcceptedEventsAreStored`, `HistoryIsImmutable`, `OnlyLateEventsAreLost`, `ReplayAlwaysIsTheLoop` | `IInv` |
| `SnapshotIsPrefix`, `ReadIsWhole`, `ImplementsJournal` | `SnapshotsArePrefixes`, `ReadsAreWhole`, `RuntimeImplementsJournal`; for the client of `V2Delivery` `DeliveredReadsAreWhole`, `DeliveryImplementsJournal` | `OrderedInv`, with `DeliveryInv` |
| `AnsweredVersionCountsLog`, `BoundedTail` | `AnsweredVersionsCountLog`, `TailStaysBounded` | `CountedInv`, `CadenceInv` |
| `SummaryVersionMonotone`, `PoisonIsForever`, `LastWriteWins` | `SummaryNeverGoesBack`, `PoisonStays`, `LastWriteAlwaysWins` | `SummaryInv`, `PoisonInv`, and `IInv` with `PortfolioAfter` |
| `ExactlyOnce` | `DeliveredExactlyOnce` | `DeliveryInv` |
| `LineageHasPayload`, `ComputesReplayable`, `ContentNeverConflicts`, `AnswersHold`, `ImplementsWriteOnce` | `LineageFindsPayload`, `AcceptedComputesReplay`, `AddressedNeverRefused`, `AnswersHoldForGood`, `ArtifactsAreWrittenOnce` | `StoreInv`, for `AnswersHold` also `NormalInv` |
| `OrderIsRealTime`, `StoredAsTold`, `SnapshotPlusTailIsLog` | `OrderHolds`, `ToldIsStored`, `SerialTailIsWhole` | `OrderInv`, `SerialInv` |
| `QuietWithinCaps`, `CountWithinSightings`, `OnlyOverlapFails`, `SerialStatesExact`, `SerialHistoryIsRecent` | `CapsHoldWhenQuiet`, `CountsStayWithinSightings`, `SerialRequestsComplete`, `SerialStatesStayExact`, `SerialHistoryStaysRecent` | `CapsInv`, `CountInv`, `AloneInv`, `TimesInv` with `StatesInv` and `HistoryInv` |
| `GateSound`, `MarketSound`, `HedgeSound`, `RankingSound` | `GatesHold`, `MarketsHold`, `BoundsHold`, `RankingsHold`; of every input `EveryGate`, `EveryMarket`, `EveryBound`, `EveryFrontier`, `EveryFeasible`, `EveryScore` | `Taken` |

`V2RuntimeProofs` begins with lemmas about the operators: positions in the log, what a
tail contains, and what replay into data adds and counts. It also justifies the
abstraction that the V2 models rest on, the log as a set. The list that `sorted` returns
exists, is the only one in order and puts each event at its number (`SortedLog`). By
induction over that list, the dict after n events is the set replay of the first n
(`DictLoop`) and the counter is the version it started from and one for every id not yet
seen (`CountLoop`). So the tail, both builders and the replay on any snapshot of part of
the log are the loops of the code, and replay on a snapshot that is a prefix is replay
from genesis (`TailLoop`, `FullLoop`, `DeltaLoop`). `ReplayAlwaysIsTheLoop` says it of
every reachable log and snapshot, by `IInv`.

Then come its steps. The safety invariants are not inductive one by one. That a
snapshot's version counts its data needs that the base of a delta was right; that
`put` drops nothing needs that two snapshots of one version are equal, which needs
that snapshots form a chain; that needs that the base of a delta is the snapshot of
highest version. The inductive invariant `IInv` joins them: types, finiteness, one
event per id, the event in flight stored, every snapshot within the log and counting
its data, the chain, memory within the log, the answered snapshot stored and the
accepted event stored. One step per action; `CreateSnapshot` and the snapshot inside
`IngestApply` share the lemma about `Put(BuildSnapshot)`. From it follow the theorems
on the separate invariants, on `HistoryImmutable`, that the `ValueError` of
`build_snapshot` is unreachable (`NeverAhead`), and what bounded replay can miss
(`OnlyLateEventsAreMissed`). This last one needs no ordering assumption: it is the
strongest thing that holds for late events.

Its last part assumes `InOrder`. Then every snapshot is a prefix of the log:
new events sort after all stored ones, so positions never shift. With it a delta
on a prefix is the full replay, `recover` finds everything, and each action of the
runtime is an action of `SessionJournal` or a stutter under the mapping: items to
stored entries, checkpoints to snapshot data, answer to the ids shown.

The module also proves the two promises of the cadence, which hold until the process
stops. `CountedInv`: the version in memory is the number of stored events, less the one
in flight; so is the version of an answer (`AnsweredVersionsCountLog`). `CadenceInv`
adds that the version in memory is less than N beyond the highest stored snapshot. The
policy tests `==`, so a version that skipped its target would not be saved again; a
version that moves by one and starts below the target cannot skip it. That is
`TargetIsAhead`, which `restart_cadence` refutes with a crash. `BoundedTail` is then
arithmetic on a log whose snapshots are prefixes. It needs timestamps of one zone,
because a snapshot whose sort raises is not taken.

`V2PortfolioProofs`. The version has two sources, the log and the latest snapshot.
The invariant is `IInv` and that the version answered last is not above what the
endpoint would answer now; neither source ever falls, and the step from one to the
other is safe because the first snapshot of a session counts the whole log. A
malformed event stays in the log, since the log only grows, and decides every
answer while it is there.

`LastWriteAlwaysWins` is an induction over the reducer's loop. `PortfolioAfter` says
what the loop holds after the first n events, once one of them created the portfolio: the
currency of the last creation among them, and of each position what the last command on
it since then left. The induction is
`SetInduction` (in `V2RuntimeProofs`), derived from the well-foundedness of finite sets in
the library: it is stated for a set of numbers rather than for a formula, so it needs no operator as a
parameter and the provers can use it.

`V2DeliveryProofs`. `ExactlyOnce` says how far the log is; it is inductive only
together with what the client does not know. `DeliveryInv`: the log is exactly
`Outbox[1..n]`, where n is the number of the current event or one less; if a handler
is in flight or a 201 unread then the current event is stored, and never both. A
repeat finds its own row and so can neither conflict nor store twice.

When the outbox lists its events in `(ts, event_id)` order, a new event comes after
everything stored: it is appended only while the log is the list up to the one before it
(`NewEventIsLast`). The step lemmas of `V2RuntimeProofs` ask no more of a step than that
what it adds sorts last (`ArrivesLast`), so they serve here too, and what the client
does besides only takes an answer away. Hence `DeliveredReadsAreWhole` and
`DeliveryImplementsJournal`: through crashes, repeats and lost answers the runtime is
the journal, with an assumption on the client's list and none on the order of arrival.

`ArtifactStoreProofs`. `StoreInv` adds to the invariants what makes them inductive:
what each client has still to do is justified by rows that are already stored
(`JobsOK`), and so is every answer (`ToldOK`). All of it is kept by any append,
because rows neither change nor vanish: the lemmas `ResolutionLasts`,
`ReplayableLasts`, `PendingLasts` and `AnswerLasts` say that a fact once read from
the table stays true of it, so a check made before another client's append still
holds after it. `StepBinds` turns that into the refinement of `WriteOnce`.
`AnswersHoldForGood` also says that a stored advisory reads back as the input that was
put. That is about normalization: `NormalInv` says that an id a client was told, or is
about to be told, is that of a payload in normal form, and `NormalizedOnce` that normalizing twice is normalizing once. Rows are sorted
by a key of six numbers, so it needs that this order is total (`LexOrder`), that
sorting yields the rows in order (`SortOrders`) and that rows already in order stay
where they are (`SortedStays`), equal keys included, for every payload.

`SeqEventStoreProofs`. The maximum is read outside of the insert's transaction, and
nothing makes numbers unique: two appends that overlap may take the same one. What
holds is weaker: a number already computed is above everything that was answered
before its append began (`OrderInv`), so `OrderIsRealTime` holds under any
overlap. `SerialInv` holds while no two appends have overlapped: the numbers are
1 to the size of the table, so a snapshot that counts rows is also a place in the
numbering, and the tail after it is what it lacks (`SerialTailIsWhole`).

`ArbitrageSessionProofs`. What a step does to the request that makes it is read off the
tables once (`AfterStep`) and stated per action in the lemmas named `...Effect`; the
invariants use those. Two properties hold however requests overlap:

- The caps. A list may be too long, and a list assigned late may undo a cut, but
  whoever lengthens or overwrites a list has a slice still to come. `CapsInv`: a list is
  within its cap or some request has still to trim it, and what waits to be assigned
  after a slice is within the cap. When no request runs, nobody has a trim to do.
- The counts. A lost update loses sightings and never adds one. `CountInv`: a count,
  stored or already looked up, is at most the sightings in history and on their way there.

The other three are about requests that do not overlap. `AloneInv` says at most one
runs and what it read still holds (the size of the dict, the keys to delete, the state
looked up), so no iteration is disturbed and no key is gone: nothing fails. `TimesInv`:
sightings are in the order of their times. `StatesInv`: an opportunity without a state
was last seen a time to live ago. `HistoryInv`: what is missing from history is old or
beyond the cap, and a record of a known opportunity is at most the time to live older
than its last sighting. The bound on answers, twice the time to live, follows: whoever
reads has just swept the dict, so the last sighting is younger than the time to live.

`AlgorithmsProofs`. The run `algorithms` looks at small sets of inputs; here the same
promises hold of all: requests, commands and structures with any values, snapshots and
needs of any size, any day, amounts, losses and limits that are any numbers, policies with any
fractions whose lowest ratio is no more than the highest they allow, lists of exposures
and of options of any length. The behaviours of the run are one step, so its invariant is only that
a case taken is one of the cases of its name (`Taken`, in `MCAlgorithmsProofs`); a lemma
there for each name says that these are among the inputs of the general theorem, and the
invariants of the run follow. The arguments:

- Gates and validations answer with the first of a list of checks that applies.
  `FirstIs` and `FaultIs` say which one that is, so two answers are compared check by
  check. The needs of a market request are a concatenation of lists: it is served if
  every element is (`RequirementsServed`), so both needs are served together exactly if
  each is (`ServedBoth`), whichever fault is named first.
- Ratios are fractions with different denominators. `LeqOrder` and `LeqChain` make
  their comparison an order; the bounds of a recommendation (`Recommended`) and of
  what is held within two bounds (`WithinBounds`) follow from it. A policy with a lot
  rounds to whole percents after that. Rounding half to even keeps the order of
  fractions (`RoundedOrder`, `PercentOrder`): of two quotients rounded to neighbours in
  the wrong order both would be halves, and both results even. So the ratio is within
  the rounded bounds, and within the bounds themselves where they are whole percents.
- The frontier is a fold over the options that drops members while it adds one. The
  community modules define a fold by `CHOOSE` of a recursive function on sets of places:
  `FoldExists` shows that there is one, `FrontierSteps` reads it as the list after each
  option. `FrontierIs` is the invariant along these lists: members do not dominate
  members, and, without a tolerance, an option seen is a member or dominated by one. A
  member that leaves is dominated by the one that comes, and dominance carries over
  (`DominatesChain`); with a tolerance it does not, so only the first half is promised.

Checked by TLC only:

- `Delivered`: liveness under fairness, which is out of the prover's reach.
- `ScanSound`, `RiskSound`, `OptionsSound`, `StrategiesSound` and `BooksSound` of
  `algorithms`. They rest on stable sorts, sums and recursive operators over
  enumerated inputs; what a fold computes for every input is an induction over data,
  to be done for each fold by itself, as it is done for the frontier here, for the
  reducer, for the canonical form of a payload and for the replay loops of V2. That
  the targets of a ladder add up is exact only where the parts divide evenly, as on
  the inputs of the run.

## 5. Plan

Done: the V2 runtime with its abstract specification, client and portfolio; the
arbitrage session under threads; artifact stores with `WriteOnce`; the v1 store; the
pure algorithms of every domain the backend computes with; theorems for every safety
property of every state machine, and for the gates, market data, hedge bounds and frontier
whatever their inputs. Left, in order:

1. Of the algorithms, the induction over the next folds: the rows of the risk run and
   the targets of the ladder (`RiskSound`), totals (`BooksSound`).
2. The totals and limits of `Books` composed with `V2Portfolio`, so that the summary
   is one state machine.
3. The map of arbitrage sessions, once something in the repository prunes it.

## 6. Not modelled

- Floating-point numerics (general pricing, volatility fitting, risk aggregation
  beyond the run of section 2, attribution by greeks): what matters is accuracy, about which neither
  tool speaks.
- Charts, widgets, rendered text, HTTP forwarding, brokers and demonstration data.
- Code that raises before it computes: the builders name a `StrategyCandidate` they
  do not import, `core/strategies/detector.py:124`, `saas_service.py:80` and
  `ui/strategy_services.py:269` ask a `Position` for `is_empty`, which it has not,
  the engine of the strategy brain is called with arguments it does not take, and
  `strategy_utils.analyze_scoring` swallows the TypeErrors that follow.
- Schema setup by two processes: both insert the same version and one row is read,
  so nothing comes of it. In-memory twins of the stores, used by tests.
- Data classes without control flow: the decision trace, the views, the validation
  scaffold with its engine metadata, the dictionaries of the SaaS runtime.
- The creation of arbitrage sessions and `prune_idle_sessions`, which nothing calls.
