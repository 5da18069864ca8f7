# A verification project for vllm-benchmarking

vllm-benchmarking runs benchmarks of vLLM server configurations on GPU hosts.
A web UI and an MCP server write runs and sweeps into a Postgres database
through an API; one orchestrator process takes queued runs one at a time, has
the agent of the run's host load the engine the run's configuration asks for,
benchmarks it there, and writes the result; the API reports and compares what
was measured. This directory holds TLA+ models of the parts whose interplay is
hard to test, TLC configurations that check them, and TLAPS proofs of their
safety properties.

Line numbers below are relative to `packages/` in the repository; `PROJECT.json`
maps every definition to its lines.

## 1. Inventory

| Component | State | Operations | Modelled by |
|---|---|---|---|
| **Run and sweep rows** (`db`: `enums.py`, `models.py`, migrations) | `run.status`, `run_summary`, `sweep.status`; immutable columns `sweep_id`, `gpu_host_id`, `config_hash`, `queued_at`, `sweep_seq` | transactions under READ COMMITTED; trigger `run_immutable_when_terminal` | `RunStore`, abstractly `RunLedger` |
| **Orchestrator runner** (`orchestrator/runner.py`) | locals of `execute_run`, the session's objects | `claim_next_run`, `execute_run`, `_reach_host`, `_ensure_server`, `_bench_or_cancel`, `_fail`, `_cancel_run`, `_next_run_wants_same_config`, `settle_sweep` | `Orchestrator` |
| **Orchestrator process** (`orchestrator/__main__.py`) | poll loop, one watcher task, back-off | poll, watch for cancellation, exit, restart | `Orchestrator` (no back-off; the retention pass is in `RunTelemetry`) |
| **Run and sweep write API** (`api/routers/runs.py`, `sweeps.py`) | a session per request | `create_run`, `create_sweep`, `cancel_sweep` | `SweepApi` |
| **Agent as its callers see it** (`agent/main.py`, `vllm_server.py`, `bench.py`) | reported engine state and config, benchmark in progress | start, stop, bench, cancel, restart | `HostAgent` |
| **Agent client** (`protocol/client.py`) | none | one HTTP call each; which errors are `AgentUnreachable`, which are not | guards of `Orchestrator` |
| **Engine supervisor and reaper** (`agent/vllm_server.py`, `reaper.py`) | lock, `_process`, `_state`, ownership record on disk | concurrent `start`/`stop` handlers, readiness polling, reaping | `VllmServer` |
| **Benchmark runner** (`agent/bench.py`, `/bench` of `agent/main.py`, `workspace.py`) | `_process`, `_cancelled`, working directories | run, cancel, time out, sweep stale directories | `BenchRunner` |
| **Telemetry sampler** (`agent/telemetry.py`) | two series, stride, schedule | tick, sample, decimate | `TelemetrySampler` |
| **Sweep planning and duration estimate** (`api/sweep_plan.py`, `duration.py`) | none (pure) | `expand`, `engine_starts`, `estimate_remaining`, over a sweep that is being worked off | `SweepPlan` |
| **Configuration text** (`hashing.py`, `sweep_plan.py`, `config_validation.py`) | none (pure) | normalise, derive a variant, read a size, family, validate | `ConfigText` |
| **Configs, workloads, hosts, imports** (`routers/runs.py`, `hosts.py`, `imports.py`, `sweeps.py`) | `server_config`, `workload`, `gpu_host`, `gpu_device`, `config_justification`, `run` rows | get-or-create by hash, annotate, lineage, register, refresh, delete, create a run, create or import a sweep | `Catalogue` |
| **MCP server and audit** (`api/mcp_server.py`) | `mcp_write_audit` rows | a tool call, its write, its audit row | `McpSurface` |
| **Telemetry retention and reads** (`db/retention.py`, `routers/runs.py`) | sample rows, prune marks | `prune_telemetry` beside finishing runs and readers | `RunTelemetry` |
| **Analysis** (`api/analysis.py`, `routers/analysis.py`) | none (reads) | load, count, group, frontier, balance; curves, warnings, comparison | `Analysis`, `Comparison` |
| Mock agent, views, schemas and wiring, database plumbing, wire types and failure classification, web UI, build | — | a test double, CRUD of one statement, declarations, text classification, rendering | not modelled (reasons in `PROJECT.json`) |

How they interact. The database is the only channel between API and
orchestrator: neither calls the other. The orchestrator reads the queue and the
cancellations from it, and drives an agent by HTTP calls that may never be
answered. An agent keeps nothing but the ownership record of its engine across
restarts; the orchestrator keeps nothing at all.

What makes it hard:

* *Read, then write.* `cancel_sweep` and `create_sweep` decide on rows they
  read earlier in the same transaction without locking them; `settle_sweep`
  decides on counts; the look-ahead decides on a queue that keeps changing.
* *Two views of a run.* Sessions do not expire objects on commit, so
  `execute_run` acts on the status it last wrote while another session may have
  changed the row. The trigger then rejects its commit, and the rejection
  breaks the very session its error handlers use.
* *Callers that hang up.* An agent handler whose caller is gone carries on: an
  engine keeps loading, a benchmark keeps running.
* *Exceptions everywhere.* Every call to the agent may fail, with two families
  of errors, and every path has to record the run, free the host and close the
  sweep.
* *Death of a process.* The orchestrator has no recovery pass; an agent restart
  reaps the engine but has forgotten the benchmark; an API process that dies
  between a write and its audit row leaves a write nobody recorded.
* *Rows that several requests create.* A configuration is looked up by its
  content and inserted when missing, by requests, tool calls, sweeps and imports
  alike, some of which flush many rows before they commit.
* *Answers put together from several statements.* A telemetry read and a chart
  each run four or five, under READ COMMITTED, while runs end and are pruned.
* *Rules kept in two places.* The plan, the estimate and the runner each compute
  when an engine is loaded; four readers parse the same line of a
  configuration; three lists say which facts set two runs apart.

What makes each component correct: a run is executed once, by one executor, and
never changes after it ended (rows); every path through `execute_run` records
the run, drains the client, then frees or rightly keeps the engine, then closes
the sweep (runner); requests leave the rows of a sweep consistent whatever
runs beside them (API); an engine that serves a benchmark is the one asked for
(agent and runner together); nothing of a measurement outlives its answer
(benchmark runner); what is committed refers to what is there, whole or not at
all, and the audit agrees with it (catalogue, MCP surface); what an answer
leaves out is said (retention, charts); a plan, its estimate and its execution
agree (planning).

## 2. The modules

`RunStore` — the shared rows. One committed transaction is one step. Runs,
sweeps and hosts are named in advance, "absent" until inserted; columns that
never change are constants (`sweepOf`, `hostOf`, `configOf`, and `rank` for the
claim order). `Writable` is the trigger. `rank` is arbitrary: runs may be
inserted in any order, so a run can be queued ahead of an older one's rank;
that only adds behaviours.

`SweepApi` — three writes. `create_sweep` is `CheckHostFree` then
`MaterializeSweep`, `cancel_sweep` is `ReadQueuedToCancel` then `CommitCancel`
or `RejectCancel`, with anything in between; a request's memory is `sawQueued`.

`HostAgent` — one agent per host. `engine` is the `ServerStatus` a caller would
see, `bench` the phase of each run's benchmark, `agent` whether it answers:
`"cut"` leaves its handlers working, `"dead"` leaves the client behind until
`RestartAgent`, which reaps the engine before anybody is told of it again.
`load` is the `/server/start` handler of each run, which carries on when its
caller has gone:

| `load` | code (`vllm_server.py`) |
|---|---|
| `none` | not started, or at its end after a failure |
| `polling` | `_await_readiness`, of whatever engine the supervisor has: `FindReady`, `GiveUp` |
| `undoing` | the `stop()` a start that gave up ends in, which stops what there is when it gets the lock: `Undo` |
| `ready` | it found an engine that serves |

So an abandoned start whose deadline passes when a later run's engine is up
stops that one, under its benchmark or before. A start counts from when it has
the lock, a stop from when its turn has come; the waits before that, and a
`READY` written over a process that is being killed, are in `VllmServer` only.

`Orchestrator` — the process. `pc` names the await `execute_run` is at:

| `pc` | code (`runner.py` unless said) |
|---|---|
| `idle` | `_poll_once`, `claim_next_run` |
| `check`, `reach` | the first look at the cancel event; `_reach_host` |
| `status`, `swap`, `start`, `loading` | `_ensure_server`: status, stop, start, its answer |
| `ready` | provenance and the BENCHMARKING commit |
| `request`, `bench`, `signal`, `drain` | `_bench_or_cancel`: request, `asyncio.wait`, `cancel_bench`, draining |
| `record` | the result, the summary and their commit |
| `finish` | `_fail` or `_cancel_run`, after any exception |
| `teardown`, `stop` | the look-ahead; `stop_server` |
| `settle`, `count`, `close` | `settle_sweep`: read, count, write |

`outcome` is the status the session remembers, which is not always the row's.
`Escape` is the exception that leaves `execute_run` when the row is terminal
already. `Watch` is the watcher task, `Crash` the death and restart of the
process.

`VllmServer` — the engine supervisor behind one agent's `/server` endpoints, on
its own: start and stop handlers around the `asyncio.Lock`, and the ownership
record. A step is what a handler does from one await to the next. `queue` is
the lock, its head the holder or the waiter that was woken; `pc` names the
await a call is at:

| `pc` | code (`vllm_server.py`) |
|---|---|
| `waiting`, `undoing` | `async with self._lock` in `start`, in `stop` |
| `spawning`, `forked` | the thread of `_spawn`, before and after the fork |
| `polling`, `asking` | `_await_readiness`, without the lock: the pause, the requests |
| `capturing` | `_capture_engine_facts` |
| `killing`, `killed` | the thread of `_terminate_child`; the reader's end |
| `ok`, `refused`, `failed`, `stopped` | answered: ready, 409 or 500 without a clean-up, an error after `stop()`, stopped |
| `lost`, `orphaned` | the call's agent has died since; `orphaned`: between fork and record |

A start handler launches at most one engine, which bears its name; handlers
carry on when their callers hang up, so nothing models a hang-up. `Restart` is
`reap_orphan`, which may be unable to verify who the recorded process is.

`EngineOnHand` — how the two models of an agent's engine fit together, a
refinement mapping from `VllmServer` to `agent`, `engine` and `load` of
`HostAgent`: `HeldEngine` is the engine on hand (launching or launched) that
nobody has begun to stop, with the state and the configuration
`/server/status` reports; `LoadOf` is the phase of a start by its await. The
steps allowed are `HostAgent`'s own actions (`StartEngine`, `EndLoad`, `Die`,
`RestartAgent`), and `StopServer` only in the step in which a call of `stop()`
begins on a process: an engine does not vanish of itself.

`BenchRunner` — what is behind the agent's `/bench`. `step` is the await a
handler is at, `slot` and `cancelled` are `_process` and `_cancelled`:

| `step` | code (`bench.py` unless said) |
|---|---|
| `new`, `resetting` | `/bench` in `main.py`: checks; the cache reset |
| `launching`, `forked` | `create_subprocess_exec`, before and after the fork; `run` has checked the slot and not yet filled it |
| `communicating`, `killing` | `communicate()` under its timeout; `wait()` after `process.kill()` |
| `leaving`, `answered`, `lost` | the sampler is stopped; the response; the agent died |

The client and its workers are external: it exits with a result or without one,
they exit when they like. `beside` is history: requests that got past the check
while another one had.

`TelemetrySampler` — one sampler. A sample is the number of its tick (and its
device), so `engineTicks` and `gpuTicks` are the series and `stride` the
doubled interval. A tick may find sources silent and may outlast intervals. A
series is the set of its samples' ticks: samples come in the order of their
ticks, so the order of the list says nothing more.

`Catalogue` — the rows a run refers to. Each request of `asked` has a program
counter `at`, one step per statement, a `draft` of what it has flushed and not
committed, and a `reply`. A unique key makes a second insert wait for the
session that flushed it and then fail; crossed waits end by `BreakDeadlock`. A
configuration is its text, a workload its traffic, a device its number and the
request that inserted it. `McpSurface` — the write tools over the same
handlers: the switch, the call (create a configuration, a workload, a sweep;
annotate; cancel a sweep), the audit row in a session of its own, and the
death of the API process between any two steps. A request that has committed
is not answered yet (`committed`): it reads again what it answers with, and that
await may raise (`Break`, for `MaxBroken` sessions of a behaviour) or die like
any other. `over` is the status of a sweep: ended, by a cancellation, by the
orchestrator (`SettleSweep`), or imported so.

`RunTelemetry` — sample rows: a run's last commit inserts them, two retention
passes (dry or not) select, count, delete and mark, a reader counts twice, reads
two series and the mark. `ConfigText` — a text is a sequence of lines with key,
indentation, value and comment. `SweepPlan` — the axes of a request, the plan,
the runs with their engine loads, the estimate after each. Its median is by
order statistics (`Nth` of `Medians`: fewer than i below, at least i up to it),
which is what picking from the sorted list gives; the charts' is the same. `Analysis` — one
request for charts, statement by statement, while runs end, and what it makes of
the runs it loaded: groups, points, frontier, device balance. `Comparison` —
scaling curves, group warnings and two points side by side, over the same rows.
A family is the normalised text without its tensor-parallel line; a width is a
run's own, what the row was created with unless the agent read a size. Speedup
and efficiency of a step are left out, arithmetic on what it already says.

`ControlPlane` — the composition over one database, its fairness and its
properties. `RunLedger` — the abstract promise of the run table, implemented
under `holding <- cur`. `ControlPlaneInv` — the inductive invariant.
`ControlPlaneClaims` — statements of the repository the code does not keep.
`MCControlPlane`, `MCTwoSweeps`, `MCVllmServer` — small instances.
`VllmServerInv`, `CatalogueInv` — the inductive invariants of those two modules
(the others stand at the end of the module they are about). `AgentParts` — the
three parts of an agent and the conjunction of their invariants.
`ConfigVariants` — a submitted text and what planning derives from it.

Proofs, each module about the one it is named after: `ControlPlaneProofs` (with
the refinement of `RunLedger`), `ServerProofs`, `AgentProofs` (`BenchRunner` and
`TelemetrySampler`, and with `ServerProofs` the parts of an agent and
`EngineOnHand`), `TelemetryProofs`, `CatalogueProofs` (with `McpSurface`),
`PlanProofs` (with `ConfigText` and `ConfigVariants`), `ChartProofs` (`Analysis` and `Comparison`), over
`NumberTheorems`: sums over finite sets, greatest and least elements, division.

`AgentParts` and `MCApi` put components that share no state side by side: `part`
says which of them a behaviour belongs to, the others stay at an initial state.
The agent's engine supervisor, client and sampler meet only in handlers that are
modelled in `BenchRunner` already; the API's services meet in rows that one of
them owns. So a product of their states would add nothing but states.

Deliberate abstractions:

* the kind and text of a failure, provenance, telemetry and metrics: data no
  property tells apart;
* `FAILED` and `STOPPING` engines count as stopped: both end in `stop()`, which
  holds the lock until the engine is gone. How a failed start's clean-up races a
  second start is modelled in `VllmServer`; what is left of it for a caller is
  `HostEngineImplemented`. A start that fails before it has a process, because
  its configuration file cannot be written, leaves the status at `starting`: the
  runner meets it as an engine that is loading, and stops it first;
* in `VllmServer`, the answer of an engine takes longer than waking the next
  waiter for the lock (`Awake`: the one is a callback of the event loop, the
  other a round trip over a socket); an engine is killed with its process
  group, and one whose leader is gone is gone;
* an engine that dies later is reported `READY` by the code as well (nothing
  watches the process after readiness); the benchmark then fails, which
  `EndBench` allows;
* a database error other than the trigger's is the effect of `Crash`: the
  exception reaches the poll loop, and nothing of the run is remembered;
* a missing host, config or workload cannot be reached: foreign keys;
* a claim that meets the row lock of a cancel request skips the row or fails
  and retries: a stutter. That it may claim a later run past a cancel that is
  then rolled back is not modelled;
* every loss of an agent is noticed. The client has no timeout, so a connection
  that dies without a reset would leave the orchestrator waiting for ever;
* in `HostAgent`, the client process an agent death leaves behind is not
  followed and `LaunchClient` is one step: both are in `BenchRunner`;
* the back-off of the poll loop;
* in `BenchRunner`, `process.wait()` waits for the leader alone. On CPython
  before 3.12.4 it also waits for the pipes, which the workers hold: there a
  timed-out request is answered when they are gone;
* in `Catalogue`, a sweep has a run per configuration and traffic (`SweepPlan`
  has the replicates), and when the orchestrator settles a sweep is a choice
  (`SettleSweep`), since its runs are not executed here. A host is registered once per behaviour;
* in `RunTelemetry`, of a run only its series' lengths; in `Analysis`, figures
  are small integers, and a balance is rounded to a percent. A frontier over
  replicates uses twice the median, which is an integer;
* a speculation or an engine environment is one value: what makes two of them
  differ is formatting.

## 3. What the runs check

| Run | Question |
|---|---|
| `control_plane` | types, seven safety properties and the refinement of `RunLedger`, under a cancellation, an outage and a crash at any moment |
| `two_hosts` | do the claims of two hosts disturb each other's engines? |
| `liveness` | does every run end, every sweep close, every running client stop when its sweep is cancelled? |
| `agent` | what one agent keeps: its engine, its benchmark client, its sampler, and the inductive invariants of the three; does its engine behave as the control plane takes it to? |
| `api` | the services of the API: rows and audit, samples, plans, texts, charts |
| `claim_never_raises`, `claim_cancel_stops`, `claim_crash`, `claim_one_engine`, `claim_orphan`, `claim_timeout_group`, `claim_interval` | does the code keep what a docstring, a comment or a document says? (each is violated) |

Of the control plane: `SucceededWasMeasured`, `EngineServesItsRun`,
`ClientBeforeEngine`, `NoRunStranded`, `CancelledSweepDrained`,
`SettledHonestly`, `SettledOnTime`, `EngineHeldForAReason` (`two_hosts`). Each
relates rows, process and host, and takes several steps of several actors to
break; the mutants in `PROJECT.json` name, for each, a plausible bug that breaks
it.

Of the engine supervisor: `OwnsAtMostOne`, `EngineNeverLost` (an engine is the
one a stop would terminate and the next lifetime would reap), `StatusTellsHeld`
(with nobody in line, `/server/status` names the process there is and says
whether it loads or serves, which the runner's reuse relies on),
`ReadyCanBeStopped` and, under fairness, `EveryCallAnswered`; and
`HostEngineImplemented`, the engine and the starts of `HostAgent`. That a start which was given
up holds no engine (`GivenUpHoldsNothing`) is part of `OneEngine` and so of
`PartsInvariant`.

Of the benchmark runner and the sampler: `CancelledIsNotMeasured`,
`AnswerLeavesNothing`, `EveryBenchAnswers`; `ThinnedByTick` (decimation never
drops a device from a tick others keep) and `NoBurst`.

Of the rows: `LineageHasNoCycle` (two texts, each submitted as edited from the
other), `RowsAgree` (no dangling reference; the device rows of a host are one
answer of its agent however refreshes overlap), `SweepAllOrNothing`,
`AuditTellsTheTruth`. Of the samples: `MarkMeansGone`, `ReclaimedOnce`,
`EmptyIsExplained`. Of plans and texts: `PlanCoversMatrix`, `StartsAsPlanned`
(the loads that were announced are the loads the runner makes),
`EstimateExact`, `VariantsRoundTrip`. Of the charts: `AccountedOnce`,
`FrontierCovers`, `CurvesLikeWithLike`, `DifferencesAreNamed`.

Two of these say less than one might wish, because the code does less.
`EngineServesItsRun`: under a benchmark the engine is the run's own or, after an
outage or a crash, none. `SweepAllOrNothing` and `AuditTellsTheTruth`: a session
that broke may have committed, so that its caller is told of an error, and the
audit of a failure, where a row was stored.

**Bounds.** Three runs: enough for a run to be claimed, one to be looked ahead
at, and one to be the next after a failed or cancelled look-ahead. One sweep of
two runs plus a run of its own makes "the last run of the sweep" differ from
"the last run of the queue". Two configurations let the engine be reused and
swapped. `MaxFaults = 1` outage (a cut or a death, at any moment, ended or not)
and `MaxCrashes = 1`: a second one meets only states a first one already
reaches, since both reset what they touch. `MaxAttempts = 2` stands for the
five probes of `settings.py`; the count only decides when `Reach` gives up.
The proofs hold for all values of all of these.

`agent` has, for the engine, three starts, one stop and a death, and
`MaxStarts = 2`: no start is called while two are under way (from the wait for
the lock to the answer, whoever still listens). The control plane has one per
host, so two is one it has abandoned and the next; the third start may follow
when either has ended. That the safety properties depend on this bound is shown
by `claim_one_engine`, with three under way. For the client it has two requests, one cancellation and two
lifetimes: one request the orchestrator abandoned and the next one, which is
enough for both to pass the check; `CancelledIsNotMeasured` also holds with
three, which is why it speaks of requests nobody was let in beside. For the
sampler, a cap of three and six ticks decimate twice; a tick takes no time or
two and a half intervals; the engine, one of the two devices or neither is
silent.

`api` has six requests in six scenarios, chosen so that each pair of handlers
that touch the same rows meets: submissions that close a cycle, a run of rows
that are being created and deleted, two justifications and a withdrawal, imports
that adopt and cross each other's rows, sweeps that derive the same variants in
opposite orders, refreshes of a host whose GPUs come and go while it may be
deleted, a cancellation of a sweep that is being created, of an import, or of none. Two of the
six are tool calls; the process may die once, and one session may break. Two runs with
three series, two passes and a reader are enough for every order of a count, a
delete and a read; the lengths make a stride of one, two and an incomplete one.
Plans have up to three bases, two sizes, two workloads and two replicates, with a
bound of twelve runs that some of them exceed. `VariantsRoundTrip` covers every
text of up to three lines. The charts have histories of up to five rows, limits of
two and, at `MaxRunLimit`, four, and every pair of values of each compared fact.

`CHECK_DEADLOCK FALSE`: the system stops when every request was served, nobody
is obliged to send another.

**Fairness** (`BaseFairness`). The poll loop and the watcher are tasks of one
event loop that nothing else blocks (`WF(Execute)`, `WF(WatchCancel)`); an
accepted request is served to its end; loading is bounded by
`readiness_timeout_seconds` (`WF(EndLoad)`); the calls that prepare a benchmark
have timeouts of their own; a signalled client exits. No fairness on outages,
crashes or requests. That a benchmark ends by its own timeout
(`BenchmarksEnd`) is a premise of `EveryRunEnds` and `EverySweepCloses` only;
`CancelStopsRunningClient` does without it, since a cancellation that waits for
the benchmark's end would be no cancellation. In `VllmServer` a handler that
can go on does (`WF(Handle)`), and a start's deadline passes, also if it is
found asking at every other moment (`SF(GiveUp)`); no engine is obliged to
serve, to answer or to exit. In `BenchRunner` likewise a handler that can go on
does (`WF(HandleBench)`), at its timeout at the latest; a client or a worker
owes nothing. `AgentFairSpec` is these two over their parts.

### What the violated claims show

* `claim_never_raises` — the executing run's next commit is then rejected by
  the trigger; the handlers and the `finally` block touch the session that
  needs a rollback and raise again. Teardown and settling are skipped; the next
  run finds the engine, the sweep is closed by the cancel request itself.
* `claim_cancel_stops` — the cancel event is looked at before the engine is
  started and then once while the benchmark runs. Noticed before the client
  process exists, `BenchRunner.cancel` signals nobody and the run waits for the
  whole benchmark.
* `claim_crash` — `settle_sweep` is called by `execute_run` only. After a crash
  between the last run's commit and that call, no run is left whose execution
  would close the sweep, and its host refuses new sweeps.
* `claim_one_engine` — a start that was abandoned keeps polling, and writes
  `FAILED` without the lock when its deadline passes. If another start is
  spawning by then and a third waits for the lock, the third finds `FAILED`
  where it should have found `STARTING`, and launches a second engine over the
  first, which no `stop()` reaches any more.
* `claim_orphan` — ownership is recorded after the spawn, not before it: an
  agent that dies in between leaves an engine no lifetime reaps.

* `claim_timeout_group` — the timeout kills the leader of the client's process
  group, the comment above it says the group.
* `claim_interval` — after a decimation the next ticks are recorded at the base
  interval again until the following one, so the tail of a series is denser than
  the interval reported with it.

### Seen while modelling, with no run of their own

Runs and sweeps:

* `cancel_sweep` updates the runs it read as queued by primary key: one claimed
  meanwhile goes from `starting` to `cancelled` under the orchestrator
  (`sweeps.py:373-394`); what follows is `claim_never_raises`;
* an engine kept for the next run stays loaded when that run fails before
  `server_started` is set (`runner.py:502`);
* a cancellation whose `cancel_bench` call times out is recorded as a failure:
  `client.py` lets httpx's error through, `runner.py:90-97` does not expect it;
* a sweep cancelled between `settle_sweep`'s read and its write ends as
  succeeded or failed; two concurrent `create_sweep` requests can both pass
  `_refuse_if_busy` and share a host.

Agent:

* an abandoned start keeps its own deadline: if that passes in the pause of its
  poll loop after a later run's engine became ready, it writes `FAILED` and stops
  that engine, under the benchmark that may run by then (`vllm_server.py:471-477,
  280-283`);
* "One benchmark at a time" is checked before an await and registered after it
  (`bench.py:134, 165`): two clients can run at once, and a third request, let
  in when the end of one frees the slot, resets the cancel flag of the other;
* the mock agent's `start` overwrites a `stop` that came while it pretended to
  load, which the real one does not.

Rows:

* an error after the commit of a tool call, such as in reading the row again, is
  recorded as `failed` although the row is stored (`mcp_server.py:764-771` after
  `runs.py:96-97` or `sweeps.py:336-346`), and a death there leaves a stored sweep
  nobody was told of;
* concurrent submissions of one text: the second insert fails with the unique
  key's error, not with the existing row (`runs.py:69-70`);
* the same traffic has two identities, ten fields in `runs.py:316-317`, seven in
  `imports.py:137-145`;
* a refresh that finds no GPUs beside one that finds some leaves the device rows
  of the one with the count of the other (`hosts.py:63, 88`): `RowsAgree` allows
  just that;
* a sweep copies `is_synthetic` from the host at its creation
  (`sweeps.py:305, 422`), the run takes what the agent answers.

Samples, plans, estimates:

* runs without samples are marked as pruned, too (`retention.py`); `_stride`
  says "at most budget survive", the last sample comes on top;
* a failure inside a block of one configuration makes the runner load the engine
  again, which `duration.py:51-53` does not attribute to the run that pays it, and "One engine start
  per config" (`sweep_plan.py:155`) is one per block;
* a size listed twice in `tensor_parallel_sizes` puts the replicates of a point
  apart, although the note on its spread says "back-to-back".

Charts:

* runs that end between the load and the counts appear in neither;
* `worst = min(_completion_ratio(...))` is a minimum of strings
  (`analysis.py:581`);
* a perfectly balanced run sorts with those that reported no balance
  (`routers/analysis.py:623`: `-(worst or -1.0)`);
* a compared side is the point of the fullest group only, although "the reader
  named both sides" (`routers/analysis.py:705`), and its facts are its head
  run's; peer access is an invalidating difference and not part of
  `ComparabilityKey`;
* a workload measured at one width of a family that is charted under another
  workload is neither charted nor counted (`routers/analysis.py:476`);
  `baseline_is_single_gpu` looks at the tensor-parallel size alone; two
  configurations of one family at one width share a step's place.

## 4. What is proved

Each theorem holds for every value of the constants its assumptions admit:
every set of runs, requests, calls, hosts, texts, every plan and every bound.

| Module | Theorem | Statement |
|---|---|---|
| `ControlPlaneProofs` | `Correct` | `Spec => [](TypeOK /\ Inv)` |
| | `TypesKept`, `MeasuredBeforeSuccess`, `NeverTheWrongEngine`, `TeardownAfterClient`, `EveryExitRecorded`, `CancelDrains`, `VerdictsHonest`, `SweepsClosed`, `EngineNotForgotten` | `Spec => []P` for `TypeOK` and the eight safety properties |
| | `LedgerImplemented` | `Spec => RunLedgerKept` |
| `ServerProofs` | `ServerInvariant`, `StatusIsTrue` | the lock, the fields; the status names the engine (`StatusNamesEngine`) |
| | `OneEngineInvariant`, `NoEngineLost`, `GivenUpIsGone`, `OwnsOne`, `ReadyIsStoppable` | with two starts under way: `OneEngine`, `EngineNeverLost`, `GivenUpHoldsNothing`, `OwnsAtMostOne`, `ReadyCanBeStopped` |
| `AgentProofs` | `SupervisorImplementsEngine`, `HeldIsReported` | with two starts under way, `HostEngineImplemented`; with any number, `StatusTellsHeld` |
| | `PartsHold` | with two starts under way: `AgentSpec => []PartsInvariant` |
| | `BenchInvariant`, `CancelWins`, `AnswerCleansUp` | `CancelledIsNotMeasured`, `AnswerLeavesNothing` |
| | `ThinsWholeTicks`, `NeverBursts` | `ThinnedByTick`, and `NoBurst`, an action property |
| `TelemetryProofs` | `TelemetryInvariant`, `MarkTellsTheLoss`, `NothingReportedTwice`, `GapsExplained` | `MarkMeansGone`, `ReclaimedOnce`, `EmptyIsExplained` |
| `CatalogueProofs` | `SurfaceHolds`, `RowsAlwaysAgree`, `SweepsAreWhole`, `LineagesEnd`, `AuditIsTrue` | `RowsAgree`, `SweepAllOrNothing`, `LineageHasNoCycle`, `AuditTellsTheTruth` |
| `PlanProofs` | `PlanInvariant`, `PlanIsTheMatrix`, `LoadsAreThePlanned`, `EstimatesAreExact` | `PlanCoversMatrix`, `StartsAsPlanned`, `EstimateExact` |
| | `VariantsSurvive`, `SubmittedVariantsSurvive` | what a size derived from a text keeps, for texts of any length, sizes from one and any number of GPUs; hence `VariantsRoundTrip` |
| `ChartProofs` | `AnalysisInvariant`, `ChartsAccountOnce`, `FrontiersCover`, `CurvesCompare`, `DifferencesNamed` | `AccountedOnce`, `FrontierCovers`, `CurvesLikeWithLike`, `DifferencesAreNamed` |
| `NumberTheorems` | `SumUnion`, `SumConstant`, `MaxIsGreatest` | what the folds and choices of the models compute |

*Assumptions.* Those on the constants, each in the module that declares them:

* `PlanAssumption`: a sweep has runs, on one host (`create_sweep` refuses an
  empty plan and takes one host). Typing of the columns; `NoRun`, `NoSweep`,
  `NoConfig`, `NoProc`, `NoClient` distinct from real values; bounds natural.
  `RankAssumption` is not used: no safety property depends on the claim order;
* `RunTelemetryAssumption`: finitely many rows, passes and series, lengths
  natural, a budget above zero (the endpoint's lower bound);
* `CatalogueAssumption`, `ToolAssumption`: requests are as the schemas admit
  them (a sweep and an import have points, device numbers are natural, a text is
  no missing parent), and the write tools are the five of `mcp_server.py`,
  which never withdraw a justification;
* `AnalysisAssumption`: histories are sequences of rows, a figure is natural or
  unmeasured, the largest limit is positive (`Query(ge=1)` and `min`);
* `SweepPlanAssumption`: texts are lines, sizes are integers of either sign,
  durations natural;
* `MaxStarts <= 2`, the hypothesis of seven theorems and not an assumption of a
  module: at most two start handlers under way at a time, of any number in a
  behaviour. It is no convenience: with three the properties are false, as
  `claim_one_engine` shows. What needs no bound (`ServerInvariant`,
  `StatusIsTrue`, `HeldIsReported`) is proved without it.

### The arguments

None of the properties is inductive. TLC was asked about each inductive
invariant before it was proved (those of the agent's parts are in the run `agent`
for good, as `PartsInvariant`, and proved for their composition as `PartsHold`: a
step belongs to one part and leaves what the others' invariants speak of alone).
What each proof adds:

*Control plane.* `SettledHonestly`, for instance, needs that nothing is
outstanding while the process is at `close` (`NothingLeftToClose`), which a
cancel request could disturb by a run it still believes queued; that it cannot
needs `CancelSeesQueued` and the trigger. `SweepsClosed` needs that the row of
the executing run agrees with the process (`RowFollowsRun`) except where a
cancellation overwrote it, and that the overwriting request closed the sweep
too (`OverwrittenByCancel`). `NeverTheWrongEngine` needs that the engine, once
the run's start was asked for or the reuse decided, is the run's own or none
(`EngineIsOwn`): an abandoned start can only make the one into the other; and
`StartIsAwaited`, that without an outage or a crash no start is abandoned, which
is why it is there then. `EngineNotForgotten` needs `EngineStaysUp`: what
the look-ahead keeps is the run's own engine. `Inv` collects these in three
parts — process against row, rows against requests, both against the hosts.
Each part is preserved because of all three, by one lemma with one step per
action (`ProcessStep`, `SweepStep`, `HostStep`); `TypeStep` does the same for
the types. The refinement maps each step: `Claim` to `PickUp`, the BENCHMARKING
commit to `Measure`, the result to `Succeed`, the failure and cancellation to
`Fail` and `Cancel`, every way back to `idle` to `LetGo`, the requests to
`Submit` and `Cancel`, all else to a stutter.

*Engine supervisor.* `LockDiscipline`: a call that spawns or kills is the head of
the lock's queue, nobody is in line twice, everybody else in line waits.
`FieldsFollowLock`: whenever the state would let a start in beside a process, or
the recorded configuration is another one's, somebody in line is about to stop
whatever there is by then. `CallsByLife` ties calls to lifetimes and engines to
calls. From these the status is true whenever nobody holds the lock. `OneEngine`
adds, with two starts under way (`FewUnderWay` bounds them, so that of any three
two are the same), where the engine of each can be.

*The supervisor against the host's engine.* The mapping takes the engine on hand
until somebody begins to stop it, and `FieldsFollowLock` says that until then its
state is `starting` or `ready` and the configuration its own, unless a start that
gave up is in line already, which is the `GiveUp` of `HostAgent` with the `Undo`
to come. So a launch is a `StartEngine`, from nothing, since the head of the line
found no process and nobody else launches (`BeginsLoad`, `StartsEngine`); a start
that finds its engine serving is a `FindReady` (`FindsReady`), where the bound of
two is needed: a third could find an engine of the second's after the first had
failed it. A start that gives up or stops is an `EndLoad` (`EndsLoad`), a stop
that begins on a process a `StopServer` (`StopsEngine`, `CallStopHolds`), and all
else keeps engine and starts, or moves a start at its place in the line
(`KeepsEngine`, `MovesBeside`). `EngineSteps` takes the actions one by one.

*Benchmark runner.* `HoldsByStep` says which of client, sampler and directory a
request holds at each await; `SlotInv` and `FlagInv` say whose client the slot
is and whom the flag was set for. The proof also turned up that two guards of the
verdict overlapped in the model, which TLC's fixed order had hidden; the guards
are now disjoint, in the order of the code.

*Sampler.* The series hold the multiples of the stride that were heard, up to the
last tick, and at most a cap of them: thinning the ticks by a doubled stride is
thinning whole ticks because a multiple of 2n is one of n. The schedule never
leaves the interval's grid.

*Retention.* What a pass has selected, counted and deleted, and what a reader has
counted (the two counts one after the other) and read, at each statement
(`PassKnows`, `ReaderKnows` in
`RunTelemetry`): deletions that two passes race for are counted by the one whose
DELETE found the rows, and a series that vanishes between two of the reader's
statements is marked by the time it reads the mark, since a pass deletes and
marks in one transaction. The sums are split at the run a step is about.

*Catalogue.* `RequestKnows`, `RefreshKnows`, `ImportKnows` and `SweepKnows` say
what each request knows at each of its awaits: what it selected is stored unless
it can be deleted, what it flushed is its own, an import has the rows and runs of
the points behind it and its host is held, a sweep has its runs when it commits.
Two lemmas carry most of the work: a step frames what the other requests have
drafted, and rows other than hosts only grow. `Rooted` is the invariant behind
the lineages: every set of texts has one whose parent is outside it; a text that
is inserted has no children yet, so it can close no cycle, whatever was submitted
beside it. The lineage a reader walks up is then the only chain there is. The
audit follows from `Stages` (where a call is) and `ReplyTellsTheTruth` (who has
committed, answered or not, has its rows; a refusal or an error of a request that
was alone has none; of a session that broke it says nothing).

*Planning.* `Expand` and `Position` are inverse to each other: the index of a run
is a number of three digits, which division takes apart (`Digits`,
`DigitsUnique`). So the plan is the matrix, each point once. An engine load is
planned only for a run of the first workload, since the run before any other has
the same configuration (`SameBefore`). While no run fails, the engine that is up
is that of the last run and only when the next wants it (`Kept`): the loads are
the planned ones. Then every measured run of a workload took the same, a median
of equal numbers is that number (`MedianOfEqual`), what a run with a load took
longer is a load, and the sums of the estimate are those of the rest.

*Texts.* `Normalized` drops lines and trims the rest; that it leaves the order of
the lines alone, and a variant of it normal, follows from the positions of the
kept lines and not by recursion (`NormalizedIs`, `TrimmedStays`). A variant
replaces the lines of one key in place or appends one (`VariantIs`), so its family
text is its base's and a second size takes the first one's place (`SizedAgain`).
A sized text is valid when the base is: what is checked of another line does not
look at the size, and of this one the size is in range (`SizedIsValid`).

*Charts.* `AnalysisInv` says what one answer holds at each of its statements:
what it loaded had succeeded and is, of those, the newest (`LoadedKnows`), what it
counted is of its status and stays so because terminal statuses are final, and
what it counted as unfinished was neither shown nor counted before it
(`CountedKnows`); no two runs have the same end (`EndedApart`), so "the newest" is
one set (`NewestExists`). `AccountedOnce` follows when the answer is complete. A
balance's order exists and lists every run once (`SortedExists`, `ListedAll`), and
a run with an idle device has an imbalance of a hundred percent and so the least
key (`IdledShows`, `HundredPercents`). `FrontierCovers` takes of the points that
beat one a point whose sum of figures is greatest: nothing beats that one.
`CurvesLikeWithLike` rests on what a family is: the normalised text without its
tensor-parallel line, or the whole text where that line is ambiguous. That the
lines of a family are the other lines of its texts, normalised, is
`LinesOfFamily`; that a stored text is normal already, so that a family of
ambiguous texts never meets another's (`LinesOfStored`, `OwnFamily`), excludes
such a text from every curve. Lines are named by their places (`OtherLines`),
which needs no recursion (`NthOfPlaces`).
`DifferencesAreNamed` needs no arithmetic but of percents: a warning is a
difference of two states, two sides without an invalidating difference are of one
machine, and a change read the other way round turns its sign (`DeltaTurns`).

*Inductions.* The prover cannot instantiate the library's induction theorems.
Facts about sums, greatest elements and finite sets are proved from a smallest
counterexample instead, whose existence is `FS_StrictSubsetOrderingWellFounded`
(`Smallest`, `LeastNumber` in `NumberTheorems`).

### Only model-checked

* Liveness (`EveryRunEnds`, `EverySweepCloses`, `CancelStopsRunningClient`,
  `EveryCallAnswered`, `EveryBenchAnswers`): fairness and ENABLED are out of the
  prover's reach.
* The violated claims: a counterexample needs no proof.

## 5. Not modelled

*Serialisation and classification*: parsing of benchmark results and of sweep
directories, exports, reports, provenance text, failure kinds, validation
findings about unknown keys and types. They map text to text, and no property
here tells their results apart. *Probes* of the machine (NVML, versions,
environment): input only. *Views, settings, health, lists*: one statement, one
row. *The mock agent* is a test double. *The web UI* renders what the API
returns and writes through it.

## 6. Limits

Modelled: the control plane, the inside of the agent, the services of the API.
Proved: every invariant and every action property the passing runs check, and
both refinements (`RunLedgerKept`, `HostEngineImplemented`). What stays open, and
why:

* liveness, with TLC on the instances above;
* five theorems about the supervisor, `SupervisorImplementsEngine` and `PartsHold`
  are about two starts under way at a time, because with three the code breaks
  them: what stands in the way is that a start which is given up writes its state
  without the lock (`claim_one_engine`). The orchestrator can get there: two
  starts abandoned in two outages and a third. `HostAgent` puts no bound on
  abandoned starts, but the engine two of them lose is not in it;
* the control plane is proved over `HostAgent`, whose engine and starts the
  supervisor implements under that bound. That the benchmarks of `HostAgent` are what `BenchRunner` does is
  stated by hand (section 2): a request and its client have names of their own
  there, and an agent that died has no benchmark in one and an unfollowed one in
  the other;
* the services of the API meet in rows one of them owns, and are composed with
  the control plane by no module: `Catalogue` decides whether a sweep has ended,
  `RunStore` inserts rows that are there.
