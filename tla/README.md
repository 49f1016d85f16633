# ContextSLO in TLA+

ContextSLO validates that security telemetry keeps its context: a canary acts,
reports what it did (ground truth), the telemetry of the platform arrives through
adapters, and a correlation compares the two and scores the result against an
objective (SLO). This directory holds TLA+ specifications of its server, its canary,
its adapters, its kernel sensor and its Kubernetes operator, TLC configurations that
check them on small instances, and theorems proved with TLAPS. `PROJECT.json` is the index: which
definition models which lines, what each run checks, a mutant of the code for
each property that the property must catch, the hazards of the code and the
disagreements found between code and documentation.

Everything runs inside this directory: `tlc -workers 2 -config X.cfg M` for a run, and
`tlapm M.tla` for each of `StoreProofs`, `StateFileProofs`, `EngineProofs`,
`CorrelationProofs`, `ServerProofs`, `WorldProofs` and `OperatorProofs`.

## 1. Inventory

| Part | Source | State it keeps | Operations | Talks to |
|---|---|---|---|---|
| State file | `internal/store/store.go` 32-61, 251-286 | `state.json`, `state.json.tmp` | `Open`, `saveLocked` | file system |
| Store | `internal/store/store.go` | `state`: SLO, runs (at most 500), sessions, deduplication window (at most 10000), counters per cluster | `UpdateSLO`, `Add`, `CreateSession`, `AddTruth`, `AddObservation`, `CompleteSession`; readers | state file |
| Engine | `internal/engine` | none | `Correlate`, `Run` | called by the server |
| Server | `internal/server/server.go` | two metrics, `domain.DimensionOrder` | HTTP handlers, one goroutine each | store, engine, probe runner, adapters |
| Probe runner | `internal/probe/runner.go` | none | `Run`: eight actions, one truth event each | operating system, network |
| Canary | `internal/canary/client.go`, `runCanary` | none | session, probe, truth, wait, correlate | server, over HTTP |
| Adapters | `internal/adapters/adapters.go` | none | `Decode` | called by the server |
| Operator | `internal/operator/operator.go` | `last`, in memory | `reconcile`, `refreshStatus`, `createJob`, `patchStatus` | Kubernetes API |
| Sensor | `cmd/contextslo-sensor`, `internal/truthsensor` | pid-to-marker map, at most 3 s old | attribute and post kernel events | server, kernel |
| eBPF programs, dashboard, CLI, manifests | `agent`, `server/web`, `cmd/contextslo`, `deploy` | - | - | - |

What makes each part correct, and what is hard about it:

- **State file.** A restart always finds a complete state, and the acknowledged
  one. Hard: a kill, a loss of power or a failing system call between any two of
  the seven steps of a save.
- **Store.** Counters, sessions, history and window agree with each other; evidence
  is taken once; what was acknowledged survives. Hard: operations change memory
  first and do not undo the change when the save fails; events come twice and in
  any order; the window and the history drop their oldest entries.
- **Engine.** The verdict is what its definition asks for whatever the order of the
  evidence; the parts of a report agree. Hard: rounding, the percentile's rank,
  the choice among observations, several summaries computed separately.
- **Server.** A request is a sequence of store calls with the lock released between
  them. A run must reflect its session though evidence, other correlations and
  changes of the SLO come between; answers must be true after a crash; a live run
  must end.
- **Operator.** Every SLO is validated at its interval, once per interval, and its
  status is true. Hard: calls that fail or whose answer is lost, restarts that
  forget `last`, names of Jobs that collide, reads and patches in separate calls.
- **Probe runner.** Every action is reported, whatever became of it. Hard: the two ends
  of its loopback connection wait for each other.
- **Canary.** A canary that reports success is right, and every canary ends. Hard: answers
  that are lost or late while the server goes on, a pod stopped half-way.
- **Adapters.** An event reaches the session it was marked for, and counts once. Hard: the
  searches go through a map in any order and match keys by their ends.
- **Sensor.** A kernel event is attributed to the session whose canary caused it.
  Hard: a stale or empty map, sessions that end or never end, pid namespaces.

The hazards of each, line by line, are in `PROJECT.json`.

## 2. Modules

```
DurableState <--implements-- StateFile       StateFileProofs      MC_StateFile
     (same promise, with the data)
Store                                        StoreProofs          MC_Store
Engine                                       EngineProofs
Adapters
Correlation = Engine + Adapters              CorrelationProofs    MC_Engine
Server = Store + Engine + requests           ServerProofs         MC_Server
     --implements--> Store
Probe
Canary = Server + Probe + canaries
Sensor = Canary + kernel and sensor          WorldProofs          MC_Canary
Operator                                     OperatorProofs       MC_Operator
```

The theorems of a module are in the one beside it. `CorrelationProofs` uses `EngineProofs`; `ServerProofs` uses
that and `StoreProofs`; `WorldProofs` uses `ServerProofs`.

**`StateFile`** models `saveLocked` and `Open`, one action per system call: `OpenTmp`
(`MkdirAll`, `MarshalIndent`, `OpenFile`), `Write`, `Sync`, `Close`, `Rename`,
`DirSync`. Each may fail the way the code handles it. `Kill` ends the process at any
point, `PowerLoss` the machine: unsynced data may then be torn, and a rename is
certain only once the directory was synced (`survivors` is the set of contents
`state.json` may come back with). `Open` makes the initial file itself, through the
same save. The state is a model value: nothing here depends on what is in it.

**`DurableState`** is what that protocol promises to its callers: a call lands
before it is acknowledged, an error leaves the file alone, a crash leaves the old
state or the new one. `StateFile` implements it under the refinement mapping at its
end (nobody reads the memory of a process that is saving or down).

**`Store`** models the operations as operators from states to states (`AddTruth(st, e)`)
and then, in `StoreNext`, as steps with the three outcomes that `DurableState` leaves a
save: `Saved`, `SaveFails` (memory ahead of the file), `DiesSaving` (old or new state,
after a restart). One step is right because every operation holds the write lock to its
end. `mem` is `s.state`, `disk` what a restart reads. Two ghosts say what clients know: `acked` the facts they
were told were accepted, `refused` those whose save returned an error, until they are on disk. A session's id and run id are functions of its marker, so the
marker stands for both. That these are the outcomes which `StateFile` leaves a save is by argument,
and not a formal refinement. `StateFile` allows one thing more: if the process is killed between the
rename and the sync of the directory, restarts on the newer state, and the machine loses power before the next
save, then the older state comes back, and what the newer one held may have been acknowledged meanwhile,
as a duplicate and without a save (`Open` syncs nothing when it finds a file). `Store`'s restarts are
those of the process, and of the machine in the middle of a save or after a complete one.

**`Engine`** has the verdict as operators, with scores and targets as integers in
tenths of a percent, as the code rounds them: `Correlate` for live runs, `DemoRun` for the
demo scenarios.

**`Server`** composes `Store` and `Engine`. A request is a record: kind, stage and the
handler's local variables (`truth`, `observations` and `slo` are the copy that `correlate`
scores outside the lock). Its stages are the store calls, since only there can another
request come between. `Start(h)` is a request arriving, `Proceed(h)` the handler's own
steps, `Cancelled(h)` the client leaving, `Crash` (and a crash inside a save) the end of
every request. A live run's own probe is any sequence of truth events in `ProbeResults`, or hangs.
`order` is `domain.DimensionOrder`: the default SLO's `requiredContext` is that very array, and
`Open` decodes the SLO of an existing file into it (`ReadOrder`), so that from then on
`validDimensions` knows the dimensions that are left in it. A demo run gets an id of its own (`DemoIds`) that
no run of the history has; `DemoVerdict` is a function because its verdict depends on nothing but the SLO and the scenario.

**`Adapters`** has `Decode` as operators. A record is a set of fields, each with its path, its text and
the words and marker in it; a search gives the set of results that some order of the map yields, and
`Readings` every combination of them, since each search iterates anew.

**`Correlation`** composes `Engine` and `Adapters` for one session: truth events and vendors' payloads arrive in
any order, payloads are decoded and deduplicated, and the session may be correlated at any moment. The ghost
`delivered` holds the records that arrived. `UpstreamId` and `Meant` say what a record's id is and for which
session it is meant, apart from the way `Decode` searches for them.

**`Probe`** is `Run`: the actions one after the other, each one step with any outcome it may have. The
network action is a small protocol of two goroutines, `Listen`, `Dial`, `Write` and `Join` of `Run`
and `Accept` of the other. `Hung` is the state it may end in: the dial failed before anything was
accepted, and `Run` waits for the acceptor before it closes the listener.

**`Canary`** composes `Server` and `Probe`. A canary has a slot in `req` for each of its three requests; its
own steps read the stage of a slot only to see the answer. `JobArgs` is what `createJob` makes of an
SLO's spec, `SessionSLO` what `runCanary` makes of those arguments. `GivesUp` is a lost or late answer or a
stopped pod, at any stage, while the server goes on; `Refused` an error or the server's death.

**`Sensor`** adds the machine: processes, known to the kernel by `HostPid` and to themselves by `OwnPid`, do
what the kernel program traces (`KernelSees`, into the ring buffer), and the sensor `Reads` an event, looks
its pid up and posts it through the same `StoreTruth` as everyone. `Maps` are the maps that the look-up may
use. `by`, in a truth event and a kernel event, is a ghost: the process that caused it; `reported` is another: the
pids that truth from elsewhere has reported for each session while memory held it.

**`Operator`** models the loop of `reconcile` one API call per action, and the cluster it
talks to: Jobs that start, end and are removed after their TTL, calls that fail, a creation
whose answer is lost, restarts of the controller. Times are ages (`since` is the age of
`c.last`, capped at the interval), so the state space is finite without a bound on time,
and liveness can be checked. A tick is the second that a Job's name carries.

## 3. Runs

| Run | Checks | Bounds |
|---|---|---|
| `statefile` | `TypeOK`, `AlwaysDecodable`, `AcknowledgedSurvives`, `ImplementsDurableState` | 3 states to save; any number of saves and failures; the directory can be synced |
| `engine` | `VerdictMatchesReference`, `PassingMeansAttributed`, `ReportIsConsistent`, `EventsCountOnce`, `EachToItsSession`, `EvidenceNeverLowersScore` | `MaxTruth`, `MaxObservations`, 3 SLOs of 2 or 3 dimensions, 7 deliveries of 6 payloads of 4 sources |
| `adapters_ids` | `EveryEventCounts` **violated** | 3 deliveries of Falco's alerts in one container |
| `store` | `StoreTypeOK`, `ActiveSessionsMatch`, `TruthCounted`, `HistoryMatchesSessions`, `EvidenceHeldOnce` | 2 sessions, history 2, window 2, `MaxAccepted` = 3 observations, any save may fail |
| `server` | `RunReflectsSession`, `CorrelationSeesAccepted`, `AnsweredIsStored`, `SLOsUsable`, `AcceptedMeansAll`, `OnlyRefusedIsLost`, `UsesStore` | 3 requests of any kind, 1 marker, 3 SLOs and one without dimensions, 3 ids of demo runs, any save may fail |
| `server_retry` | `AckedDurable` **violated** | the same |
| `server_restart` | `EveryDimensionAccepted` **violated** | 2 requests, 2 ids of demo runs, no save fails |
| `canary` | `PassedIsTrue`, `KernelTruthIsReported` | 1 canary with 3 specs and 3 actions, 1 other request, 2 markers, 2 kernel events of 2 processes, any save may fail, the canary in a container of its own |
| `server_live` | `LiveRunsEnd`, `CanaryEnds` | 1 canary with the network action alone, 1 other request, no PUT, no save fails, no kernel event |
| `sensor_pids` | `KernelTruthIsReporters` **violated** | as `canary`, with 1 kernel event of 3 processes and no failing save |
| `operator` | `OperatorTypeOK`, `JobsSpaced`, `StatusMatchesJob`, `ValidatedForever` | 2 SLOs with intervals 2 and 3, `TTL` = `JobTime` = 1, `CallTime` = 0, one fault |
| `operator_names` | `ValidatedForever` **violated** | 2 SLOs of one name, `CallTime` = 1, no fault |

Why these bounds are enough for the interesting cases:

- In `store` the window and the history overflow (three observations, a seed run and two
  sessions, for room of two), the sessions are of one cluster or of two, they share an id of an observation, and one cluster
  has no name. The counters would make the model infinite; `MaxAccepted` caps the
  observations accepted, in the guard of `MC_Store`. `VIEW StatesOnly` drops `acked` and `refused`,
  which no step reads and no property of that run mentions.
- Three requests are needed for a live run, evidence and a correlation of one session. Their
  names are symmetric in the runs without liveness. One marker makes a second session a
  collision of markers; two sessions at once are what `store` is for.
- The engine sees two dimensions with all orders of evidence and a third that nothing is
  heard of. The times include an observation earlier than its truth event. The payloads have
  what the adapters treat differently: a marker in a text, in a field named after it and both, a batch with
  records of other sessions, of none and no records, ids of their own, of several spans and none,
  with and without what attributes.
- In `server` the active SLO requires all eight dimensions and one that is PUT two, so that a restart leaves
  `DimensionOrder` with a dimension twice and another missing, and a PUT without dimensions is then refused. A third
  SLO has the latency 0, which the server must refuse wherever it comes from. An envelope of two events may fail at either,
  and the three requests are enough for the first attempt, its retry and another client's. Three demo runs, each with an id of its
  own, fill the history of two.
- In `canary` the specs are one that names a dimension twice, one whose latency the server refuses
  and one with a dimension that does not exist. Of the actions one succeeds, one never works (a read-only file
  system) and the network action may fail anywhere. The other request may be a live run, telemetry for the
  canary's session, a correlation of it, a session under the active SLO, a PUT of a stricter one or a demo; the processes are
  the canary, the server and one that belongs to no session. Canary and first process of the machine have the same
  pid, so that kernel truth does reach a session; the server has a pid that a live run reports.
  Two kernel events are what it takes for a map that was fetched for the first to be used, by then old, for the second:
  the session it names may have been completed, correlated again or lost in a crash meanwhile.
- The same run is bounded by the action constraint `Bounds`: the kernel's events begin once the canary has posted its truth, are those of
  the two processes that are not the canary, the second comes when the sensor has a map, the sensor does not
  end before the first, and while there are any the other request is none or a live run. `VIEW WithoutHistory` drops what neither a step nor the two
  properties of the run read: the ghosts `acked`, `refused` and `claim`, how a request ended that nobody
  waits for, a canary that failed, a sensor that no event is left for.
- `server_live` is small because TLC evaluates, for every step, whether each fair action is enabled.
- In `operator` `CallTime = 0` says that a creation reaches the cluster in the second it was
  named in; `operator_names` has 1. One fault is a restart, a failed call or a lost answer, at
  any point of an unbounded run. `JobTime` bounds a canary Job: the canary's client and probes have
  time-outs. A canary that hangs (`Hung`) is outside that bound; the Job has no deadline either.

`CHECK_DEADLOCK FALSE` is set where requests run out (`Server`, `Canary`) or evidence does (`Engine`).

**Fairness.** `WorldSpec` has weak fairness of each request's own steps (`Proceed`) and of the canary's
(`CanaryStep`): the scheduler runs every goroutine, the timers fire, and the probe's actions have time-outs, all
but the wait for its loopback acceptor, which is a state without a step and an exception in both liveness
properties. Nothing is assumed of clients, of the sensor, of answers arriving or the canary's patience (`GivesUp`),
and a crash may come at any time; `LiveRunsEnd` counts a killed or failed run as ended. In `server`, where only
safety is checked, `Server!Spec` states the same for requests. `Operator!Spec` has weak fairness of the loop (the client has a time-out of
20 s), of time and of Jobs ending. `ValidatedForever` says what holds after finitely many
faults: `MaxFaults` bounds them, and nothing else of the model does.

**Mutants.** Next to a definition stands a mutated one, marked so: a fault that could have
been in the code there, which the property named in `PROJECT.json` must catch.

### Disagreements with the documentation

Each is a run that TLC finds violated, with the quoted line in `PROJECT.json`.

1. `server_retry`: an event whose save failed stays in memory; its retry is taken for a duplicate and accepted without
   a save, and a crash loses it. The documentation calls the session durable.
2. `operator_names`: SLOs of one name in two namespaces compete for one Job name.
3. `adapters_ids`: `eventID` takes any path that ends in `.id` for the event's id. Falco's alerts carry
   `output_fields.container.id`, so all but the first alert of a container are dropped as duplicates.
4. `server_restart`: a restart with an SLO on some dimensions makes the server refuse others.
5. `sensor_pids`: canaries report the pid of their own namespace, and the sensor compares it with
   the machine's, so that the machine's first process becomes ground truth of a validation.

Others are visible in the models and have no run of their own:

- With `DirSyncResults = BOOLEAN` `AcknowledgedSurvives` fails: the errors of the directory sync are
  discarded and the change acknowledged (docs/architecture.md:49 speaks of a directory fsync).
- A run passes without ground truth for a required dimension: the truth's success decides the break that is
  reported, and neither score nor status (engine.go:97, correlate.go:54), while README.md:81 says "Missing ground truth fails the
  requirement" and docs/architecture.md:24 "A failed canary action is a failed truth requirement". Engine's `Points` and
  `Status` show it.
- An older verdict may replace a newer one when two correlations of a session overlap (server.go:281-294).
- A session whose live run is cancelled or dies stays collecting for ever; nothing looks at its deadline.
- A rename that no directory sync followed may be undone after a restart (see `Store` in section 2).
- An observation redelivered after the window has dropped its id is attached a second time, which is why
  `EvidenceHeldOnce` speaks of observations only until then.
- A completed session takes evidence, and a second correlation scores it anew (docs/architecture.md:38:
  "Close and score a session"), which is why `PassedIsTrue` says "or did when it was scored".
- A canary's kernel events come before its pid is known and are dropped: no probe is verified by the kernel
  unless its process goes on acting after its truth was posted.

## 4. Proofs

Every invariant and action property of a passing run is a theorem, for all values of the constants that the module's
assumption allows; TLC's runs of section 3 check the same definitions on a small instance.

What is assumed: `StoreAssumption`, `ServerAssumption`, `CanaryAssumption`, `SensorAssumption`,
`CorrelationAssumption` and `OperatorAssumption` say how the constants' sets belong together: an event names a
marker and a cluster, a probe's result is a sequence of truth events, a request has a slot of its own, an interval
is not 0, ids that a canary makes from its session's marker are not made by others. TLC evaluates each in a
run. Beyond them only `AcknowledgedAlwaysSurvives` and `StateFileImplementsDurableState` have a hypothesis, that the
directory can be synced.

### The store and its file

| `StoreProofs` | States |
|---|---|
| `StoreTypeCorrect` | `StoreSpec => []StoreTypeOK` |
| `ActiveSessionsAlwaysMatch` | `StoreSpec => []ActiveSessionsMatch` |
| `HistoryAlwaysMatches` | `StoreSpec => []HistoryMatchesSessions` |
| `EvidenceAlwaysHeldOnce` | `StoreSpec => []EvidenceHeldOnce` |
| `TruthAlwaysCounted` | `StoreSpec => []TruthCounted` |
| `OnlyRefusedIsEverLost` | `StoreSpec => []OnlyRefusedIsLost` |

The argument is the same for the first five. `StepForm` shows that a step of the store leaves
memory as it was, sets it back to the file or makes one `Operation` on it, and that it leaves
the file as it was or writes the new memory to it. The properties are predicates on a single
state, required of `mem` and `disk` alike (`Both`), so that they are inductive together with the type:
it is enough that the initial state satisfies each and that every operation preserves
it. The lemmas named after the operations say, component by component, what each
operation does to a state. For `TruthCounted` the operations are compared by the set of places
(`TruthPlaces`) whose cardinality the counter is: `AddTruth` adds one place to one cluster.

`OnlyRefusedIsEverLost` needs a stronger invariant, `LostInv`: what was acknowledged is on disk or refused, so is
every fact of memory (`Kept`), and memory has whatever the file has. The second part is the reason why a duplicate, which is acknowledged for being in memory, is no
worse than what was refused: memory is ahead of the file only by what saves returned an error for. Operations
never take a fact away, and add only those their caller is told of, so a save that fails refuses exactly what it leaves in memory. A
restart takes memory back to the file. Without `refused` the property is `AckedDurable`, which `server_retry` shows to be false.

| `StateFileProofs` | States |
|---|---|
| `StateFileTypeCorrect` | `Spec => []TypeOK` |
| `FileAlwaysDecodable` | `Spec => []AlwaysDecodable` |
| `AcknowledgedAlwaysSurvives` | `DirSyncResults = {TRUE}` implies `Spec => []AcknowledgedSurvives` |
| `StateFileImplementsDurableState` | `DirSyncResults = {TRUE}` implies `Spec => ImplementsDurableState` |

None of the properties is inductive: that the state file is complete after a rename depends on what the
temporary file holds by then. `FileInv` adds it: a save that reaches the rename without an error has a synced copy of memory in
the temporary file (`TmpReady`); the state file is synced, complete and among what a loss of power may leave
(`FilesComplete`); during the first save of all, memory and everything on disk stand for the initial state (`FirstSave`),
without which an error of that save would be seen from outside. `Owing` adds that memory is owed whenever the process
runs. For the refinement, `Views` says what the abstract variables are in each phase of a save; then opening, writing, syncing
and closing are stutters, the rename is `Land`, the return is `ReplyOk` or `ReplyError`. The assumption on
`DirSyncResults` is needed: `saveLocked` discards the result of syncing the directory, and reports success
all the same.

### The engine and the adapters

| `CorrelationProofs` | States |
|---|---|
| `VerdictAlwaysMatches` | `Spec => []VerdictMatchesReference` |
| `PassingAlwaysMeansAttributed` | `Spec => []PassingMeansAttributed` |
| `ReportAlwaysConsistent` | `Spec => []ReportIsConsistent` |
| `EvidenceNeverCosts` | `Spec => EvidenceNeverLowersScore` |
| `EachAlwaysToItsSession` | `Spec => []EachToItsSession` |
| `EventsAlwaysCountOnce` | `Spec => []EventsCountOnce` |

`EngineProofs` says what the engine's operators compute for evidence of any length: the score is the rounded mean
of the points of the checks, the choice among the observations of a dimension is the first one that is attributed or
else the first (`Best`), the 95th percentile of fewer than twenty latencies is their largest. These are recursive functions
over a sequence. The library's induction theorems cannot be used with an operator, so `Induction` speaks
of a set of naturals: the least natural outside it would have a predecessor in it. `Iterates` then shows once that a
function defined by a step from its previous value is what its definition says, and each loop is an instance.

`CorrelationInv` types the session's evidence and says three things more: every observation in the window was made of
a delivered record of its source, is for a session that record is meant for, and has its id (`Backed`, the first half of `EachToItsSession`); the session
holds exactly the observations of the window that are for it, one for each id (`Counted`, whose set is the second half); the window
knows every record that was delivered, is meant for some session and has one id (`AllRecalled`). The last two are what makes
deduplication lose nothing and double nothing, and neither follows from the other.
`EventsCountOnce` counts: events of this session and its observations correspond by their ids, as long as events have
an id each, their own, and no id of this session's event comes with another session's (`EventsIdentified`, the
premise of the property). The properties of a run follow from `ChecksOrdered`: a
report has one check for each required dimension, so that counts over checks are counts of dimensions, and an edge's
dimensions are all preserved exactly when they are required and none is among the breaks.
`EvidenceNeverLowersScore` holds since evidence only adds to the dimensions seen and credited.

### The server

| `ServerProofs` | States |
|---|---|
| `ServerUsesStore` | `Spec => UsesStore` |
| `RunsAlwaysReflectSessions` | `Spec => []RunReflectsSession` |
| `CorrelationAlwaysSeesAccepted` | `Spec => []CorrelationSeesAccepted` |
| `AnsweredIsAlwaysStored` | `Spec => []AnsweredIsStored` |
| `SLOsAlwaysUsable` | `Spec => []SLOsUsable` |
| `AcceptedAlwaysMeansAll` | `Spec => []AcceptedMeansAll` |
| `ServerKeepsStoreInvariants` | `Spec => []` the invariants of `Store` |

`ServerUsesStore` makes each step of the server a step of the store, so that the store's theorems are theorems of
the server (`ServerKeepsStoreInvariants`).

The handlers' steps are brought into three forms (`StepShape`): a handler moves on and the store stays; its
store call makes one operation, with any outcome of its save; the process dies. The invariant `ServerInv` is shown
to be preserved once for each form. It says of a state (`Fine`) that evidence is with its own session, objectives can be used,
and each live run is the verdict on beginnings of its session's evidence; of memory and file (`Ahead`) that memory
continues the file; and of each request (`Good`), at each stage, what its local variables are worth: what an answer will
vouch for is known or still in its hands (`Vouches`), the copy of a session that it is scoring was once what the
session held (`Copied`), and what was answered is on disk (`Stored`). Evidence only grows, and a session's objective
never changes, so what was true of a copy remains true while others write. For `AcceptedMeansAll`, `Good`
says that when a truth handler answers, each event it was sent is on disk or refused (`Accepted`): until then they are in memory or
still in its hands, `LostInv` of the store says what being in memory is worth, and what is refused leaves that set only for the disk.

The invariant is proved for `AnyStep`, which lets clients send any request at any time. `Server` restricts them to the
batches of its constants, and `Canary` and `Sensor` to what canaries and the sensor do; both are cases of it.

### Canaries and the sensor

| `WorldProofs` | States |
|---|---|
| `WorldUsesStore` | `WorldSpec => UsesStore` |
| `WorldKeepsServerInvariants` | `WorldSpec => []` `RunReflectsSession`, `CorrelationSeesAccepted`, `AnsweredIsStored`, `SLOsUsable` |
| `WorldKeepsWhatItAccepts` | `WorldSpec => [](AcceptedMeansAll /\ OnlyRefusedIsLost)` |
| `KernelTruthAlwaysReported` | `WorldSpec => []KernelTruthIsReported` |
| `PassedIsAlwaysTrue` | `WorldSpec => []PassedIsTrue` |

`Base` is `ServerInv` with the types of canaries, probes, kernel and sensor, and makes every step of the world an
`AnyStep`. On top of it:

- For the kernel's truth, `Attributed`: all truth in memory and on disk, every entry of the sensor's map and every event
  on its way from the sensor to the server has its pid in `reported` for the same session; nobody but the sensor posts kernel truth. The map may be old or
empty, sessions may end and a crash may take from memory what the map was made of: what it says was reported once,
  and `reported` forgets nothing. A map entry may itself come from kernel truth, since the code reads the pid of any truth
  event; but that event's pid was reported before. Nothing is assumed of pid namespaces. That the process with that pid is
  the one that reported it is what the documentation says, and `sensor_pids` shows to be false.
- For a canary's success, `Honest`: a session has one creator (`Owned`); truth that has a canary's ids is posted by that
  canary, for that session (`Carried`); and each canary's requests are as far as its stage says (`Sound`). The heart of the last is
  `Delivered`: of the events that a canary posts, those before the k-th are on disk, and those from the k-th on are not
  even in memory, so that none of them is taken for a duplicate of something else. When the correlation is answered
  the session holds what the canary did, under the objective it asked for. No hypothesis on saves: a post that was
  answered has been saved, event by event.

### The operator

| `OperatorProofs` | States |
|---|---|
| `OperatorTypeCorrect` | `Spec => []OperatorTypeOK` |
| `JobsAlwaysSpaced` | `Spec => []JobsSpaced` |
| `StatusAlwaysMatchesJob` | `Spec => []StatusMatchesJob` |

The bounds on ages in the type need `TypeInv`: a Job that has not ended is no older than `JobTime`, and one that has
is removed after its TTL, so ages never pass their bound (`Bounded`). `Spaced` adds to `JobsSpaced` that no Job of this run
of the controller is younger than `c.last`, and that when the loop is about to create one, those it has made for that SLO are an
interval older than the one to come: `c.last` is set before the call whose answer may be lost. `Reported` says
that a name stands for one Job of an SLO, and that status and loop claim only outcomes that the Jobs have (`Says`);
outcomes are final, so a claim read in one call is true when it is written in another.

### What is only checked

- Liveness: `LiveRunsEnd`, `CanaryEnds`, `ValidatedForever`. Liveness under fairness needs `ENABLED`, which is out of the prover's reach.
- The properties of the runs that are violated.
- The link between `Store` and `DurableState` is by the argument of section 2, and so is its exception.

## 5. What is not modelled

- *Time stamps*: `LastSeenAt`, `CompletedAt`, `Deadline` (which the server stores and never looks at).
- *Readers*: `Runs`, `Overview`, `Baseline`, the lists, metrics and the dashboard. The baseline is
  a figure of the report; `Engine` takes it as a parameter, `Server` leaves it out.
- *Sessions without an SLO* from an older state file, which are scored under the active one; a store
  without a path, which saves nothing.
- *JSON decoding and authentication* of requests; defaults of ids and times in them.
- *Letter case* of keys and markers, the *time of an event* (`inferTime`) and the fields of an observation that
  nothing reads, in `Adapters`.
- *A canary that is given a marker*, or no target: the operator's Jobs never are. The service's name and the endpoints
  are data.
- *Reuse of pids*, and several machines, in `Sensor`: a pid names one process. Of several sessions that report one pid
  the oldest wins in the code, any in the model.
- *What the eBPF programs copy*; the dashboard; the manifests, but for the pid namespaces they set up.
- *Several controllers*: the deployment runs one replica.
- *Late landing of a request whose client gave up* (`Operator`): only the answer may be lost.

## 6. Plan

Modelled, checked and, as far as safety goes, proved: everything in the table of section 2.

Left:

1. `History`: `Runs`, `Baseline` and `Overview` with completion times.
2. `Operator` with `Canary` in the place of its Jobs, so that an SLO's status speaks of the run the server stored.
3. A loss of power in `Store` that undoes a rename after a restart, and the link to `DurableState` as a refinement.
