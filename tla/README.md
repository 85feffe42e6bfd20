# A formal model of the ArchiLAN orchestrator

The orchestrator starts Archipelago game servers. It keeps one row per session
in a SQLite database, two Docker containers per running session (the AP server
and the bridge that publishes its port), a pool of bridge ports in memory, and
objects in MinIO. Requests of the API, one goroutine per launch, generation or
test, and a periodic sweeper all work on that state at once, and the process may
restart at any moment. These TLA+ modules model that work; TLC checks them on
small instances. TLAPS proves every invariant and action property of the runs that
pass, for every instance; the liveness properties stay with TLC.

Contents: [inventory](#inventory) · [modules](#modules) · [runs](#runs) ·
[proofs](#proofs) · [what the models found](#what-the-models-found) ·
[not modelled](#what-is-not-modelled) · [plan](#plan)

## Inventory

Paths are below `src/internal/` unless they start with `cmd/`.

| Component | State | Operations | Interacts with |
|---|---|---|---|
| port pool, `portpool/pool.go` | `used` (port → session), `held` (port → session and deadline), one mutex | AcquireFor, Reserve, Hold, Forget, Expire, Release, ReleaseFor | called by every component that launches or ends a session |
| session life cycle, `service/session.go` | none of its own: the row, the containers, the port | Launch, LaunchFromFile, startSession (goroutine), StopSession, DeleteSession, RestartSession, RelaunchFromSave, ConfigureSession | pool, database, Docker |
| port reservations, `service/port_reservation.go` | a hold in the pool and `port_reserved_until` in the row, kept in step | reservePort, dropPortReservation, acquirePort, expirePortReservations, recoverPortReservations | pool, database |
| sweeper, `service/sweeper.go` | the rows it listed | sweepTransit, sweepRunning, crashRunningSession, expiry of holds and files | database, Docker, pool, file store |
| boot recovery, `service/service.go` | none | RecoverFromDB, crashInterruptedSessions | database → pool |
| sessions table, `db/session.go` | the rows | one UPDATE or SELECT per method; only some are guarded by status | all of the above |
| containers of a session, `docker/client.go` | Docker's | create, start, stop, remove, inspect by name or id | launch, stop, sweeper, boot |
| required files, `service/required_files.go` | staged files and a byte count under a cap, one mutex | stage, has, take, free, release, prune | generations and tests take, the sweeper prunes |
| slot preflights, `service/slot_preflight.go` | jobs in a map, `preflightSem` | StartSlotPreflight, GetSlotPreflight, finish, prune | file store, Docker |
| apworld preflights, `service/apworld_preflight.go`, `runtime.go` | the verdict in an object of MinIO; `preflightMetaMu` | StartApworldPreflight, RunApworldPreflight, OverrideApworldPreflight; UploadApworld | MinIO, file store, `preflightSem` |
| generation, `service/session.go` 194-448 | the row, the container `archilan-gen-<id>`, the output in the volume, an archive in MinIO | Generate, runGeneration | sweeper, boot, file store |
| legacy containers, `service/service.go` 472-795, `db/db.go`, `cmd/orchestrateur/main.go` 81-98 | the containers table, a stream of Docker events | Create, startContainer (goroutine), Stop, Reload, Remove, Get, HandleDockerEvent | pool, Docker |
| inputs of a generation, `service/session.go` 964-1117, `service/service.go` 581-658 | a YAML per player and a manifest of worlds in MinIO | ConfigureSession writes the YAMLs and then the manifest; buildDataTar reads the manifest and then the YAMLs | MinIO, generation |
| one-shot containers, `docker/client.go`, `docker/image.go` | the cached image id | GenerateTemplate, IntrospectOptions, ReadMultidata, ListRequiredFiles, PreflightGenerate, PutDataToVolume, CopyOutputDirFromVolume, ImageID | Docker |
| what the service keeps of them, `service/apworld_template.go`, `declared_files.go`, `service.go` 113-206 | template and options in MinIO, the declared files of one image | RegenerateApworldTemplate, ReintrospectApworldOptions, SetApworldTemplate, OfficialDeclaredFiles, UploadApworld | one-shot containers, MinIO |
| slot names, `preflight/preflight.go` | none | GenerateSlotNames | API |
| option templates, `templateparser/parser.go` | none | Parse | API |
| output archives, `service/session.go` 328-448 | none | buildOutputArtifact, tarToZip, zipToOutputTar | generation, launch from a file |
| the rest | none that outlives a call | API handlers, configuration, webhook, logs, docs, `cmd/check_templates` | |

What is hard in this code, and what each component must get right:

* **Nothing serialises two pieces of work for one session.** A request reads the
  status of a row, works for a while in Docker, and writes the row, mostly with
  an UPDATE that has no guard. The pool must stay right all the same: work for
  one session never frees or takes the port of another.
* **The pool and the database are two steps.** A hold is made in the pool and
  then recorded, taken back and then cleared. At rest the two must agree, and
  what a restart rebuilds from the database must agree with it.
* **Time-outs race with answers.** The sweeper crashes a launch on its deadline
  while its goroutine is alive, and crashes a session by a list it read earlier.
* **A crash between any two steps** leaves rows, containers and no pool. Boot
  recovery must neither lose the port of a running session nor keep one for a
  session that died.
* **Memory is bounded by counting.** The bytes of a provided file count while it
  is staged and until the run that read it is over, on every path.
* **Verdicts are read, changed and put back whole**, under a mutex by some
  writers and without it by others.
* **A generation has four unguarded writes and no deadline of its own.** Its
  status, its container, its volume and its archive are four places; the sweeper
  judges it by what it sees of one of them.
* **The inputs of a generation are many objects and no transaction.** A request
  that fails, or meets another, leaves some of its own; a generation reads them in
  the other order.
* **Docker's events are late, in order, and may be lost**; four writers set the
  status of a legacy container from what they saw earlier.
* **A throwaway container outlives its client** unless somebody removes it, and
  what it printed may be half of what it should have.
* **Names, options and archives** are computed by small algorithms whose edge
  cases (a truncation, a weight of 0, two files of one name) meet each other.

PROJECT.json lists each hazard at its line with the properties that would catch
it, or the reason none does.

## Modules

```
PortLease            what a port pool promises
   ^ implemented by
PortPool             the pool, one action per method
   ^ extended by                ^ extended by
Sessions                     Containers
sessions, sweeper, boot      containers without a session, Docker events

Generation           generations, sweeper, boot
RequiredFiles        the store of provided files
   ^ extended by
TestRuns             runs that take files, slots and jobs
Verdict              the verdict on one apworld
OneShots             throwaway containers and what is kept of them
Inputs               the configuration of a session and the tar made of it

Filters              loops that keep some elements of a list
   ^ used by
SlotNames, Templates, Artifacts        pure algorithms

PortPool_proofs, Sessions_proofs, Containers_proofs, Generation_proofs,
TestRuns_proofs, Verdict_proofs, OneShots_proofs, Algorithms_proofs
                                       theorems
MCSessions, MCGeneration, MCTestRuns, MCContainers, MCMutexes, MCAlgorithms
                                       instances for TLC
```

### PortLease and PortPool

`PortLease` is the contract: each port is vacant, used by a session, or kept for
one. A grant takes the port kept for the session, else a vacant one, and another
session's kept port only when nothing is vacant; a port in use only ends with
its session or with the process. It says nothing of numbers, order or time.

`PortPool` has the two maps of `Pool` as functions of ports (`NoSession`, `NoHold`
where the map has no key), and `phase`, the order in which boot restores the ports
in use (`Recover`, calls of Reserve), the holds (`RecoverHeld`, calls of Hold), and
then serves; those two actions stand for loops of the boot, not for methods. Each
method is one action because it holds the mutex throughout. `AcquireFor` is split by
its branches (own hold, lowest free, oldest hold). A release by port and one by
owner are two actions, since the code has both.

### Sessions

| In the model | In the code |
|---|---|
| `rows[s]` | the row: status, bridge_port, bridge_container_id, save output, port_reserved_until |
| `ap[s]`, `bridge[s]` | the containers with the fixed names of session s: absent, up, down, the port bound |
| `task[h]` | a request: its operation, its session, its next step, what it read |
| `launch[n]` | the goroutine `startSession`; its number also stands for the container id it creates |
| `sw` | the sweeper: its phase, the rows it listed, the row in hand |
| `used`, `held`, `phase` | the pool |

A step of an actor ends where another actor can come between: at each statement
of the database, each call of the pool, and each Docker call whose effect another
actor sees. What is merged, and why nothing is lost:

* create and start of one container are one step, as are the port wait and the
  start of the bridge: between them the container binds nothing;
* a stop or removal of both containers of a session is one step, and is assumed
  to succeed. The code looks neither at its error nor at a refusal of Docker; a
  container that goes on after one is in `Containers`, where it is modelled;
* `ReleaseFor` and `Forget` of one request are one step: both only give back what
  the same session has;
* the exit code of a dead server (finished or failed) is chosen when the sweeper
  inspects it, which is the only place it is read;
* whether a launch is past its deadline is a free choice of each sweep, which
  covers any timeout; reservations need the order of deadlines, so they use the
  clock `now`;
* the only statement that may fail is the one that records a launch, because its
  error path changes the pool (`DbFails`); the other failures are only logged.

The status "generating" is left out: `Known` starts a session as generated, and
the generation is a module of its own. The two meet in the row only: Generation
has everything that is not a generation or its end as one status ("running") it
does not start on.

`Overlap` says which actors may overlap on ONE session: two requests
("handlers"), a request and the launch goroutine ("goroutine"), the sweeper with
either ("sweeper"). The code excludes none of these. The empty set describes a
client that waits for the end of each operation, so a run with `Overlap = {}`
shows what holds then, and a run with all three shows what holds always. Work on
different sessions always overlaps.

### RequiredFiles and TestRuns

`RequiredFiles` is the store. `info[f]` keeps what was staged as f, so that the
bytes of a file already taken are still known; an identifier is given out once,
as 16 random bytes are. A caller reads the clock before it gets the mutex, so `t`
is any earlier instant.

`TestRuns` adds those that take files: slot tests, apworld tests and generations.
`inUse` is the number of slots taken in `preflightSem`; `job[r]` is what a poller
is told. A request takes its files before it does anything else that another
actor sees, so taking them is part of the action that starts it. The end of a run
is two steps: leaving the slot, then giving back the room (`defer done()`).

### Verdict

One object, and writers that get a copy, change it and put it back. `GetMeta` and
`PutMeta` are the two halves of `MutateApworldPreflight` under `preflightMetaMu`
(`locked`); an upload and an override have the same two halves without it. The
`previous` verdict a run may restore is read before it starts, as in the code.
`newest` is a history variable used by the properties only. "skipped" is not told
apart from "failed", and what a verdict only reports (image, times, inputs,
excerpts) is left out. Other apworlds have other objects and share nothing but
the mutex and the slots.

`Onward(r, pc, out)` is the run after it gave the mutex and its copy up; records
are written out where the proofs expand them.

### Generation

| In the model | In the code |
|---|---|
| `rows[s]` | status, generation_job_id, output_file |
| `box[s]` | the container `archilan-gen-<s>`, whose generation it is, and its state |
| `vol[s]` | the generations whose output is in the volume of s: an output is never erased before a deletion |
| `art[s]` | the outputs in the archive stored for s |
| `gen[g]` | the goroutine `runGeneration`, at its next statement or Docker call |
| `req[q]` | a Generate or a DeleteSession between its steps |
| `sw` | the sweeper: the overdue rows it listed and the one in hand |

A generation `g` stands for its job id and for its output. Each statement of the
goroutine and each Docker call is a step, and each of those that may fail has a
failing branch. A deadline is not a number: an overdue row is listed at once
while no goroutine is at work, or, in executions with "late", at any time. `env`
is chosen in the initial state and never changes; it names the meetings an
execution has, so that a property can say which of them it needs to exclude. The
code excludes none. `Play` stands for the launches, stops and crashes of
`Sessions`, and `Relaunch` for RestartSession and RelaunchFromSave, which make a row
with an output say generated once more (`session.go:797`, `856`). They meet a
generation in executions with "play". Docker may refuse a removal in executions with
"refused". A wait may be answered by an error, which decodes to exit code 0, in every
execution: `misread` remembers for which generations, and `relaunched` which rows say
generated since a relaunch. Both are history variables, read by properties only.

### Containers

The same pool as `Sessions` (both extend `PortPool`); a session outside `Legacy`
only acquires and releases (`Elsewhere`). `rows` is the containers table, with
its unique port; `box[s]` the container with the fixed name of s; `events` what
Docker said and nobody handled yet, in order; `stream` whether it is being read.
`gor[s]` is `startContainer`; a request keeps in `req[q]` what it read at its
start, as the code does. `env` again names the meetings of an execution.
Containers may exit and be restarted by Docker's restart policy at any moment.

A stop, a restart or a removal has three outcomes: Docker does it; it answers that it
did not, which nobody looks at (`Declined`); or the call fails and the request ends
(`CallFails`). An insertion, an update or a deletion may fail, with the error path the
code has: a deletion that fails leaves a row whose port was given up already
(`DeleteRow`). Two history variables say for which sessions that happened: `refused`
(Docker or the database did not do what it was asked) and `dispossessed` (the port on
record was given up, or at boot given to another, and the row still names it). Boot
reserves the ports of all rows and then those of the running sessions, each whoever
had it (`LastReserved`); `runsOn` is the port a session elsewhere has on record, which
may be any, since `Sessions` writes it before or after it has the port.

### OneShots

Each method of the Docker client is the sequence of the calls it makes
(`DockerCalls(op)`); `Stores` are the operations whose result the service keeps,
and `Following` leads from one call to the next. `call[c]` is where call c is,
the image it runs and what it got. `CanGo` says whose steps use the context of
the request: those are cut short when the client leaves (`Leave`);
`removeAlways` is a removal with a context of its own. A container Docker was asked
to remove and did not is "kept": no caller looks at the answer. What a container prints
is "whole" or "partial". `until` is a history variable: when the tag of the
image left an image.

### Inputs

| In the model | In the code |
|---|---|
| `yamls` | the objects `<session>/yamls/<player>.yaml`: the world the slot of each player names |
| `manifest` | the manifest object: the worlds of the slots |
| `busy` | whether the status of the row refuses both requests |
| `conf[c]` | a ConfigureSession: its slots and its next write |
| `reader` | the Generate at work: the worlds and YAMLs it has, those it still has to get |

Each put and get of MinIO is a step, and each may be the last one of its request.
`alone`, `intended` and `expected` are history variables: who wrote everything since
its own first upload, the slots stored by uploads nothing came between, and the
same for a reader nobody disturbed. One generation reads at once: two read the same
objects and change none. What a YAML says besides its world is not looked at here.

### SlotNames, Templates, Artifacts

Pure algorithms, each a little state machine that reads its input one element at
a time, so that TLC tries every input of a set without building the set.

* `SlotNames`: a text is a sequence of characters, because names collide as texts.
  `Base` is the base of the counter's numeral, 10 in the code, and `SlotMaxLen` is
  16 there.
* `Templates`: a line is what the parser tells apart by indentation and text. The
  state is that of `Parse` (curKey, curComments, curValues, inGameSection). The
  reference definition in `OptionsAreTheSections` looks at the whole text at once.
* `Artifacts`: a file has a folder, a stem, an extension and data; the data of a
  zip is its entries.
* `Filters`: the loops of the three that keep some elements of a list, by the rank
  of what is kept. SelectSeq says the same, but it is recursive, and nothing could
  be proved of it.

## Runs

Every bound is a CONSTANT in the .cfg. Each property has a mutant, a plausible
bug in a mapped definition, that TLC catches under the same .cfg.

| Run | Bounds | Checks |
|---|---|---|
| `mutexes` | the parts that guard what they keep by a mutex, one in an execution. The pool: 3 sessions, range 1..2 plus port 3 outside it, deadlines 0..2. The verdict: 2 runs, started or uploaded, one override, storage failures, restarts. One-shots: 2 calls, 2 images, TTL 1, clock 0..1, four sets of operations that share something, waits answered with an error, removals Docker does not do, restarts | Pool: `UsedHeldDisjoint`; `UsedNeverTaken`: a port in use never passes to another session; `HeldTakenOnlyWhenFull`; `ImplementsLease`: every call is a step of PortLease. Verdict: `SettledIsFree`; `OlderStartsWriteNothing`. One-shots: `ImageIdFresh`; `DetachedLeaveNothing`: no test or listing ends before it asked for the removal of its container; `SidecarIsWhole`; `ListedOnce` |
| `sessions_serial` | 2 sessions, 1 port, 2 requests, 3 launches, every operation, the launch statement may fail, clock 0..1, `Overlap = {}` | `TypeOK`; `RunningOwnsPort`; `UsedPortUnbound`: a port is handed out only when no container of another session binds it; `HoldMatchesRow`: what is reserved is what the row of its session says, whatever is evicted or expires between the steps |
| `sessions_holds` | 2 sessions, 2 ports, 2 requests, 2 launches, every operation, clock 0..1, `Overlap = {}` | `HoldMatchesRow`, where a session may come back on another port than it had |
| `sessions_crash` | 2 sessions, 1 port, 1 request, clock 0..1, a crash between any two steps, also during boot | `UsedPortIsLive`: no path leaks a port; `RecoveryAgrees`: when a new process starts to serve, the pool is exactly what the database says |
| `sessions_live` | 2 sessions, 1 port, 1 request, 2 launches, crashes, hung launches, sweeps that overlap them; `FairSpec` | `OthersPortsUntouched`: only work for a session frees its port; `EveryLaunchEnds`; `DeadServersNoticed` |
| `generation` | 1 session, 1 request, 2 generations, crashes, waits answered by an error, five sets of meetings; `FairSpec` | `GeneratedHasOutput`: what says generated has its output in its volume; `ArchivedUnlessRestarted`; `NothingLeftAtRest`: no generation container survives, crashes included; `SweeperSparesLive`; `EveryGenerationEnds` |
| `test_runs` | 2 runs, 1 slot, 2 files of 1 or 2 bytes under a cap of 2, clock 0..1; `FairSpec` | `RoomAccounted`; `FilesReadOnce`; `PendingJobHasRun`; `EveryTestEnds` |
| `containers` | 1 legacy session and 1 other session, 1 port, 1 request, 2 container ids, 2 events on their way, refusals, failed statements, a stream that ends, crashes, three sets of meetings | `RowOwnsPort`; `NoPortKept`; `RunningIsKnown`: Stop, Reload and Remove reach a container that runs; `StatusTellsLife`; `RemoveFreesItsOwn`: a release without a guard frees the port of the removed container |
| `algorithms` | names: 4 slots, 3 players, 4 games, base 2, 4 characters; templates: every text of at most 5 lines of 8 kinds, and every option of at most 4 more lines of 13 values or of 6 comments; archives: every output of at most 3 entries of 6, every import of 6; inputs: 2 configure requests that fail, overlap and repeat, 4 configurations of 2 players and 2 worlds, one generation at once | `UniqueNames`; `ShortNames`; `OptionsAreTheSections`; `DefaultCanBeRolled`; `RestoredAsGenerated`; `ConfiguredIsGiven`: a generation that reads undisturbed gets the last configuration whose uploads nothing came between |
| `late_launch`, `stopped_hold`, `events_end` | as small as the disagreement allows | one property each, which the code breaks: see [what the models found](#what-the-models-found) |

Why the bounds are enough. Two sessions that want one port already make every
conflict between owners: the loser finds the pool full, evicts a hold, or waits for
an expiry. A third session matters to the order of holds only, which the pool of
`mutexes` has. Three launches are one running, one late and one new. With TTL 1 and
a clock that goes to 1 a reservation ends at 1 or at 2, and the first expires.
`sessions_serial` has one port, so that launches evict the holds of others;
`sessions_holds` has two, so that a session may lose its port and get another. In
`generation` sessions share nothing, so one is enough; two generations are one that
is late, or whose output is still there, and one that is new. In `test_runs` two
bytes of room hold two small files or one large one, so the cap refuses; a file
staged at 0 expires at 1; one slot makes tests queue. For the verdict the override
always withdraws: its value is in no property, and what matters is that it puts back
the copy it read. With the value TRUE the instance is nine times larger and checks
without error too. In `containers` the port is contested by the session launched
elsewhere; the second container id is that of a container created anew while an
event of the first is on its way. No two requests meet there, since no property of
the run says anything of such executions. Among the one-shots an id is stale after
one tick, and two calls are the one that is overtaken and the one that overtakes;
operations that share neither the cache, nor the listing, nor an object are not
mixed, since they cannot meet. In `algorithms` four names in base 2 reach counters
of three digits within four characters, so that every way of cutting a name happens,
the whole suffix not fitting included; the four configurations give a player up,
take one over, and name one twice.

Symmetry over sessions, requests, runs, calls, images, slots or configure requests
is used where only invariants and action properties are checked, never with a
liveness property. Deadlock is checked in every run but `algorithms`, whose
algorithms end.

**Fairness.** `Sessions!FairSpec`: the ticker never stops (weak fairness of the
sweeper), a process that starts finishes its recovery (weak fairness of the
boot), and a launch past its deadline, or a server found dead, is seen by some
sweep (strong fairness of those two choices: a launch past its deadline is past
it at every later sweep). Nothing is assumed of clients, of launch goroutines,
which may hang in a Docker call, or of crashes; hence `DeadServersNoticed` is
about executions in which the process in the end stays up. `Generation!FairSpec`
is the same of its sweeper and boot, and says that the generator in the container
ends; nothing is assumed of the goroutine, whose context has no deadline, so
`EveryGenerationEnds` rests on the sweeper alone. `TestRuns!FairSpec`: a test is
bounded by PREFLIGHT_TIMEOUT, and goroutines that wait on a channel are served in
order, so strong fairness of the slot. `Containers!FairSpec`: the goroutine of
main.go handles what it reads and connects anew; `events_end` shows that this is not
enough to watch for good.

## Proofs

Checked by TLAPS from nothing, without assumptions other than those each module
states about its constants (`PortAssumption`, `SessionAssumption`, `TimeAssumption`,
`SessionsAssumption`, `ContainersAssumption`, `GenerationAssumption`,
`RequiredFilesAssumption`, `TestRunsAssumption`, `VerdictAssumption`,
`OneShotsAssumption`, `InputsAssumption`, `SlotNamesAssumption`,
`TemplatesAssumption`, `ArtifactsAssumption`). They say what the constants are: that
no value stands for two things, that times, sizes, weights and bounds are numbers,
that there are finitely many runs, and that a configuration, the name of a game, a
text and the entries of a zip are lists.

| Theorem | States, for every value of the constants |
|---|---|
| `PoolTypeCorrect`, `PoolDisjoint`, `PoolUsedNeverTaken`, `PoolHeldTakenOnlyWhenFull`, `PoolImplementsLease` | the properties of the pool |
| `SessionsTypeCorrect` | every row, container, request, launch and sweep is well typed |
| `SessionsDisjoint`, `SessionsUsedNeverTaken`, `SessionsImplementLease` | what the pool promises survives every interleaving of the orchestrator with crashes |
| `SessionsOnlyOwners` | `OthersPortsUntouched`, if the launch statement does not fail |
| `SessionsNoLeak` | `UsedPortIsLive`, if `Overlap = {}`; crashes and failures of the launch statement included |
| `SessionsRecoveryAgrees` | `RecoveryAgrees`, if `Overlap = {}`, with crashes |
| `SessionsHoldMatchesRow` | `HoldMatchesRow`, if `Overlap = {}`, with crashes |
| `SessionsRunningOwnsPort`, `SessionsUsedPortUnbound` | `RunningOwnsPort` and `UsedPortUnbound`, if `Overlap = {}` and the process does not crash |
| `GenerationHasOutput` | what says generated has its output in its volume, whatever meets but a deletion, unless its wait was answered by an error |
| `GenerationArchived` | and in its archive, until a crash of the process or a relaunch, if neither another generation nor a deletion meets it |
| `GenerationNothingLeft` | no container is left beside a session without a goroutine, crashes included, if nothing meets and Docker refuses no removal |
| `GenerationSparesLive` | a sweep that can look condemns no generation that runs |
| `GenerationTypes` | every variable of Generation is well typed |
| `TestRunsReadOnce` | a provided file is read by one run only |
| `TestRunsJobHasRun` | a job that is pending has a run that will settle it |
| `TestRunsRoomAccounted` | the bytes counted are those staged and those being read, and never above the cap |
| `TestRunsSlotsCounted` | the slots taken are the tests that generate, and never above the limit |
| `TestRunsTypeCorrect` | every file, run, job and slot is well typed |
| `ContainersTypeCorrect` | every row, container, request and event is well typed, whatever meets and fails |
| `ContainersRowOwnsPort`, `ContainersNoPortKept` | `RowOwnsPort` and `NoPortKept`: no two requests meet on a container; crashes, refusals and failures included, but for the port of a dispossessed row |
| `ContainersRemoveFreesItsOwn` | `RemoveFreesItsOwn`, on the same conditions, without which the code breaks it |
| `ContainersRunningIsKnown`, `ContainersStatusTellsLife` | `RunningIsKnown` and `StatusTellsLife`: until a crash, for the sessions nothing was refused of, and with what each names not met |
| `VerdictSettledIsFree` | a settled verdict has no owner and withholds nothing |
| `VerdictOlderStartsWriteNothing` | a started run that is not the last one writes no verdict |
| `OneShotsImageIdFresh`, `OneShotsDetachedLeaveNothing`, `OneShotsSidecarIsWhole`, `OneShotsListedOnce` | the properties of the one-shots |
| `OneShotsTypeCorrect` | every variable is well typed: nothing is stored that was neither printed nor given by an admin |
| `InputsConfiguredIsGiven` | a generation that reads undisturbed is given a whole configuration |
| `NamesAreUnique`, `NamesAreShort` | no name is proposed to two slots, and none is empty or longer than the limit |
| `TemplatesOptionsAreTheSections` | Parse finds the options that a look at the whole text finds |
| `TemplatesDefaultCanBeRolled` | the default of an option is a value of positive weight when it has one |
| `ArtifactsRestoredAsGenerated` | the output restored from the archive is the output, without the saves |

*The pool.* `PoolInv` is the type invariant, `UsedHeldDisjoint`, and
`NoHoldBeforeHolds`: no port is held before boot has recovered the ports in use.
The third is what makes the second inductive: `Recover` overwrites `used` without
a look at `held`. Each action is one step of the proof. For the refinement, the
lemmas about `LeaseOf` say what a change of one map does to the lease; then a
method is a Grant, a Keep, a GiveBack, or a stutter.

*The orchestrator.* Every action of `Sessions` is a step of `PortPool` or leaves
the pool alone (lemma `PoolSteps`), so the pool's invariant and its refinement
carry over. Type correctness is not inductive by itself, because an actor that
has no session would index `rows` with none: `AtWork` says which steps have a
session, a port or a listed row in hand, and which operations reach which step.
`SessionsInv` is `TypeOK /\ PoolInv /\ AtWork`. `SessionsOnlyOwners` needs
`DbFails = FALSE`: `Release` on the error path of Launch has no owner guard, and
TLC shows the port of another session freed when it is not excluded.

*One actor per session.* The last five theorems about Sessions assume `Overlap = {}`, and each
invariant rests on the one before. `LiveInv`: at most one request, launch or sweep
is at work on a session (`OneActor`), and that actor knows what it relies on: until
when the port in its hands is in use and what the row says meanwhile (`HandlerKnows`,
`LaunchKnows`, `SweeperKnows`); so a port in use has a row, or an actor about to
write or free it (`Orderly`). A crash empties the pool and the hands together, which
is why the leak is excluded with crashes too. `CurrentInv`: a row the sweeper listed
is still as listed when it comes to it, because a session is listed once
(`OnceListed`) and nobody else works on it (`Current`), and the ports on record are
ports of the pool (`Recorded`). Boot then puts every row that runs back in use.

`KeptInv` adds that a port is held where the row says, so for a session at most one,
until the deadline the row says or is about to say, and that a session about to let go
of its port or of its row has lost its hold (`Kept`, `LettingGo`): the port it took was
the one it held. `OwnerInv`: a session that is launching or running uses its port
until its own actor begins to give it up (`GivingUp`, `Owner`). `BoxInv`: a container
that is up binds a port its session uses, under an id its actor knows, and is up no
more when that actor frees the port (`Boxed`); a row in "launching" has its goroutine,
so a sweep never meets a launch. These two are for a process that does not crash, and
the code breaks both after a crash between the release of a port and the status:
another session may have launched on the port, and boot finds two rows that run on it.

*The files.* `FilesReadOnce` is inductive with `InUseWasStaged`: a file in the
store or in the hands of a run has an identifier that was given out, so a new
file does not have it. For `PendingJobHasRun`, `JobsInv` adds that a run settles its
job before it leaves "generate", on every path; a job that expired is simply gone,
and its run finds nothing to settle. `RoomInv` states the count as two sums, over
the files staged and over the runs. The sums of the model are folds of the library,
whose function over subsets is unfolded once (`BytesIsTotal`, `ReadIsTotal`) and
compared with `Total`, for which the lemmas say what a sum of two disjoint sets is
and what one changed entry does. A step then moves bytes from one sum to the other
(take), or into one (stage) or out of one (release, prune). `SlotsInv` counts `Holders`, the
tests at "generate": the slot is given up in the step that leaves it. Type
correctness needs both, since `size` and `inUse` are bounded.

*The legacy containers.* Four layers, each on the one before, because each property
needs less to meet than the next. `HandsInv` is the type invariant with what each
step of a request or goroutine has in hand, whatever meets. `OwnInv`, while no two
requests meet on a container: `OneRequest`, the port on record is in use for its
session until a removal has freed it (`RowsOwn`), a port in use is on record or in
the hands of a creation (`UsedKnown`), and a request knows the port of its row
(`RequestOwns`), unless that row was dispossessed. It survives crashes because
`Recover` rebuilds the pool from the rows, and names as dispossessed those whose
port a running session has. With two removals the second would free a port that
another session has by then, and TLC shows it. `KnownInv`, until a crash and while
no session is created under an event of its former container: a container ever
started is on record, or its goroutine is about to record it (`GoroutineKnows`,
`RowKnows`), and events and requests speak of it (`EventKnown`, `RequestKnows`).
Both are about the sessions nothing was refused of: a refused call only adds to
`refused`. After a crash that conclusion is false: a container may run that no row
names. `TellInv`, when nothing meets: a row that neither an event, a goroutine nor a
request is about to write tells whether its container runs; the *latest* event on
its way tells the truth, and so does a request that is about to write. Older events
may lie, since they are handled before it.

*The verdict.* `SettledIsFree` is not inductive: a stale copy may be put back at
any later time. `FreeInv` asks the same of every copy in anybody's hands
(`CopiesFree`), that a run about to store has an outcome (`OutSettled`), and that
the mutex is held only where the object is changed (`LockedMutates`). Lemma
`RunStep` reduces a step of a run to what it makes of that run; `MutatedFree` says
that no change makes a free verdict unfree. For `OlderStartsWriteNothing`,
`NewestInv` adds that the owner of the verdict is the newest run and that a copy
taken under the mutex is current, both until a writer without the mutex comes.

*The generation.* `GenerationInv` has three layers, because each property needs less
to meet than the last. Whatever meets: `KnownInv` (what is at work has a session)
and `Outputs`, where a goroutine past its container that won has its output in the
volume, if its wait was not answered by an error (`WonHasOutput`): that is why its
later, unguarded "generated" is true. While no two pieces of work meet on a session
(`Sole`): `Follow`, which ties the row and the container to the goroutine, and from
which a job id in the row or in the hands of the sweeper means that the container is
gone (`JobAfterBox`, `ListedJobs`); and, until a crash, `Archived`, which adds what
a goroutine carries to the archive, for the rows no relaunch has made generated.
When nothing meets (`env = {}`): `Rests`, by which the row of a container says
"generating" whenever a boot looks at it. The lemmas named `...Does` say what each
action changes, and the rest of the proof cites these instead of the actions.

*One-shots.* `OneShotsInv` says where a call may be (`OnPath`: on the path of its
operation), how old the id in its hands is (`IdFresh`, `CacheFresh`: an id that
waits to be noted was the tag's after the call began to ask), that a call for
options never holds a part (`NoPart`), and that one call at a time lists, and lists
what is not known (`OneLists`). Its type invariant needs one fact more: a call comes
to its removal with a result or a failure, and stores only a result (`HasResult`).

*The inputs.* `InputsInv` says that the last uploads of the request that is `alone`
are what is stored (`AloneWrote`, `IntendedStored`), and that an undisturbed reader
holds what is stored (`ExpectedRead`): an upload makes both void, so the proof is
about what survives.

*Names.* A name is given only when it is not in `used`, and `used` is the set of
names given: uniqueness needs nothing of how a name is built, so it does not depend
on the truncation. Its length does: the numeral of a counter is a recursive
function, which is first shown to exist (`NumeralIsDefined`), so that its equation may be
used; then a suffix is cut until it fits, and a base until the suffix does.

*Templates.* `OptionsOf(text, heads)` is the reference as a function of the text and
of the lines that begin an option. `TemplateInv` says that Parse has the options of
all the heads so far, or, inside an option, of all but the last one, with the
comments and values read since (`UnderWay`). A new line changes no option that has
ended, and a flush appends the one under way. The default rests on `HeaviestExists`:
among values of which one has a positive weight there is a first heaviest one, which
is not the weight 0 the loop begins with.

*Archives.* `ArtifactsInv` says that what is stored is the archive of what was
captured, or a file a member gave, and that the volume is what the restore makes of
it. The theorem then compares two walks through a list: the files that are no saves,
in order, and of these the last one under each name.

*Induction.* The library's induction theorems take an operator and cannot be used.
The proofs that need induction use sets instead: a set that has 0, and n + 1 when it
has n, has every number (`CountingUp`, from the theorem that < on Nat is well-founded).
Sums, numerals, filters and the loops over values rest on it.

**Conditions.** The conditions of Generation and Containers are in the properties
themselves, as meetings named by `env`. Those of Sessions (`Overlap = {}`, no crash, a
launch statement that does not fail) are hypotheses of the theorems and the constants
of the runs. `OthersPortsUntouched` is checked with sweeps that overlap the rest and
proved with everything overlapping. What the code does where a condition fails is told
[below](#what-the-models-found).

**Only model-checked.** The liveness properties `EveryLaunchEnds`,
`DeadServersNoticed`, `EveryGenerationEnds` and `EveryTestEnds`: the prover has
neither fairness nor ENABLED. The violations, of course, are found and not proved.

## What the models found

Three runs check one statement each and find an execution that breaks it:

* `late_launch`: "A running session's port is never taken" (`portpool/pool.go:61`).
  The sweeper crashes a launch on its deadline and frees its port; another session
  launches on it; the late goroutine still marks its own row running
  (`session.go:587`);
* `stopped_hold`: a manual stop "expresses the intent to end the game: its port is
  not reserved" (`session.go:683`). The sweeper, by the row it listed, reserves the
  port of a session stopped by hand meanwhile (`port_reservation.go:26`);
* `events_end`: "Watch Docker events in background" (`cmd/orchestrateur/main.go:81`).
  A stream that ends without an error sends nothing on errc
  (`docker/client.go:1469`); the loop of main.go waits for it for ever, and nothing
  watches any more.

The following are reproduced by checking the property named, with the constants
given and the rest of the .cfg of the module kept. The property is a definition of
the module, with a note that the code breaks it.

| Property | How | What happens |
|---|---|---|
| `UsedPortIsLive` of Sessions | `MCSessionsSerial.cfg`, one session, two ports, Ops launchFile and launch, Overlap {"handlers"} | two launches of one session pass the status check (`session.go:459`, `608`); the row keeps one port, the pool both |
| `HoldersPausedOrCrashed` of Sessions | Ops launchFile and configure | ConfigureSession makes a paused session a draft and leaves its hold (`session.go:1111`), which boot would not rebuild (`db/session.go:347`) |
| `DeletedLeavesNothing` of Sessions | Ops launchFile and delete, Crashes TRUE, one request | the bridge is removed by the id on record, which a launch interrupted by a crash never wrote (`session.go:738`); yet "DeleteSession removes all resources for a session" (729) |
| `OthersPortsUntouched` of Sessions | `MCSessionsSerial.cfg`, Ops launch and stop, 2 launches, TTL 0, MaxTime 0, Overlap {"handlers"}, DbFails TRUE | the unguarded `Release` on the error path of Launch (`session.go:483`): two launches of one session pass the status check, a stop gives the port up, another session takes it, and the launch that could not be recorded frees it, although "an unguarded Release would steal the port from the new session" (`portpool/pool.go:151`) |
| `GeneratedIsArchived` of Generation | `Envs <- JustNone`, Crashes FALSE | "generated" is written before the output is uploaded (`session.go:289`). A failed upload crashes the row, which keeps its output_file, so a relaunch makes it generated again (`session.go:797`, `856`), without an archive; a crash of the process in between does the same. Yet "we must not advertise a session as generated without a retrievable artifact" (296) |
| `OlderRunsWriteNothing` of Verdict | `MCMutexes.cfg`, Overrides {}, no failures, no restarts | the run of an upload has the empty run id, as has a settled verdict: it owns a verdict settled by a run started after it (`runtime.go:101`; "only the last run started may write it", `storage/client.go:57`) |
| `StealsNoPort` of Containers | `Envs <- Ordinary`, Crashes FALSE | Remove releases the port and then deletes the row (`service.go:736`). When the deletion fails, another session is launched on the port and the removal is tried again, it frees the port under that session |
| `PassedTestSucceeded` of OneShots | `MCMutexes.cfg` | waitContainer does not look at the HTTP status: an error answer is exit code 0, and the test passes (`docker/client.go:464`; "Returns nil when the generation succeeds", 712) |
| `GamesOfTheirImage` of OneShots | `MCMutexes.cfg` | the tag moves between the cached id and the listing: the files of one image are kept under the id of another (`declared_files.go:58`) |

Others in `Sessions`:

* a session deleted while the sweeper reserves its port keeps the reservation until
  it expires (`HoldMatchesRow` with Ops launch and delete, Overlap {"sweeper"}, two
  ports): the sweeper holds by the row it listed (`port_reservation.go:26`);
* a session restarted, or stopped and launched again, on another port while the
  sweeper has it on its list is found dead by its former container id, crashed
  although it runs, and its former port is reserved (`HoldMatchesRow` with Ops launch
  and restart, Overlap {"sweeper", "goroutine"}, or Ops relaunch and stop, Overlap
  {"sweeper"}; two sessions and ports);
* a crash inside StopSession, between the release and the status, leaves two rows
  "running" on one port (`RunningOwnsPort` with Crashes TRUE, two requests, Ops
  launchFile and stop);
* a hold evicted between Pool.Hold and SetPortReservation leaves a record of a
  port the pool gave away, and later two records of one port. The delayed
  ClearPortReservation of an eviction may in turn erase a newer record.

In `Generation`:

* a row is "pending" for good when the process dies before MarkGenerating: neither
  boot nor the sweeper looks at pending rows;
* a pending session is not in progress for Generate (`session.go:215-221`): a second
  generation of it is accepted, fails on the name of the container, and crashes
  the row of the first;
* the second UpdateSessionGenerating (`session.go:275`), which stores the job id,
  comes when the container is gone and overwrites what the sweeper wrote;
* an error of the sweeper's inspection crashes a generation that runs; if the
  process then restarts, its row is not interrupted any more and the container
  `archilan-gen-<id>` is left and bars the next generation;
* a failed upload after "generated" crashes a session launched meanwhile;
* a wait answered by an error status counts as exit code 0 (`docker/client.go:458-469`,
  `993-1014`): the row says generated, and there may be no output;
* a removal that Docker refuses leaves the container `archilan-gen-<id>`, which bars
  the next generation;
* a crash inside DeleteSession leaves a row that says generated without a volume;
* a new generation leaves the old output beside its own in `/data/output`.

In `Verdict`:

* a test that cannot complete restores the verdict it read before it started. If
  that was the pending verdict of a run that ended meanwhile, it is pending for
  good, which is what the restore is there to avoid (`apworld_preflight.go:152`);
* an override, and the write of an upload, may put back a verdict that a run
  settled meanwhile, or lose each other's flag, because neither takes
  `preflightMetaMu`;
* the check that skips a test without files while one with files is pending
  (`apworld_preflight.go:163`) is not under the mutex; and after a restart such a
  pending verdict makes every test without files be skipped;
* an error of Docker during a test is stored as "failed" (132-141), although
  `apworld_preflight.go:89-91` says an infrastructure error leaves the status
  untouched.

In `Containers`:

* a stop or a restart that Docker refuses (`docker/client.go:365-390`) marks the row
  stopped, or starting, while the container goes on as it was; a removal it refuses
  frees the port and deletes the row of a container that runs;
* a port on record for a container and for a running session goes to the session
  at boot (`service.go:406-418`); the removal of the container then frees it;
* a Get that read the row of a former container writes its status and id over
  those of the new one, if the session is created again while it inspects;
* a start that fails leaves a created container and a row without an id: Remove
  leaves the container, whose name bars later creations;
* a crash between the start and the id leaves a container that runs and that no
  row names;
* the last "starting" of a creation overwrites the "running" an event wrote, until
  somebody polls.

In `Inputs`:

* a new configuration deletes no YAML: a player it does not name any more stays in
  every later generation, with a world the manifest may not bring;
* a request that fails after its first upload, or overlaps another, leaves a mixture
  of the two, and the status of the session says nothing of it;
* a generation reads the manifest before the YAMLs, and a configuration writes it
  after them: if they meet, the worlds are the old ones and the YAMLs the new;
* the status "draft" is written by what was read before the uploads
  (`session.go:1111`): it may overwrite the "pending" of a generation.

In `OneShots` and the algorithms:

* PutDataToVolume, IntrospectOptions, ReadMultidata, GenerateTemplate and
  CopyOutputDirFromVolume remove with the context of the request: a client that
  leaves leaves the container behind, and one of PutDataToVolume keeps the volume
  of its session from being removed;
* the options of an upload are read behind its answer, by the image of that time,
  and may overwrite newer ones;
* a comment in column 0 inside a game section ends the section for the parser; a
  minimum below 0 is not recognised, so the option has no bounds; a toggle is on by
  default whenever "true" has a positive weight, a heavier "false" or not;
* two files of one name in two folders of an output collide when it is restored,
  and the last one stays.

## What is not modelled

* The API handlers, which keep no state (their concurrency is in the models), the
  webhook, which nothing waits for, the configuration, whose values are constants,
  logs, documentation, `cmd/check_templates`.
* Server options and passwords of a session, resource limits and networks: no
  property depends on them.
* The readers of stored apworlds (GetApworldOptionTypes, GetApworldLocations and
  the like), which change nothing.
* The validation of a YAML and what it says besides its world.
* The text the parser's regular expressions match, and labels: a line of
  `Templates` is already what they decide.
* In `Sessions`, refusals and failures of Docker's stop and remove, and failures of
  statements other than the one of a launch. `Containers` has both. What no module
  has is a call that took effect though its answer was lost, but for what a crash of
  the process loses.
* Containers whose id was lost with the answer of Docker or with the process: they
  have no name, and no code looks for them.

## Plan

Everything above is modelled and checked, and every invariant and action property
of the passing runs is a theorem. Left, in this order:

1. `HoldMatchesRow` when requests overlap a sweep. TLC finds it true there for
   launches with stops and launches with configurations, and false with a deletion,
   a restart, or a relaunch on another port (above): the theorem has to name the
   operations;
2. what crashes leave of `RunningIsKnown`: that the container no row names is the only
   one the recovery misses.
