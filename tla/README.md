# Kurtosis: specifications, model checks and proofs

Kurtosis runs distributed systems in *enclaves*.  The command line starts an
**engine**, which creates and destroys enclaves on Docker or Kubernetes; each
enclave has an **API container** that interprets Starlark scripts and starts the
services they ask for.  This directory holds TLA+ models of the parts of these
processes where concurrency, failure and restarts meet, the TLC runs over small
instances of them, and TLAPS proofs for every instance.

Paths are relative to the repository, with these abbreviations:

| short | file |
|---|---|
| MAN, POOL, CRE | `engine/server/engine/enclave_manager/enclave_{manager,pool,creator}.go` |
| SLOG, SPOOL, PUMP | `engine/server/engine/streaming/{starlark_logs,streaming_pool_manager,websocket_pump}.go` |
| RUN, EXE, INT, VAL | `core/server/api_container/server/startosis_engine/startosis_{runner,executor,interpreter,validator}.go` |
| API | `core/server/api_container/server/api_container_service.go` |
| NET | `core/server/api_container/server/service_network/default_service_network.go` |
| LFM, PWL, PWS, PVC | `engine/server/engine/centralized_logs/client_implementations/persistent_volume/`: `log_file_manager/log_file_manager.go`, `file_layout/per_week_file_layout.go`, `stream_logs_strategy/per_week_stream_logs_strategy.go`, `persistent_volume_logs_database_client.go` |
| SEND, CONN, REST | `engine/server/engine/centralized_logs/logline/logline_sender.go`, `engine/server/engine/server/engine_connect_server_service.go`, `engine/server/engine/streaming/service_logs.go` |
| STORE | `core/server/commons/enclave_data_directory/files_artifact_store.go` (with `file_cache.go` and the artifacts' database) |
| DK | `container-engine-lib/lib/backend_impls/docker/docker_kurtosis_backend/` |
| KUBE | `container-engine-lib/lib/backend_impls/kubernetes/kubernetes_kurtosis_backend/` |
| KM | `container-engine-lib/lib/backend_impls/kubernetes/kubernetes_manager/kubernetes_manager.go` |

## 1. The system

### 1.1 Components that are modelled

**Enclave pool** (POOL).  State: a list of idle enclaves in a buffered channel, a
channel of fill signals, the context that stops it.  Operations: `init` sends
as many signals as the pool has slots; the `run` subroutine takes a signal,
creates an enclave and buffers it; `GetEnclave` takes one, signals, checks it
and renames it; a goroutine destroys the idle enclaves of earlier engines, by
name and creation date; `Close` cancels, destroys what is idle and closes the
channels.  *Hard:* three goroutines and the request on two channels, `Close` at
any moment, an engine that is killed and leaves enclaves behind.  *Correct when:*
no send blocks (the request holds the manager's mutex while it sends), no enclave
is given to two users, none is forgotten, none of a user is destroyed, the
pool fills up again.

**Enclave manager** (MAN).  State: the mutex that every request holds, the list
of identifiers ever given out.  Operations: `CreateEnclave` (from the pool or
directly), `Clean`, `StopEnclave`, `DestroyEnclave`, `Close`.  The
pool's enclaves are Kubernetes namespaces (KUBE): a name, a status, a date.

**Enclaves, engine and helpers on Docker** (DK, its network allocator,
`engine_functions/`, the CLI's `engine_manager/`).  State: Docker's networks with the
holders of their addresses, volumes, containers; the allocator's process-wide set of
gateways; the API container's own bucket of taken addresses.  Operations: create,
stop and destroy an enclave, launch its API container, make and remove the engine with
its logs aggregator and reverse proxy, relaunch the API containers when an engine
boots.  *Hard:* each is a dozen Docker calls with deferred functions that undo them, two
parties hand out the addresses of one subnet, and the engine is replaced while
enclaves live on.  *Correct when:* what is left can always be found and destroyed, a failed
creation leaves nothing, no address is given twice, every enclave is behind
the proxy.

**Streams of Starlark output** (SLOG, SPOOL, PUMP, the REST handlers).  State: per run a
goroutine that reads the API container's stream and offers each line on an unbuffered
channel; a pool of such streamers with a size and an expiry; a pump per websocket.
*Hard:* the reader, the pool's callbacks, several handlers, the pump and the client all end
at their own time.  *Correct when:* the lines of a run go to one handler, nothing in use is
closed, everything ends.

**Service logs on the volume** (LFM, PWL, PWS, PVC, SEND, and the handlers CONN and REST).
State: a file per service and week; per request a goroutine for each service, the sender's
mutex and buffer, a bounded channel of lines, an unbuffered one of errors.  Operations: one
goroutine creates the files of the week, another removes those that have left the retention
period, `DestroyEnclave` removes an enclave's; a request lists, opens, reads and then follows
files; a last goroutine waits for the readers, flushes and closes the channels.  *Hard:* the files come and
go while they are read, the window that is read and the one that is removed must not
overlap, and four kinds of goroutine end at their own time.  *Correct when:* a client gets every line it asked
for, once and in order, a request ends, and old files go.

**Instructions plan and its resolution** (INT,
`startosis_engine/instructions_plan/`, `kurtosis_starlark_framework/`).  State: none
beyond a call.  A submitted script is laid over the tail of the enclave's
plan: the search tries one index after another, interprets the script under
a mask of the instructions from there on, and keeps the first mask that nothing
contradicts; an instruction equal to the one in its slot is skipped.  *Hard:* the
order of attempts, statuses of components that go from one attempt to the next,
instructions that depend on an updated component, each type with a rule of its own.
*Correct when:* skipping is invisible; of what `add_services` and tasks make it is not (section 6).

**Starlark runner, executor, validator, RunStarlark handlers** (RUN, EXE,
VAL, API).  State: the enclave plan in memory and in the database, the
executor's mutex, the global set of warnings, a chain of unbuffered channels.
*Hard:* the runner's mutex covers only the start of a run, so
runs overlap up to the executor's mutex, which one goroutine takes and another
releases; a failing instruction changes the enclave but not the plan; the client
may leave; the process may die.  *Correct when:* executors exclude each other,
the plan says how the enclave came to be, a success means what it says, runs
end.

**Service network** (NET), **user services on Docker** (DK
`user_services_functions/`) and the **enclave
database** (`container-engine-lib/lib/database_accessors/enclave_db/`).  State: the
registrations (UUID, address, status, config), the taken addresses, the
containers.  Operations: `AddServices`, `UpdateServices`, `RemoveService`,
`StopServices`, `StartServices`, each a chain of Docker calls and transactions;
`startRegisteredServices` runs one goroutine per service behind a semaphore;
two deferred functions roll a failed batch back.  *Hard:* a
failure or the death of the process between any two calls.  *Correct when:*
what runs is registered or reported as abandoned, a batch is all or nothing, a reported success is
true, statuses are true, addresses are given to one service at a time.

**User services on Kubernetes** (KUBE `user_services_functions/`).  State: the same
registrations, and by service name a Kubernetes Service, a stateful set with its pod and a
claim for the persistent directory.  Operations: the same, as chains of Kubernetes calls.
*Hard:* the objects carry the service's name, so what one failure leaves meets the next service
of that name; deletions take effect later; the deferred functions take back what an earlier
instruction made.  *Correct when:* the same abstract enclave as on Docker, and a directory
that outlives its service's restarts.

**Files artifact store** (STORE, with the instructions and RPCs that use it).  State: three
maps in memory, saved as a whole on some paths only; the cache's files.  Operations:
`StoreFile`, `UpdateFile`, `GetFile`, under clients that look a name up, then write.  *Hard:* a
write is several steps on the disk, the maps and the files are saved apart, clients check
without the mutex that they write with.  *Correct when:* it is a map from names to whole
contents that a restart does not change.

### 1.2 How they interact

The CLI starts the engine with Docker calls and talks to it by RPC.  The engine's handlers
call the manager, which calls the pool through channels and the backend directly.  The
engine starts an API container in each enclave and shares with it the enclave's network and
volume only.  The logs aggregator, a container of its own, writes the services' logs to a
volume that the engine reads.  The engine's REST handlers stream a run's output from the API container
to clients through streamers and pumps.  In the API container a RunStarlark handler calls
the runner, which starts a goroutine that interprets (reading the
executor's plan without a lock), validates (reading the service network) and
executes; the executor calls each instruction's `Execute`, which calls the
service network or the artifact store, which call the backend and the database.  Response
lines go the other way, through three channels, to the handler's stream.

`EnclaveManager` extends `EnclavePool`; `DockerEnclaves` extends `DockerHost`;
`StarlarkLogs` extends `WebsocketPump`; `StarlarkRuns` extends
`PlanResolution`; `ServiceNetwork` extends `UserServices`.  `ServiceNetwork` and
`KubernetesServices` both implement `Enclave`, and `FilesArtifactStore` implements
`ArtifactMap`.  The Starlark modules
see the service network only through what an instruction leaves of a service
(running, missing, or registered without container): `Applied` and `Partial`.
`ServiceNetwork` shows that these are the outcomes.

### 1.3 Components that are not modelled

`PROJECT.json` lists all of them with the reason.  In short: runtime
values and `set_service` are planned (section 7); the
gateway, the web application, API libraries, launchers, expander, metrics and text
translators are clients of modelled calls, pure functions or input and output.  Generated
bindings (RPC, REST, protocol buffers, mocks) make up more than a third of the
repository's lines and have no behaviour of their own; the Docker and Kubernetes managers
appear as the single calls that the backends make of them.

## 2. Modules

| module | models | state and actions |
|---|---|---|
| `EnclavePool` | POOL, CRE, KUBE | `ns` the namespaces, `fill`, `idle`, `toInit` the channels, `runPc`/`oldPc`/`closePc` the goroutines; an action per backend call or channel operation |
| `EnclaveManager` | MAN | `op` the holder of the mutex; the handlers, `Exit`, `Crash`, `Restart` |
| `DockerHost` | the Docker manager | `network`, `holder` of each address, `volume`, `apic`, `service`, `proxy`; one operator per call |
| `DockerEnclaves` | DK, network allocator, address tracker, CLI | `task`/`at` what the engine does with an enclave, `engine`, `aggregator`, `cli`/`goal`; an action per Docker call, undoing included |
| `StarlarkLogs` | SLOG, SPOOL, REST and websocket handlers | `reader` the goroutine, `pool`, `con` the handlers; an action per channel operation or call of the pool |
| `WebsocketPump` | PUMP | `pump`, `failed`, `cancelled`, `out` |
| `ServiceLogs` | LFM, PWL, PWS, PVC, SEND, CONN, REST | `file`, `inode`, `dirs` the volume; `maker`/`toMake`, `toRemove`, `toForget` who creates and removes; `pc`, `path`, `todo`, `pos` the readers, `buffer`, `mu`, `chan`, `waiter`, `handler` the request |
| `PlanResolution` | INT, mask, `TryResolveWith` | operators only: `OptimizedPlan`, `NaivePlan`, `Replay`, `RunPlan` |
| `PlanOverlap` | | every plan and script up to a length |
| `StarlarkRuns` | API, RUN, VAL, EXE | `h` handler, `g` runner's goroutine, `e` executor's goroutine of each run; `plan`, `saved`, `lock`, `warnings`, `state` |
| `UserServices` | DK, registration repository, address tracker | `reg`, `taken`, `cont` (a container runs, is stopped, or runs abandoned); one operator per Docker call or transaction |
| `ServiceNetwork` | NET, Execute of `add_service(s)`, `remove_service`, `stop_service`, `start_service` | `op` the phase, `todo` its loop, `gor` the goroutines |
| `KubernetesServices` | KUBE, KM, the same instructions | `reg`, `svc`, `set`, `claim` by name, `op` the phase; an action per call, and those of the cluster |
| `Enclave` | what both promise | `services`, `pending`; `Begin`, `Succeed`, `Fail`, `Break` |
| `FilesArtifactStore` | STORE, `upload_files`, `render_templates`, `store_service_files`, uploads and downloads | `mem`, `saved` the maps, `disk`, `writer` the mutex, `op` of each client |
| `ArtifactMap` | what the store promises | `art`; `Create`, replacing, `Lose`, `Restart` |
| `EnclaveManagerProofs`, `DockerEnclavesProofs`, `StarlarkRunsProofs`, `StarlarkLogsProofs`, `ServiceLogsProofs`, `ServiceNetworkProofs`, `KubernetesServicesProofs`, `FilesArtifactProofs` | | the theorems, and the lemmas they rest on |

The `MC` modules give each specification its small sets and, for the pool, the
symmetry of the UUIDs.  An action is the code between two points where another goroutine,
the backend or a crash can act.  Operators marked `mutant` are variants of the definition
below them, with a plausible mistake; no specification uses them.  They show that
each property can fail: every property of every run is violated when the named
definition is replaced by its variant.

### 2.1 Decisions about the pool

- `DestroyEnclaves` lists and deletes in one step; the update of an enclave's name is
  one step.  The removal of log files and cluster roles is left out.
- A panic in a handler is recovered by the HTTP server and releases the mutex; one
  in the pool's goroutine ends the process.
- An interrupt does not stop the REST server, so requests go on while
  `Close` runs.
- On Kubernetes, an enclave without pods has the status Empty, which is what
  `StopEnclave` leaves.
- Creation dates are compared by `old` (created before this process started, or in the same
  second): the code's dates have a resolution of one second.

### 2.2 Decisions about enclaves on Docker

- An address has one holder: gateway, proxy, API container or the enclave's service.  The
  services of an enclave are one container that may be started, stopped and started again.
- Subnets of deleted networks linger for a time Docker chooses (`SubnetsFreed`).
- The proxy and the aggregator are absent, up or stopped.  Each is destroyed by two calls, stop and remove, of
  which the second may fail; the next start finds a stopped one, since stopped containers are listed too (`shared_helpers.go:20`),
  keeps it and does not start it (`create_reverse_proxy.go:32`).  A helper whose start fails may stay behind created and
  not started, which is the same state.  A stopped proxy has no addresses and counts as connected to nothing.
- The helpers do not crash on their own; the volumes of tokens and data, the logs collector (its creation is commented out), networks of others,
  and `Clean` over several creations are left out.
- One enclave is created, stopped, destroyed and made again.  The invariants of two enclaves side by side are
  what the theorems of `DockerEnclavesProofs` add to the run.

### 2.3 Decisions about streams of output

- A line is its number.  The two kinds of handler are one that collects a run's lines and
  one that asks for a streamer's lines by UUID, over plain HTTP or a websocket.
- A ping that fails is a write that fails.  The flag that tells the pump is closed is read
  without a lock, so it may look unset (`PumpFails`).
- The purge of the pool when the REST server stops is left out.

### 2.4 Decisions about service logs

- A line is its number and its week; it is written at once and passes the request's filters.
  An inode outlives its name, so that an open file stays readable when it is removed.
- The model begins when one retention period is over; in each week of it each service wrote
  a line or none.  `NextWeek` waits for the remover's pass of the week (it makes one every six hours) and for a
  creation that began the week before.
- The aggregator makes the directory and the file that it needs.  It writes nothing for an
  earlier week, and nothing once the enclave is gone.
- A line of the week at the edge of the retention period is sent or dropped (the period ends
  within that week).
- `tail` is a third-party library: it gives the appended lines in order and starts over when a
  file has been truncated.  What it does when its file is removed is left out, and so is the
  turn of the week, at which a follower stays on the file it has.
- Left out: the symbolic links under a service's name and short UUID, half a line at the end of a
  file, the parsing of lines, a backend that fails to list, `RemoveAllLogs`, the layout with one file per service,
  a websocket between the handler and its client.

### 2.5 Decisions about Starlark

- An instruction is its type, the component it names, an argument and the artifacts it mounts.  Six of the twenty types
  are modelled: an `add_services` adds one service, a `run_sh` stores one artifact, under a name that nothing else
  uses (`TasksApart`).  Each type has its own `TryResolveWith`:

  | types | resolved with the one in the slot | modelled |
  |---|---|---|
  | `add_service` | same name: update if the instruction differs or a mounted artifact is updated, else equal | `ResolveService` |
  | `add_services` | equal at once if the instruction is the same, whatever became of its artifacts; same type and all of the earlier services: update | `ResolveNamed` |
  | `upload_files`, `render_templates` | same name: update if the instruction (or the MD5 of what is uploaded) differs, else equal | `ResolveNamed`, the first |
  | `run_sh`, `run_python`; `print`, `verify`, `get_services` | equal if the same, else unknown | `ResolveTask`, the first |
  | `exec`; `request`, `wait`, `get_service` | same: update if the service is updated, else equal; otherwise unknown | `ResolveExec`, the first |
  | `get_files_artifact` | the same of an artifact | no |
  | `store_service_files` | like `upload_files`, and an update if its service is updated | no |
  | `set_service` | same: update if the service is updated, else equal; anything else: update | no |
  | `remove_service`, `start_service`, `stop_service`, `get_running_services` | abort | `NotResolvable`, the first |

- A component remembers the artifacts it was made from, as they were, and what those were made from (`mounts`).  An
  `add_services` or `run_sh` that is skipped though an artifact it mounts has changed leaves what it made, and what is made
  from that, stale.  `MayBeStale` is the set of these components, from what the instructions mount; the properties compare
  everything of an enclave but their `mounts` (`Seen`).
- The lines a phase sends in a row are one step; the plan is read once per interpretation.
- `set_service` and values kept from one interpretation to the next are left out.
- A warning is identified by the run that caused it.
- Scripts are checked for overlap under `WellFormed`: a script names a
  component before it uses it and makes it once.

### 2.6 Decisions about services

- The executor runs one instruction at a time and each call holds the network's
  mutex, so there is one operation at a time.  `inRun` says that the run which was
  validated goes on; a new run begins only if every registered service has a
  container (`Validated`: the validator looks each of them up).
- UUIDs are counted, and the first free address is taken, as in the code.
- The calls of a rollback fail too.  A container that cannot be removed (`DestroyContainerFails`), or killed when its start went
  wrong (`CreateFails`), runs on, and the failure is only logged (NET:236, 1004): its registration, and with it its address,
  is then deleted by the deferred `unregisterService`.  Such a container is `abandoned`.  When the volumes of a
  removed container cannot be removed the registration stays, without a container, unless it is unregistered.
- The address and the registration are saved in one step; failures of the
  database, the record of identifiers
  and the deferred removal after a failed return value are left out.
- A container that does not start is left behind (`"create"`), as Docker does.
- The backend marks a stopped or started service and the network marks it
  again; this is one step.

On Kubernetes:

- An instruction is about one service, which has one persistent directory of its own.
  Tasks (bare pods), ingresses, the expansion of files artifacts and batches are left out.
- The cluster makes, readies and loses pods, and finishes deletions, at any time.
- The code's own panics (a claim that is being deleted is returned as nil, KM:465; the first
  pod of a set that has none) end the API container, as a crash does; one while a started service is read
  (`ReadServicePanics`) runs the deferred functions of the start before.
- Undoing the annotation of the ports removes it from a Kubernetes Service that had no annotations (`"read"`); one that had them
  keeps it, because the same map was changed, and so are the ports of the first change (`"reread"`).

### 2.7 Decisions about the artifact store

- A content stands for its own MD5; UUIDs share shortened forms as `Short` says.
- A copy from a service may be cut short by the backend; the pipe is then closed as if it had
  ended, so that the truncated archive is stored as a success (`cut`, `Torn`).
- `render_templates` and the copies swallow the store's error (they propagate a nil one), so
  the client is told of a success either way; `promised` counts only true ones.
- `RemoveFile` has no caller that reaches it.  A goroutine left by a cut copy is not counted
  as an operation.  Templates, compression and chunks are left out.

### 2.8 Constants that describe the environment

| constant | values |
|---|---|
| pool `Failures` | `create`, `launch`, `update`, `destroy` calls fail, `query` those of the pool and `list` that of `Clean`; pods `die`; a creation is `lost` (fails after it took effect) |
| `SubSecondStart` | may enclaves be created in the second the engine started? |
| `MayClose`, `MayCrash`, `Operations`, `MaxRequests`, `MaxRestarts` | interrupts, kills, the requests clients make, bounds |
| Docker `FailingCalls`, `MaxFaults` | the calls that may fail; how many failures, crashes and interruptions in all |
| `Pooled`, `Serving`, `NumSubnets`, `NumAddresses`, `MaxTries`, `MaxCommands` | who creates and who runs services; what there is to allocate; the code's retries; bounds |
| logs `PoolSize`, `MaxLines`, `Sockets` | the pool's limit, bounds, the clients with a websocket |
| service logs `Requests`, `Retention`, `ChanSize`, `NumLogLines` | kinds of request; the engine's setting; the channel's size (300 in the code); how many last lines are asked for |
| `BatchLogsAmount` | 1, as in the code |
| `LastWeek`, `MaxLines`, `MaxEvents` | bounds; the last one on weeks that pass, the creator's passes, the end of the enclave and the client's leaving |
| Starlark `Failures` | `interpret`, `validate`, `execute`, resolving the `output`, `persist` |
| Starlark `Clients` | may clients `overlap` runs, `leave`, ask for `dry` or `uncached` runs? |
| services `Failures` | `remove` and `start` calls, `create` (container made, not running), `ports` that stay closed, `ready` checks, `kill`, and the removal of a container's `volumes` |
| `BatchSize`, `MaxOps`, `MaxCrashes`, `MaxUuid`, `MaxIp` | parallelism of a run, bounds |
| Kubernetes `MaxFaults` | failing calls, lost pods and crashes in all |
| store `Kinds`, `Failures`, `MaxRequests`, `MaxCrashes` | what each client does; making or filling a file and the service's copy fail; bounds |

Crashes lose everything in memory and keep Kubernetes, Docker, the disk and the database.

## 3. Runs

| run | instance | shows |
|---|---|---|
| `pool_safety` | 2 slots, 3 UUIDs, 2 requests of every kind, failing creations, launches, renames and listings of `Clean`, an interrupt, a kill, 1 restart, creations within the second of the start | `SendsNeverBlock`, `HandedOutOnce`, `IdleEnclavesOwned`, `CloseRemovesIdle`, `PreviousRunsRemoved`, `EnclavesSurvive` |
| `pool_live` | 1 slot, 3 UUIDs, 1 request, dying pods, failing queries and renames, an interrupt, fairness | `RequestsEnd`, `PoolRefilled` |
| `docker_engine` | 1 enclave, 2 subnets of 4 addresses, 2 commands of the CLI, any call but the kill of the engine failing, 2 faults, fairness | `HostOK`, `NothingLost`, `CreationAllOrNothing`, `EnclavesReachable`, `OperationsEnd` |
| `log_streams` | 2 runs of 2 lines, a pool of 1, a plain and a websocket handler, fairness | `PoolOK`, `ConsumedOnce`, `StreamingEnds` |
| `service_logs` | 2 services, a period of 2 weeks, 3 weeks, 2 lines, a channel of 3, requests over RPC (all lines, the last one, followed) and REST (all, followed), 1 event, fairness | `VolumeOK`, `LinesDelivered`, `StreamsEnd` |
| `plan_overlap` | 9 instructions, plans and scripts up to 3 | `LargestOverlap`, `SkippingIsInvisible` |
| `star_sequential` | 3 runs one after the other, no instruction fails | `SuccessEstablishesScript`, `PlanDescribesEnclave`, `StreamsComplete` |
| `star_faulty` | 2 overlapping runs, failing instructions, dry, uncached, clients that leave, 1 crash | `PlanOK`, `ExecutorsExclude`, `PersistedWhenIdle`, `OnlyTheHolderChangesEnclave` |
| `star_live` | 2 overlapping runs, failing instructions, fairness | `EveryRunEnds` |
| `net_batches` | 2 services, 2 configs, 3 instructions, 4 registrations, 2 addresses, all of `Failures`, 1 crash, 2 goroutines, fairness | `RegistryOK`, `RunningIsRegistered`, `ImplementsEnclave`, `InstructionsEnd` |
| `kube_services` | 2 services, 2 configs, 4 instructions, 3 registrations, 2 faults | `KubeOK`, `DirectorySurvives`, `ImplementsEnclave` |
| `store_files` | 2 clients, 2 names, 2 contents, 3 UUIDs of 2 shortened forms, 3 operations, all failures, 1 crash, fairness | `StoreOK`, `PromisesKept`, `ImplementsMap`, `OperationsEnd` |

`HostOK`, `PoolOK`, `PlanOK`, `RegistryOK`, `KubeOK`, `StoreOK` and `VolumeOK` are the type invariants
of their modules, each next to the structural fact that the other properties rest on.  The pool's is
proved and no longer run (section 4).

**What the less obvious ones say.**

- `SuccessEstablishesScript`: after a run that reports success, the components its script
  names are as the whole script would have left them, however much was skipped.
- `PlanDescribesEnclave`: between runs, replaying the plan gives the enclave.  Like the one before and
  `SkippingIsInvisible`, it leaves out which artifacts a component that may be stale was made from (section 2.5), and
  nothing else: a service of an `add_service`, whatever else happens, has the artifacts there are.
- `RunningIsRegistered`: a container that runs is registered, or abandoned: the very call that removes or kills it failed, and
  the log asks the user to stop it.  Every other failure, and a crash anywhere, leaves nothing unregistered.
- `EnclavesReachable`: an engine that is up has an aggregator and a proxy.  They run if nothing has failed yet, and a proxy that
  runs is in front of every API container, after any failures; that they run after a failure does not hold (section 6).
- `ImplementsEnclave`: seen from outside, an instruction is one step that ends in one of the
  ways `Enclave` allows: a success did all it says, a failed add has made all of its new
  services or none, no other service is touched, UUIDs stay and stay distinct.  Two
  specifications, one over Docker and one over Kubernetes, implement the same module.  The
  refinement mapping hides an instruction under way: the abstract `services` keep the value they had
  when it began until it ends.
- `ImplementsMap`: under names, artifacts appear whole, keep their UUID, change only by being
  replaced, and a restart leaves them as they were.  What `ArtifactMap` had to concede is as telling: a
  replacement may be cut for ever, and one that failed may come back broken.
- `PromisesKept`: what a caller was told is stored is there, after every failure of others and
  every restart.  It is a history property (`promised`) because no single state shows it.
- `NothingLost`: an enclave is listed by its network, so a volume or a container without one
  can never be destroyed by Kurtosis.  One volume is excepted: a creation whose undoing could not remove it and went on to
  remove the network has told the user to remove it by hand (`"manual"`; DK
  `docker_kurtosis_backend_enclave_functions.go:133`).
- `DirectorySurvives`: once a service has written to its persistent directory the claim lives
  on.  `files` remembers the one way in which it may be given up (a start that fails after it claimed).
- `InUseIsOpen` in `PoolOK`: no eviction or expiry between the steps of `Consume` closes what a
  handler is reading from.
- `EnclavesSurvive`: an enclave of a user or of this process disappears only by the one who holds it: the
  request that destroys it, the creation that undoes it, `Close`.  What the remover may take by mistake is what
  was made in the second of the start.
- `LinesDelivered`: the lines of a service are in order and none comes twice; an RPC that ends
  well has given every line that was there before it and is still there.
- `RetentionKept` in `VolumeOK`: each pass of the remover looks at one week only, and yet no file that
  old is left after it.  The run has a period of two weeks; with one week, the default, it does not hold (section 6).
- `StreamsEnd`: a request ends, or it is followed and again and again has everything.
- `StatusIsTrue` in `RegistryOK` is limited to histories without a crash, because the status is written by a
  call of its own, and to services with a config, which an update that failed takes away.
- `HostOK` is limited to the time before the proxy is connected again (section 6).

**Why the bounds are enough.**

- Pool: two slots make a channel that is neither empty nor full and two goroutine steps apart; three
  UUIDs are two idle enclaves and one created directly, or two and one of an earlier engine; with
  one slot every request finds the pool at its limit.  Two requests are one that takes and one
  that finds what the first left.
- Docker: two subnets are one that is taken or lingers and one that is free; four addresses are those
  of the gateway, the proxy, the API container and one service, so that the subnet runs full; two
  commands are a start, then a stop or a restart; with two faults every call of every sequence fails, and so does
  every call that undoes what was made before it, and one command leaves a stopped helper that the next one meets.
- Logs: two runs and a pool of one make every second run evict; the second line is the one that comes
  while the handler is busy with the first.
- Service logs: two services are two readers that contend for the sender and of which one can fail while
  the other goes on; two weeks are the smallest period with a boundary inside, the third week moves a file
  out of it; the two written lines are one to read and one that comes meanwhile, next to those of the weeks before;
  a channel of three has lines left in it when it is closed.
  Each kind of event meets every state of the request, one at a time.
- Starlark: the plan's tail of three covers an overlap that begins in
  the middle and one that is longer than the script; the nine instructions are two
  configurations of service `db`, one service `web` and one `cache` of an `add_services` that mount the artifact `site`, a task that
  makes the artifact `bundle` from it, two versions of `site`, a command on `db` and a removal of `web`; in the runs `cache`
  mounts `bundle`, so that a stale artifact makes a stale service.
  Three runs are the smallest instance of deploy, change, deploy again.
- Services: two services are a batch that is half an update, a batch that is half
  failed, and two goroutines; three instructions are add, break, and act on the result;
  four registrations and two addresses let the addresses run out.  A second crash
  adds nothing that a crash during a later instruction does not.
- Kubernetes: three registrations are two services and one of a name that was used before; two faults are
  one that breaks a service and one that meets what the first left; four instructions are add, break, act,
  act again.  Three and four instructions with three faults (468 000 and 2.1 million states) satisfy
  the same properties.
- Store: two clients meet on a name; two UUIDs share their shortened form and the third does not;
  three operations are a store, a replacement that is cut or fails, and one that reads what is left.

**Deadlock** is checked in the pool's runs and in `service_logs` (the action `Quiet` marks the states
where everything waits for a request, or for a line to follow).  The other systems stop when their bounded runs,
instructions, commands or requests are used up, and for them it is not checked; `EveryRunEnds`,
`InstructionsEnd`, `StreamingEnds`, `StreamsEnd` and the two `OperationsEnd` are the properties that say nobody waits
for ever.

**Fairness.**  Goroutines that can go on are scheduled, and each call of a backend
returns (weak fairness of each goroutine, of the handler that holds the mutex, of
the engine's and the CLI's own steps, of each client's step in the store, of each reader of service logs, its waiter and its handler).
Nothing is assumed of the log files' creator and remover, of those who write lines, of
requests, interrupts, crashes, restarts, of clients that leave or close, of expirations, of when Docker
frees a subnet, or of the outcome of a call.  In `PoolLive` creations do not fail, since a
failed one is not tried again (section 6).  `KubernetesServices` has no liveness property: its calls
are the ones of a single goroutine, which waits for the cluster where the code sets a time limit.

## 4. What is proved

TLAPS proves the following for every value of the constants that satisfies
the assumptions in the modules (finite or not: any number of UUIDs, runs,
crashes, any scripts).

- `EnclaveManagerProofs!TypeCorrect`: `Spec => []TypeOK`.  `TypeOK` is inductive;
  its parts about program counters (an enclave is held in each phase that uses one)
  are what makes it so.  One lemma per group of actions.
- `EnclaveManagerProofs!NeverBlocks`: `Spec => []SendsNeverBlock`.  The invariant is
  `SlotsUsed <= PoolSize`: signals still to send, signals buffered, the
  enclave being created, those buffered and the one taken but not yet
  signalled together never exceed the slots, since each action moves a slot from one place
  to another or drops it.  A place with a slot to give therefore has a channel
  with room.  `SlotsMove` is the lemma about steps; it needs `TypeOK`.
- `EnclaveManagerProofs!NeverInTwoHands`: `Spec => []HandedOutOnce`.  The inductive invariant `HandsOK` says
  where a UUID can be: `OnceOK` (none twice in the channel or among the identifiers, none in both),
  `RunHandOK` and `OpHandOK` (what the subroutine and the handler hold is neither buffered nor given
  out, and they hold different ones), `UsersOK` (a user's enclave that is in nobody's hand was given out),
  `MintedOK` (a new UUID is new).  One lemma per actor.
- `EnclaveManagerProofs!NoneDisappears`: `Spec => EnclavesSurvive`, whatever fails.  Only five kinds of step
  remove an enclave (`DestroysOnlyThose`); that the remover of earlier runs spares what is not of its
  first second needs that what it found it found by name and date (`FoundOK`) and that UUIDs are not
  reused (`OwnersOK`).
- `EnclaveManagerProofs!IdleOnesHaveOwners`, `!CloseLeavesNoIdleOne`, `!NoneOfEarlierRuns`: the invariants `OwnedOK`,
  `ClosingOK` (what `Close` listed and what the subroutine may still have in flight are all that is idle)
  and `RemovingOK`.  They are about what is left behind, so they assume of the backend what nobody can do without:
  `NoneLost` (a creation that reports an error has made nothing or is undone, deletions succeed)
  and `AllAreFound` (listing and deletion succeed).  Every other failure, crash, interrupt and restart is
  allowed; where these calls fail the enclaves do stay, and no property says otherwise.
- `StarlarkRunsProofs!MutualExclusion`: `ExecutorsExclude`.  It is made inductive by
  `NotYet`, `Started` (a run nobody asked for has no goroutine) and the types.
- `StarlarkRunsProofs!OnlyTheHolder`: the enclave changes only by the run that holds the
  mutex and never by a dry one; needs `NeverDry` and that a run's options are fixed
  before it executes.
- `StarlarkRunsProofs!PlanOnDisk` and `!RestartIsHarmless`: when persisting does
  not fail, the database holds the plan whenever nobody executes, so a restart then
  loses nothing.  The strengthening `PersistInv` adds the window between
  persisting and unlocking.

- `StarlarkRunsProofs!PlanHoldsWhatRan`: `PlanOK`.  An instruction is in a plan, in memory or on disk, or scheduled as
  skipped, only if it was run (`PlansWereRun`, `SkippedWereRun`), and a run's place in its script never passes the end
  (`InSequence`); `OneEvent` counts the response lines that are on their way.
- `StarlarkRunsProofs!ClientsAreTold`: `StreamsComplete`, for clients that ask for one run at a time, stay, and want
  no dry run (`Clients \subseteq {"uncached"}`), whatever fails and however often the API container crashes.  `InTurn`: a
  run begins when the handlers of the earlier ones are gone; `Told`: the warnings are those of the run at work and
  its event is on its way or received.  Section 6 shows what happens without the assumption.
- `StarlarkRunsProofs!PlanDescribes` and `!SuccessIsWhole`: `PlanDescribesEnclave` and `SuccessEstablishesScript`.
  They assume what the code needs for them to be true: nobody overlaps, dries or leaves and nothing crashes (`Quiet`), scripts are well
  formed, no execution fails by itself (a failed instruction leaves no trace in the plan, section 6), and
  the marks of the model are no arguments of a script (`Unmarked`).  Failures of interpretation, validation, output
  and persisting are allowed.  The invariant is that, in the middle of an execution, the enclave is what the kept
  plan and the instructions run so far leave (`Going`); it rests on the lemmas about the search below.
- `StarlarkRunsProofs!SearchIsRight` and `!SkippingIsRight`: `LargestOverlap` and `SkippingIsInvisible`, for plans and scripts of any
  length over any instructions.  The recursive functions
  that go over the slots and over the attempts are unfolded once and for all (a function that satisfies the
  recursion exists and is unique), and each induction is an argument by the least counterexample
  in a set of numbers (`LeastNumber`).  That skipping is invisible is proved component by component: a
  component the script has made by a slot is as the script leaves it, another one as the plan did.  What may be stale is
  taken away first: `Seen` of a state after an instruction is the state after the same instruction without its stale artifacts (`Bare`)
  on `Seen` of the state before, since what a component that is not stale mounts is not stale either; on bare
  instructions every type obeys the updates, and the argument is one about states as they are seen.
- `ServiceNetworkProofs!RegistryIsRight`, `!NothingRunsUnregistered`: `RegistryOK` and `RunningIsRegistered`, for any batch, any failures, those of the rollbacks included,
  and crashes.  The invariant `NetworkInv` has a part for each actor: `AddressInv` (an
  address in use is taken; one that was released before its registration is deleted belongs to a service without
  container, so that after a crash there no run is validated any more), `GoroutineInv` (what each goroutine has
  done to its service), `UpdateInv` and `AdditionInv` (what a batch has done so far), `StatusInv` (statuses are true,
  but for the service whose marking is under way, `InFlight`).  The backend's calls are first proved
  about on their own, one effect lemma each.
- `ServiceNetworkProofs!InstructionsAreOneStep`: `Spec => ImplementsEnclave`.  A request maps to `Begin`, a step inside
  an operation to a stutter (the mapping shows the services as they were when it began), the last step, or a crash, to the
  outcome that `Enclave` allows for what was done.
- `KubernetesServicesProofs!NothingRunsUnseen`, `!DirectoriesSurvive`: `KubeOK` and `DirectorySurvives`.  The invariant says of each name
  what may exist of its Kubernetes Service, stateful set, claim and registration together (`Good`), and of the name the
  operation is about, phase by phase, what it has done (`Job`): a stateful set that is left in place was warned of;
  the files are given up before their claim is dropped, also when a panic runs the deferred functions; a registration's Kubernetes Service is there
  from the claim to the end.  `!InstructionsAreOneStepOnKubernetes` is the refinement of the same `Enclave`.
- `FilesArtifactProofs!StoredIsThere`, `!StoreIsRight`: `PromisesKept` and `StoreOK`.  In `StoreInv`, the database knows each artifact
  that the maps know, under the same UUID, and what it knows besides has no whole file (`SavedInv`); a saved MD5 may differ from the file
  only for UUIDs updated since (`HashInv`); one who writes holds the mutex, and what it writes belongs to no name (`FillInv`); an
  update that still has a file is of the artifact it looked up (`UpdateInv`).  `ListsInv` is about the lists of UUIDs by
  shortened form.  The assumption `NameAssumption` (no artifact is named like a UUID or its shortened form) is one the
  code does not check; UUIDs are random.
- `FilesArtifactProofs!ArtifactsAreAMap`: `Spec => ImplementsMap`.  `UpdateFile` maps to the beginning of a
  replacement, the filled file to `Create` or to its end, a failure to `Lose`, a crash to `Restart`.
- `DockerEnclavesProofs!NothingIsLost`, `!CreationIsAllOrNothing`, `!HostIsOK`: `NothingLost`, `CreationAllOrNothing` and `HostOK`, for any
  number of enclaves at a time (TLC has one), subnets, addresses, faults and commands.  The invariant speaks of one enclave
  (`EnclaveInv`): where its operation can be (`TaskInv`), what was made by then (`StageInv`), what the outcome says (`OutcomeInv`),
  that an API container has its volume and network (`LostInv`), and, for the addresses, `HolderInv`, `TrackerInv` and
  `AddressInv`: while the proxy keeps its address the API container always gets the same one, the first that neither
  gateway nor proxy has, and from its first launch on the tracker knows it, also while the container is away
  to be launched again.  A step changes one enclave and leaves what is said of the others (`Alone`, `Frame`).
- `DockerEnclavesProofs!EnclavesAreReachable`: `EnclavesReachable` when the call that kills a running engine does not fail.
  `HelperInv`: while an engine runs its aggregator and proxy exist, not both of them being dropped; a proxy that runs is in front of every
  API container; and as long as nothing has failed a helper is stopped only while it is being dropped.  The
  hypothesis is needed: when the call fails `StopEngines` still removes the two (section 6).
- `StarlarkLogsProofs!InUseStaysOpen`, `!OneHandlerReads`: `PoolOK` and `ConsumedOnce`, for any number of runs, handlers
  and lines and any size of the pool.  A streamer that is in the pool, or whose run has not begun, is open
  and nobody's; one that has left it has at most one handler past its `Remove` and is open while that one
  reads (`StreamerInv`).  `HandlerInv` says which of the pool's calls a handler has made by each point of `Consume`.
- `ServiceLogsProofs!LogsGoInTime`: `VolumeOK` when the retention period is more than one week.  The invariant is
  `LogsInv(own, stamp)` for some `own` and `stamp`, which no variable of the model records: the service and week each
  inode was made for, and the week each line was written in; `FileInv` says that the files agree with them.  `SweepInv`
  is that the remover keeps up with the creator: what is beyond the period is of the week that has just left it, and
  its removal is to come.  The model has the two keep within a week of the clock (`NextWeek`).  With the default period
  of one week (`DefaultLogRetentionPeriod`, `src/cli/cli/defaults/defaults.go:31`) this is not enough, and the theorem's
  hypothesis is needed: section 6.
- `ServiceLogsProofs!RequestsSatisfied`: `LinesDelivered` when the period is at most two weeks, and `!RecentLinesDelivered`:
  the same of the lines of the last two weeks, for any period.  `Placed` and `Ordered` (in `ReaderInv`) order the lines of a
  service: those the client has, those in the channel, in the buffer and with the reader, and those still to be read are
  increasing from one to the next.  `Control` says who will flush: a service with buffered lines is one
  of the sender's keys and, while somebody flushes, of those still to be flushed; when the channels are closed nothing is buffered.  `Gathered` is the
  invariant of the deliveries: while readers work, a line that is still to be had is delivered, on its way or in a file still to
  be read, or, for the last lines only, enough come after it; `Satisfied` is what is left of it in the end.  The hypothesis is needed: a week
  without a file hides the weeks before it (section 6), which only the two weeks next to the clock never suffer.
- `ServiceLogsProofs!LinesInOrder`: the order, by itself, for any period; `!LogsTyped` is type correctness.

Induction over data is the hard part of these proofs: the library's induction theorems take an operator as
parameter, which the provers cannot instantiate.  Where a recursion goes over numbers the proofs use that a
set of numbers that is not empty has a least member.

## 5. What is only model-checked

Liveness (`RequestsEnd`, `PoolRefilled`, `EveryRunEnds`, `InstructionsEnd`, `StreamingEnds`,
`StreamsEnd`, both `OperationsEnd`): the prover has no rule for fairness.  Every safety property of a run has a
theorem in section 4; some of these have hypotheses that the runs' instances satisfy, named there.

## 6. Where the code differs from what it says

What follows are facts of the models.  First, formulas that are defined in the modules (the comment
says "Not so") and that TLC refutes when they are added to the run named, or that hold in the run
as it stands and fail when a constant is changed.

| run, change | refuted | cause |
|---|---|---|
| `PoolSafety` | `CleanSparesThePool` | an empty map of UUIDs is a filter that matches everything: `Clean` with nothing to clean removes the pool's enclaves (MAN:321) |
| `PoolSafety` | `NoPanic` | `Close` closes the channel to which the pool's goroutine is about to send (POOL:213, 272) |
| `PoolSafety` with `PoolSize = 0` | `NoPanic` | `Close` is called on a nil pool (MAN:651) |
| `PoolLive` with `Failures = {"create"}` | `PoolRefilled` | a failed creation consumes its signal (POOL:246) |
| `StarSequential` with `Failures = {"execute"}`, `TwoScripts` | `SuccessEstablishesScript` | a failed instruction leaves no trace in the plan (EXE:113): deploy, a resize that fails after it replaced the container, and the next deploy is skipped and reports success; `docs/docs/advanced-concepts/enclave-edits.md:6` says that "Kurtosis makes it so regardless of the current state of the enclave" |
| `StarSequential` with `Clients = {"overlap"}`, `TwoScripts` | `SuccessEstablishesScript`, `StreamsComplete` | the plan is read before the executor's mutex (RUN:129); the warnings are global and cleared by every run (RUN:64) |
| ... with `{"dry"}` | `DryRunKeepsPlan`, `StreamsComplete` | a dry run truncates the plan (EXE:76) and sends no event (EXE:146) |
| ... with `{"uncached"}` | `PlanDescribesEnclave` | an uncached run starts at the index 0 and drops the plan (RUN:105) |
| `StarLive` with `Clients = {"leave"}`, one run | `ExecutionIsNotInterrupted` | a client that closes its stream stops the execution for good, with the executor's mutex held (API:1030) |
| `PlanOverlap` | `SkippingIsNeverSeen` | an `add_services` (`add_services.go:243`) and a `run_sh` or `run_python` (`run_sh.go:369`, `run_python.go:416`) that are the same as before are skipped though an artifact they mount has changed; `add_services.go` looks at its artifacts after that return, and its comment at line 309 says that equal means "no file have been updated" |
| `StarSequential` | `SuccessLeavesNothingStale` | the same over runs: upload, serve, upload something else, serve; the last run reports success and the service, or the artifact a task made, is of the first upload |
| `NetBatches`, one instruction | `AddressesGivenBack` | a rolled back batch never gives its addresses back (NET:939), nor does `RemoveService` (NET:429) |
| `StoreFiles` | `CopiesEnd` | the goroutine that stores a service's files reports on an unbuffered channel before it closes the pipe its caller writes to (NET:1183) |
| `StoreFiles` | `DownloadsAreWhole` | a download opens its path after the mutex is released (API:547) |
| `LogStreams` | `SyncGetsAll` | lines that come while the handler is busy are dropped (SLOG:69) |
| `LogStreams` | `LeftAreClosed` | a streamer may expire between a request's mark and its `Remove` |
| `ServiceLogs` | `NoReaderLeft` | errors go over an unbuffered channel: a second reader that fails, or one that waits for room, after the handler has left stays for ever with its files (PVC:68, SEND:39) |
| `ServiceLogs` | `RestGetsAll` | the REST loop takes any error, and the closed channel of errors, for the end (REST:127) |
| `ServiceLogs` | `LinesKept` | `Stat`, then `Create`, which empties a file the aggregator has made in between (LFM:231) |
| `ServiceLogs` | `FollowMissesNone` | following starts from the end of the file at that time, reading stopped at an earlier end (PWS:324) |
| `ServiceLogs` with `MaxEvents = 2` | `LogsForgotten` | the week that has just left the period is neither removed with the enclave (LFM:196) nor by the remover, which asks for the enclaves there are |
| `ServiceLogs` with `Retention = 1`, `LastWeek = 3`, `MaxEvents = 2`, one service | `VolumeOK` | with a period of one week, the default, a creator that looked for a file last week makes it after the remover's pass of this week, and each pass looks only at the week that has just left the period (PWL:105): the file stays |
| `ServiceLogs` with `Retention = 3`, `LastWeek = 4`, one service | `LinesDelivered` | the search for files goes back from the newest and ends at the first week without one (PWL:87): a service that logged nothing for a week loses sight of its older lines, which are there |
| `DockerEngine` | `DestroyDeletesEverything` | a service started after the containers were listed is disconnected and left (DK `docker_kurtosis_backend_enclave_functions.go:241`) |
| `DockerEngine` | `HelpersRun` | the proxy or the aggregator is stopped and cannot be removed (`destroy_reverse_proxy.go:39`), or the CLI dies between the two calls, or it is created and does not start (`docker_manager.go:675` leaves it): the next start keeps it and never starts it (`create_reverse_proxy.go:32`), and the engine is up with no enclave reachable or without logs |
| `DockerEngine` with a failing `"kill engine"` | `EnclavesReachable` | the helpers are removed although the engine could not be stopped (DK `engine_functions/stop_engines.go:70`) |

Second, what the models have that no property speaks of, because the code has no promise about it
or the promise was weakened to what is true:

- Pool: enclaves made in the second of the start look older than it, and the remover takes them, also one that a
  user was given meanwhile (POOL:454); `Close` destroys what it listed as idle, also when it was handed out
  since (POOL:401): the exceptions in `EnclavesSurvive`.
- Pool: the deferred destruction of an enclave a request could not use runs with the request's own
  context, which may be the cancelled one (POOL:176).  After a restart the first creation
  replaces the back-filled identifiers, so names are repeated (MAN:377).
- Docker: a second connection gives the proxy another address, which a stopped service may need.
  A cancelled `CreateNetwork` still creates its network (`enclave_functions.go:103` has a TODO).  At the engine's
  start every API container is destroyed before the first is launched again.  The allocator's
  message speaks of "a new random network" and takes the first free one.
  An aggregator whose container is removed and whose configuration's volume is not ends the command there, before the proxy.
  `CreateAPIContainer` and `getDockerKurtosisBackend` return nil without an error when there is no proxy.
- Services on Docker: when the removal of a container fails in the rollback of a batch, or its kill after a failed start, the container runs
  on while its registration is deleted (DK `user_services_functions/package_private_helpers.go:214`, NET:236, 939): it cannot be seen
  or removed by name any more.  The log has a line; the exception in `RunningIsRegistered`.  An update whose ports stay closed destroys the registration, which NET:293 says is
  kept; an update whose container cannot be made leaves a registration with a nil config, which a
  later `start_service` dereferences (DK `user_services_functions/start_user_services.go:156`, the action
  `Panic`); updates are not rolled back, whatever `add_services.go:202` reports; a registration left
  without container makes every later run of the enclave fail its validation.
- Kubernetes: a failed update or start takes the persistent directory with it, and a start of a running
  service deletes its claim (`docs/docs/api-reference/starlark-reference/directory.md:29` says the
  directory persists); a name cannot be used again after `remove_service`, or after a crash between the
  Kubernetes Service and the registration; `DestroyUserServices` never fills its map of successes, so
  the network's `destroyService` always reports an error; undoing the annotation of the ports of a service
  that was started before applies the new ports and annotation once more (KUBE `user_services_functions/start_user_services.go:535`, 581), while
  for one that was not it removes the annotation, as it should; a
  registration without a Kubernetes Service makes every later run fail its validation.
- Store: an update that is cut or never saved leaves a stale MD5, so that uploading the same content
  again says it matches; a copy the backend cuts short is stored truncated as a success;
  `render_templates` and `store_service_files` propagate a nil error when storing fails.

## 7. Plan

The order follows the weight of the behaviour.  Done: pool and manager, plan resolution, Starlark
runs, service network, artifact store, streams of output and of service logs, enclaves and engine on Docker, services on
Kubernetes, the abstract `Enclave` and `ArtifactMap`, and the proofs of section 4.

To extend the models:

1. Runtime values, `set_service`, `store_service_files` and `get_files_artifact` in `PlanResolution` and `StarlarkRuns`; several services in
   one `add_services`.
2. The websocket's pump between `ServiceLogs` and its client, as `StarlarkLogs` has it.
3. `EnclaveManager` as an implementation of an abstract enclave service (create, destroy and clean as one
   step each).

## 8. Running

    tlc -config PoolSafety.cfg MCEnclaveManager.tla     (PoolLive)
    tlc -config DockerEngine.cfg MCDockerEnclaves.tla
    tlc -config LogStreams.cfg MCStarlarkLogs.tla
    tlc -config ServiceLogs.cfg MCServiceLogs.tla
    tlc -config PlanOverlap.cfg MCPlanOverlap.tla
    tlc -config StarFaulty.cfg MCStarlarkRuns.tla       (StarSequential, StarLive)
    tlc -config NetBatches.cfg MCServiceNetwork.tla
    tlc -config KubeServices.cfg MCKubernetesServices.tla
    tlc -config StoreFiles.cfg MCFilesArtifactStore.tla
    tlapm EnclaveManagerProofs.tla                      (and the other modules named ...Proofs)

Each run takes at most two minutes with two workers; the largest are `PoolSafety` (2.2 million
states), `StarFaulty` (2.1 million), `NetBatches`, `StarSequential` and `PlanOverlap` (0.7 million each), `ServiceLogs`, `LogStreams` and
`KubeServices` (half a million each).
