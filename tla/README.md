# A verification of Utsusemi

Utsusemi keeps a pool of ephemeral macOS virtual machines, each running one
GitHub Actions runner for one job.  This directory holds TLA+ modules that model
its core and the parts that share state around it, the TLC configurations that check
them on small instances, and proofs that TLAPS checks for every value of the
constants.  Paths are relative to the
repository, `src/`; `pool.go:235` is a line of `src/internal/pool/pool.go`
unless another directory is named.

Contents: the inventory of the system; what is modelled and how it corresponds to
the code; what each run checks; fairness; proofs; disagreements between code and
documentation; what is not modelled; the plan.

## 1. Inventory

### The agent process

| Component | State | Operations | Interacts with |
|---|---|---|---|
| **pool: lifecycle and fill gate** (`internal/pool/pool.go`, `phase.go`) | `phase`, `active`, `warming`, `lowDisk`, `backoffUntil`, `shortExits`, `fatalErr`, `fatalCh`, `inFlight`, `inFlightVMs`, `slotControls`, all but the channel and the wait group under `Pool.mu` | `Run` (select over five events), `tick`, the goroutine per slot, `reportFatal`, `recordFailure`, `recordShortExit`, `resetSpawnBackoff`, `BeginShutdown`, `drainAndWait` | calls spawn per slot, reclaim on a ticker, notify on every tick |
| **pool: drain and stop** (`pool_drain.go`) | `poolDrainState`, the files `drain.request` and `drain.status`, `drainStatusMu` | `controlTick`, `acceptDrainRequest`, three rejections, `forcePoolDrainSlots`, `writePoolDrainStatus`, `finishPoolDrain`, `syncHeldStatusActive`, `scrubDrainControl` | the slots' controls; the CLIs through the two files |
| **drain control files** (`internal/drainctl`) | `drain.request` (exclusive create), `drain.status` (temporary file and rename) | load, write, remove, `ShouldDiscardRequest` | pool, CLIs, status |
| **spawn** (`internal/spawn`) | one VM, one runner id, one lease; `SlotControl`; the claim scanner | `Spawner.Run`: image lock, clone, lease, boot, ready, JIT config, exec, wait, cleanup | provider, registrar, lease, instancelock, runnercache, actioncache |
| **reclaim and purge** (`reclaim.go`, `purge.go`, `managed_vm.go`) | none of its own: VMs, runners, leases, the in-flight set | `startupReclaim`, `reclaim`, `purgeAllManaged` | provider, registrar, lease |
| **lease registry** (`internal/lease`) | `agent.json`, `leases/<vm>.json` | write and remove a lease, publish a session, classify orphans | spawn, reclaim, status |
| **runtime configuration** (`internal/runtimeconfig`) | the snapshot file, tagged with a session | save, load | pool start, status |
| **alerts** (`internal/notify`) | `fired`, `since`, `lastGoodAt` | `Evaluate`, `Clear`, `AlertFatal`; the lock is released around the HTTP call | pool |
| **agent** (`internal/agent`) | context, signal handler | lock, checks, image sync, start of the pool and cache, shutdown | everything above |
| **instance lock** (`internal/instancelock`) | `flock` on `utsusemi.lock` and on one file per image | `Acquire`, `AcquireWait`, `Held`, `Release` | agent, clean, pull, spawn, CLIs |
| **action cache** (`internal/actioncache`) | entries on disk: blocks, blob, meta, `final`, `pending`; a store lock | reserve, upload, commit, finalize, look up, download, evict, stage into a VM | jobs in the VMs, reclaim |
| **runner cache** (`internal/runnercache`) | downloaded runner archives | download, verify, rename, prune | spawn |
| **host credential** (`internal/hostcredential`) | a bundle in the keychain: host JWT, refresh token; a mutex and a file lock | `EnsureFresh`: refresh at GitHub, store, exchange at the broker, store; a store is a delete and an add (`keychain/darwin.go`) | registrar, configure |
| **registrar** (`internal/registrar`) | cached credential | create JIT config, list and delete runners; retry after 401 | spawn, reclaim, broker |
| **provider** (`internal/provider`) | tart's VMs and images | clone, start, exec, delete, list, sync | spawn, reclaim, pull |

### Other processes

| Component | What it does |
|---|---|
| **drain and stop commands** (`cmd/utsusemi/drain.go`, `stop.go`) | check the agent's lock and status, create `drain.request`, poll `drain.status` until an answer, an end of the agent or a limit |
| **image pull** (`internal/pull`) | looks at the agent's lock, takes the lock of the image, downloads |
| **status, listing, doctor** (`internal/status`, `listing`, `doctor`) | read the agent's files and decide which of them describe the same session |
| **clean, configure, list, run, validate, ...** (`cmd/utsusemi`) | purge without an agent; edit the configuration; output |
| **broker** (`internal/brokerhttp`, `worker/src`) | stateless HTTP handlers in front of GitHub: exchange, JIT configs, runner lists |
| **helpers** (`app`, `config`, `credentialview`, `hostid`, `keychain`, `logging`, `runnerrelease`, `target`, `timefmt`, `version`) | wiring, parsing, formatting |

### What is hard

The loop of `Pool.Run`, one goroutine per slot, and any number of `go p.tick`
goroutines share `Pool` under one mutex that is released between almost any two
steps: a slot's end alone takes six sections.  The drain protocol adds two files
that several CLIs create, read and time out on, with a second mutex that only some
writers take, and a process that may crash or be told to stop between any two of
these steps.  Around the pool, processes that do not know of each other share files
under one state directory: agents and commands take turns at a credential whose
refresh token GitHub accepts once; the guests' cache servers write one directory
and copy bodies outside its lock; starts, clones and pulls take two kinds of file
locks; and alerts are decided from snapshots that are old by the time they are
evaluated.  `PROJECT.json` lists the hazards, each with its line.

### What makes each component correct

- **Fill gate:** never more than `pool_size` slots, at most one cold start at a
  time, and a gate that always reopens; both counters stay exact.
- **Lifecycle:** no spawn outside `phaseRun`, none beside the final purge; a
  shutdown is final and ends.
- **Drain and stop:** every spawn learns of the drain however it races the accept;
  a drain ends; a completed stop holds; the status on file describes this session
  and, once things are quiet, the pool as it is; each request gets one answer, and a
  refused one is never carried out.
- **Spawn, reclaim, lease:** no VM, runner or lease is left without an owner or
  deleted under one, over crashes and restarts.
- **Action cache:** a path that can be downloaded holds one job's whole upload; a job
  publishes its own; what is published is never changed in place; a key that an
  upload left behind comes back.
- **Host credential:** the stored refresh token is one GitHub takes, but for an
  interruption in a window; a JWT is spent for its own target; a request fails only
  for a cause.
- **Locks, pull, status:** no sync or clone of an image under a pull of it; a wait
  ends; the pinned runner stays; a report describes one session.
- **Alerts:** an episode that lasts is told, and none that did not last.

## 2. The modules

| Module | Models | Lines of code it stands for |
|---|---|---|
| `Pool` | the pool with its drain protocol, from the process's start to its end and over restarts | `pool.go`, `phase.go`, `pool_drain.go`, `drainctl.go`; of `spawn` what the pool sees |
| `PoolContract` | what the pool promises of its capacity and lifecycle, without goroutines, locks or files | the phases and the guards of `tick` |
| `PoolControl` | `Pool` with the CLIs of `drain` and `stop` | `cmd/utsusemi/drain.go` |
| `Spawn` | one virtual machine's life: `Spawner.Run` with its select, watcher, scanner, lease and deferred clean-up, beside tart, GitHub and the guest | `spawn.go`, `control.go`, `claim.go`, `lease.go`, `provider/exec.go` |
| `SpawnContract` | what a spawn promises the pool: the steps of a slot in `Pool` | |
| `Reclaim` | `Spawn` with reclaim, purge, `utsusemi clean`, crashes and sessions | `reclaim.go`, `purge.go`, `managed_vm.go`, `lease.go`, `cmd/utsusemi/clean.go` |
| `CacheStore` | the action cache: every guest's cache server and the host's eviction, on one directory | `actioncache/store.go`, `server.go` |
| `CacheContract` | what the cache promises its jobs of publication | |
| `HostCredential` | the hosted app's credential: the manager, the registrar that spends it, the broker that issues and verifies it, the device login | `hostcredential/`, `registrar/broker.go`, `broker_credential.go`, `httpclient.go`, `keychain/darwin.go`, `brokerhttp/handler.go`, `jwt.go`, `cmd/utsusemi/configure_app.go` |
| `Monitor` | alerts: the rules and clocks, and the goroutines of the pool that take snapshots and clear | `notify.go`; of `pool.go` and `reclaim.go` what feeds it |
| `Host` | what the commands of one host share: process lock, image locks, `agent.json`, frozen configuration, runner cache | `instancelock`, `pull`, `runnercache`, `runtimeconfig`, `agent.go`, `status.go` |
| `PoolProofs` | theorems: the pool's counters, gates and stages, and that it implements `PoolContract` | |
| `PoolControlProofs` | theorems: the drain protocol of `Pool`, and its CLIs in `PoolControl` | |
| `SpawnProofs`, `ReclaimProofs` | theorems: a spawn, and spawns beside reclaim, purge, clean and crashes | |
| `CacheStoreProofs`, `HostCredentialProofs`, `HostProofs`, `MonitorProofs` | theorems about the module of the same name | |
| `MCPool`, `MCPoolControl`, `MCSpawn`, `MCReclaim`, `MCCacheStore`, `MCHostCredential`, `MCMonitor`, `MCHost` | model values, functions given to constants, symmetry for TLC | |

`PoolControl` composes `Pool` with its CLIs and `Reclaim` composes `Spawn` with the
pool's loop; `Pool` and `Spawn` meet in `SpawnContract`.  `CacheStore`,
`HostCredential`, `Monitor` and `Host` share no state with those: a spawn sees the
first as a disk that may be full and the second as a call that may fail, the pool
never reads what `Monitor` keeps, and what `Host` has of a pool is one slot that
clones.

### How `Pool` corresponds to the code

*One action is one critical section of `Pool.mu`, or one operation on a file.*
Nothing else is atomic in the code.  Goroutines are the elements of
`Procs == Slots \cup {Loop}`; `pc` says where each is.  Slot identities are reused:
the code's goroutines are anonymous, and enough identities for all that may be in
flight at once lose nothing.

| In the model | In the code |
|---|---|
| `phase`, `drain`, `active`, `warming`, `lowDisk`, `shortExits`, `fatalErr`, `fatalCh` | the fields of the same names; `drain` is `poolDrainState` |
| `backoff` | `time.Now().Before(p.backoffUntil)` |
| `ticks` | pending `go p.tick(ctx)` |
| `registered`, `ctrl` | keys of `inFlightVMs` and `slotControls`; signals sent to each `SlotControl` |
| `gate` | slots whose `releaseWarming` (a `sync.OnceFunc`) has not run |
| `pending`, `fin`, `work` | locals that survive an unlock: what `Register` read, the copy of the drain in `finishPoolDrain` and `syncHeldStatusActive`, and the locals of `controlTick` and its callees |
| `statusMu` | the holder of `drainStatusMu` |
| `request`, `status`, `session` | the two files and `agent.json`'s id; a session id is compared for equality only |
| `ctxDone` | the context of `Pool.Run` |

A slot walks `new` (counted, unnamed), `signal` (registered), `boot`, `exec`
(runner listening), `job` (claimed), then `fatal` (`reportFatal`, if at all), and the
deferred calls in the order Go runs them: `unregister`, `leave` (`active--`),
`ungate`, `maybeFinish`, `finish...`, `sync...`, `exit` (`go p.tick`,
`inFlight.Done`).  The loop walks `start`, the two halves of `scrubDrainControl`, and
`idle`, where it takes one event of the select; a control tick takes it through the
steps of `acceptDrainRequest` or of `controlTick`'s second half, with
`finishPoolDrain` shared between loop and slots.

Abstractions:

- *Time is a choice.*  A deadline or the force grace may have passed at any control
  tick that looks at it (`Control`), and a backoff ends at any time
  (`BackoffExpires`).  The guards that do not depend on the clock are kept.
- *Spawner.Run* is `boot`, `exec`, `job` and the result the pool can tell apart:
  cancelled, failed, unauthorized, a good exit, a short one, one that changes
  nothing.  A job timeout is a failure, and so is a cancel that kills a command
  (fault `killed`, section 6).  Module `Spawn` shows that Run behaves so, except that
  the runner's output may still call `onIdleReady` while Run is ending, which is not
  in `Pool`: the gate is a `sync.OnceFunc`.
- *Alerts and names* are left out: no state of the pool depends on them.  `Monitor`
  has the alerts, with as much of the pool as its rules look at.
- *A write of a file is one step.*  `drain.status` is written to one temporary file
  and renamed, and `drain.request` created and then written; what happens between
  is not modelled (section 7).
- *Two branches are unreachable* and not modelled: `Run` handles an unauthorized
  error of `startupReclaim` and of `reclaim` (`pool.go:134`, `pool.go:179`), but
  `reclaim` logs the error of `ListRunners` and goes on (`reclaim.go:60`).
- A failure to write `agent.json` ends `Run` before any of this starts; failures to
  write or remove the two control files, which the code ignores, are left out.

`PoolControl` adds one CLI per request: it looks at the lock and the status
(`Check`), creates the request (`Write`), and polls (`Poll`).  Its limits are
choices; Ctrl-C and unreadable files are left out.  `loadPoolStop` is what `utsusemi
status` prints of a stop.

`PoolContract` has two variables, the stage of the process and the slots that count
towards `PoolSize`.  `Pool` implements it under `stage <- stageOfPool` and
`inUse <- {s : pc[s] \in Counted}`, stated as the property `ContractSpec`.

### How `Spawn` and `Reclaim` correspond to the code

*One action is one call with an effect outside its goroutine, one case of the select
loop, or one line of the runner.*  `run[v].step` is where `Run` is: `disk`, `clone`,
`cloning` (tart works), `lease`, `leaseWrite` (`os.WriteFile` has truncated the
file), `start`, `ready`, `jit`, `jitSent` (GitHub works), `lease2`, `lease2Write`,
`enter`, `exec` (the select), `abandon` (between the look for a claim and the
cancel), `stopped`, then the deferred calls in the order Go runs them: `delRunner`,
`rmLease`, `stop`, `delete`.

| In the model | In the code |
|---|---|
| `run[v].ctx` | `preJobCtx`, then `jobCtx`: live, cancelled or past its deadline |
| `run[v].pushed` | deferred calls pushed so far; `runnerRegistered` |
| `run[v].seen`, `cancelReason` | channels the loop set to nil; the local of this name |
| `exec` | the goroutine of `ExecStdin` and what it sends to `execDone` |
| `scan`, `idle` | `claimScanner`'s flags; VMs whose `onIdleReady` was called |
| `vm`, `guest`, `printed` | tart's VM, its runner, the markers it has printed |
| `runner`, `lease` | the registration at GitHub; the file `leases/<vm>.json` |
| `rec` | the locals of `reclaim` and `purgeAllManaged`, and where the loop is |
| `session` | the id in `agent.json` |

Outside the code: a VM that runs cannot be deleted; GitHub drops an ephemeral
runner with its job; a lost answer to `CreateJIT` leaves a runner; a crash ends the
goroutines and leaves VMs, guests, runners and files as they are.  Names of VMs are
never reused, as `newVMName` draws them at random.

`Spawn` implements `SpawnContract` (property `ContractSpec`), whose stages `boot`,
`exec`, `job` are those of a slot in `Pool`.  `Reclaim` extends `Spawn`: the same
spawns, with the pool's loop, the process and time beside them.

### How the other modules correspond to the code

*`CacheStore`.*  One action is one section of `withStoreLock`, or one copy outside it:
`Put` and `CommitBlocks` are `beginPendingWrite`, `writeReaderFile` and `copyBlock`
the unlocked copies, `finishPendingWrite` and `commit` the second sections.  `dir[k]`
is the directory of an entry (whether it exists, its meta, the archive, the blocks,
the temporary files); `used` is the order of `UsedAt`, which decides what an eviction
takes.  A file's content is the sequence of pieces it was made from, a piece
`<<job, i>>`, so that two jobs' bytes can be told apart.  `copyBlock` opens one block
after the other by its name and appends what is there, and `commit` renames what was
collected.  A block is named as in the code, for the id its client gave it and for
nothing else (`sanitizeBlockID`): `BlockID` says which, two jobs may have given the
same, and then one's file replaces the other's.  `Size` is what a job declares, 0 if
nothing.  A pending meta's age is `fresh` or `stale`;
`Behind` says whose clock is behind whose, which makes an age negative.  `BodyCut`,
`GuestCrash` and the two torn removals are the faults: `RemoveAll` that dies half-way
leaves any part of the directory.

*`HostCredential`.*  `caller[p]` is one call of the registrar: `want` (before the
lock), `refresh`, `rotated` (GitHub has answered), `addPartial` (the old bundle is
deleted), `exchange`, `store`, `addFinal` (deleted again), then `call` with the token
it was given; `configure app --refresh` is a forced refresh that ends without a call
(`calls`).  A `Set` is what `keychain/darwin.go:30` does, a delete whose error is
ignored and an add, so the entry is absent in between, and stays absent if the add
fails or the process dies.  `configure app` does the same without the lock (`conf`).
Callers may be goroutines of one process, which can only crash as a whole, and of one
target or of two.  A refresh token is a number and GitHub accepts each once; a JWT has
a target, the number of the signing key and one of three ages.  `refresher` is the
holder of `credential.refresh.lock`; the manager's mutex excludes nothing more.
`EnsureFresh` loads twice, and the two loads are one step: what the first finds only
matters if it needs no refresh, and what the second finds is judged again.

*`Monitor`.*  `snapshot` is `evaluateAlerts` up to the unlock: it keeps which rules
were active, and `Evaluate` is one section of `Monitor.mu`, up to the first rule that
fires, because `fireLocked` releases the lock for the webhook.  The tickers of
`Pool.Run` are independent: at its select the loop ticks, reclaims (`ReadDisk`,
`ClearDisk`, `ReclaimEvaluates`) or ends, in any order and any number of times.  A
unit of time holds one tick at least (`ticked`): it is the check interval and as much
as one pass of the loop may delay it.  `Unit` waits for an evaluation, which takes no
longer than its webhooks' 2 s, and for nothing else.  A drain, a shutdown and what
slots still do after it are there, a failed reading of the disk changes nothing.
`told` and `lowFor` are history.

*`Host`.*  An agent is a number, its session.  The other commands do not see that
number but the pid in `agent.json`, which stays when the agent ends and may then be
any process's: `pidAlive(id, taken)` is `kill(pid, 0)`, and `taken` is chosen anew at
every question that is asked of a session that has ended.  An agent's steps are those of `Agent.Run` up to
the running pool, then one slot's `cloneBaseImage`, cancelled or not.  The image lock
knows its holder, among them the `ghost`, the goroutine of a cancelled `AcquireWait`.
`pull[p]` walks `first` (holding the process lock), or `busy` (it was), `confirm` (a
process has the pid in `agent.json`) and `second` (that session's frozen
configuration has another image), then `sync`.  `reader` is one `status` report: `held`, `classify`, `config`,
`report`, one read each.  A crash lets go of the locks; a tart child that survives it
is not followed (`exec.go:18`).

## 3. The runs

| Run | Question | Instance |
|---|---|---|
| `fill` | Do the counters, the staggered start and the shutdown survive every fault of a slot? | 3 slots, `PoolSize` 2, no requests, all faults but a crash and a killed command |
| `drain` | Does a drain reach every spawn, and does a stop settle and hold? | 2 slots, `PoolSize` 2, a stop with a deadline and a forced drain |
| `live` | Does a drain end, does the gate reopen, does the process end? | 1 slot, `PoolSize` 1, one stop, 2 sessions, a crash, a signal and every failure of a slot |
| `control` | Are two CLIs at once answered consistently, also over a crash or a kill? Does the pool implement its contract? | 1 slot, one stop, one forced drain, 2 sessions, a crash at any step and a cancel that counts as a failure |
| `spawn` | Does Run keep its promise to the pool, clean up in order and completely, and end when it is told to? | 1 VM, 3 attempts of a tear-down, one failure of any kind, both signals, an interrupt |
| `reclaim` | Is what a crash left told apart from what is in use, under each policy, and does it go? | 1 VM, 2 sessions, up to one other VM beside it, a crash, one failed call or a lease that stays |
| `cache` | Is what `CommitBlocks` collects always one whole upload, and a job's own where it says its size? Does a key come back? | 2 keys, 2 guests with block ids of their own, whose archives differ in size and whose clocks differ, only one of which declares its size, uploads of 2 blocks, one fault of any kind, one upload that outlives `pendingTTL` |
| `credential` | Do rotation, retries, crashes and a new login leave a credential that works? | an agent's slot, and commands for its runner group or for another, 2 requests, 2 faults, one new signing key, one `configure app` |
| `alerts` | Are alerts neither lost nor raised of what is over? | 1 slot and the loop, thresholds 2, any number of drains, a shutdown at any point |
| `host` | Do starts, clones, pulls and reports get along? | 2 images, 2 runner versions, 2 sessions with different configurations, one pull of an image, up to two commands at once |
| `early_finish`, `reclaim_inflight` | Section 6. | the smallest instance of each |

The properties, and what would break them:

- `TypeOK`: of every variable of `Pool`, with `active` at most `PoolSize` and `warming`
  at most 1.
- `SlotsAccounted`: `active` and `warming` count exactly the slots between their
  increment and their decrement, though tick, `onIdleReady` and two deferred
  sections change them.  A double or missing release would shift the gate for good.
- `ColdStartsStaggered`: at most one slot before the end of its boot.
- `NoSpawnAfterShutdown`: the comment of `pool.go:237`: no `inFlight.Add` after
  `drainAndWait` began to wait, so no VM is created beside the purge.
- `DrainReachesEverySlot`: a slot that registered before the accept is in the
  snapshot, one that registers after it reads the phase, and there is no third case.
  The same for Force.
- `DrainStateMatchesPhase`: the drain's metadata lives as long as its phase, and
  through a shutdown that overtook it.
- `HeldStatusSettles`: after a force grace that latched `phaseHeld` with runners
  winding down, the held status ends with the true count.
- `StopCompleteMeansHeld`: a stop that its CLI reports complete, or that `utsusemi
  status` prints as held, means a pool that stays empty, or ends.
- `StatusIsOfThisSession`, `RequestReachesItsSession`: files of a crashed session
  mislead neither the CLIs nor the next agent.
- `RefusedIsNeverApplied`: a CLI told "busy" or "rejected" is never acted for.
- `DrainEnds`, `GateReopens`, `ShutdownEnds`: liveness, section 4.
- `ReturnLeavesNothing`: whatever ended a spawn, and though one call of its clean-up
  failed, nothing of it runs, no lease names it and its VM is gone.  A clone killed
  half-way may leave a stopped VM, which is reclaim's.
- `NoJobForDyingVM`: the runner goes before its VM, so GitHub gives no job to a VM
  that is being stopped.
- `ContractSpec` of `Pool`: over crashes and restarts, the slots and the stage of the
  process change only as `PoolContract` allows.
- `ContractSpec` of `Spawn`: `onIdleReady` comes at most once and after the runner
  was started; a job that was seen is only given up for Force, the agent's context
  or an error; only a cancel gives a cancelled result.
- `TellEnds`, `IdleReadyComes`, `RunReturns`: section 4.
- `JobHasLease`: through crashes, a guest with a job that no spawn gave up has a
  lease, without which `grace` would reclaim it at once.  A purge clears the leases
  even if it could not delete everything, so this takes it to fail at most at one of
  a VM and its runner, as `MaxFaults` 1 does.
- `PolicyRespected`: of VMs that no spawn of this process owns, reclaim stops only
  what `reclaim_policy` allows by the leases it could read, unless the hypervisor is
  full.
- `RunningRunnerSpared`: because runners are listed before VMs, a runner of a spawn
  younger than the in-flight snapshot is never removed while its VM runs.
- `CleanExitLeavesNothing`: a purge without an error leaves no VM, runner or lease.
- `OrphansGo`: section 4.
- `ArchiveIsWhole`: the download of an archive takes no lock and looks at no meta, and
  `CommitBlocks` collects it from files that it opens by name without the lock, so
  what was collected must be one job's whole upload at every moment, for late uploads
  of a destroyed job, blocks that vanish under the copy, evictions and crashes.  It
  has a hypothesis, `OwnBlockIDs`: no two uploads gave a block the same id.  The
  client sees to that (its ids begin with random characters), the store does not;
  with shared ids TLC finds a mixed archive.
- `ContractSpec` of `CacheStore`: a key is published once and changed only by an
  eviction.  It is the second look at the meta, after the copy, that gives this.
- `PublishesOwnUpload`: a late upload of an earlier job may replace the archive
  between its new job's commit and `Finalize`, whole.  A job that declares a size
  which no other job's archive has publishes its own upload all the same.  With equal
  sizes, or none declared, the earlier job's archive is published under the later
  job's name; the code has no way to tell.
- `KeyComesBack`: section 4.
- `RefreshTokenKept`: GitHub takes a refresh token once, so the stored one must be
  good in every interleaving of refreshes, failed exchanges, crashes and configures,
  but for the time between GitHub's answer and the end of the `Set` that stores it,
  and inside every later `Set`.  A crash or a failed add in that time loses the
  credential (`spoiled`); the property names those windows and excuses nothing
  else.  The first no code on the host can close; the others are there because a
  `Set` deletes before it adds, although `security add-generic-password -U` would
  replace.
- `TokenIsForTarget`: callers of different runner groups share one keychain entry and
  one JWT, and never spend each other's.
- `FailsOnlyForCause`: a request fails only if a step of its own refresh failed, its
  process died, all its attempts were answered busy, the broker's key changed while
  it ran, it loaded a credential that an interruption had lost, or `configure app` was
  storing one as it loaded.  An expired JWT, a key changed before, an earlier exchange
  that failed, another group's token, another caller's 401 (two callers of one target
  may both get one) or fewer busy answers than attempts are no causes.  That a failed
  refresh fails a request whose JWT is still good is the code's choice, and not what
  `README.md:116` says (section 6).
- `DiskAlertIsSustained`: a stale snapshot may start the clock of a disk that has
  recovered, and the next low disk would find it running.  Whichever ticker comes
  first, the alert is early by less than a unit, and none is posted of a disk whose
  recovery was cleared.
- `EpisodeIsTold`: an episode that lasts is told although another goroutine clears or
  fires the same code in between.
- `ImageIsStable`: an image has one user at a time, be it an agent's start, a clone or
  a pull; an agent that starts while its image is pulled gets no further than that
  image's lock, if the pull found no agent; and no pull is of the image of the agent
  that it found running, whatever snapshot an earlier agent left and whoever has the
  pid.  A later agent's image may be pulled beside it (section 6).
- `PinnedStays`: the tarball a running agent is pinned to outlives every `pull runner`
  beside it.
- `StatusIsTrue`: of a report that reads four things one after the other: what it
  calls running ran during the report, unless another process had its pid; what it
  calls active is the configuration that this very session froze; and of a session
  that still runs it says so, and calls its configuration active if it was saved.
- `RequestEnds`, `WaitEnds`: section 4.

Every property of a passing run has a mutant: a definition changed the way a
plausible bug would change it (a dropped guard, a forgotten reset, a rejection that
leaves its file), under which TLC finds the property violated on the same instance.

### Bounds

`Slots`, `Requests` and `PoolSize` are as above.  One slot more than `PoolSize` lets
a slot that has given up its place (its `active--` is done) run its last steps beside
its successor; two slots in a drain let one be registered and the other not.  Two
requests are the most `drain.request` can hold in turn, and make every rejection
happen.  `MaxTicks` bounds pending `go p.tick` goroutines at one: a tick reads the
state when it runs, so two pending ticks do nothing that one tick run twice would not
do, and `LoopTick` may run at any idle moment besides.  `drain` sets it to
zero, so that only the loop's ticker fills the pool: a slot that `LoopTick` starts
before a control tick may register at any point of it, so no race of a registration
with an accept or a force is lost.  `MaxSessions` is 2 where a restart is
the question.  `maxConsecutiveShortExits`, 5 in the code, is 1 or 2.  A request is
posted once: a repeated command has a new id in the code as well.

Two spawns share nothing in `Spawn` but the context, so one VM shows all of one
spawn.  In `Reclaim` one VM and the loop's old lists make every race of reclaim with
a spawn; `MaxConcurrent` 2 with `MaxOthers` 1 lets the hypervisor be full or not
whenever the VMs are listed.  `MaxFaults` bounds failures at one in both: it can hit
any call, so every branch of a failure is taken beside everything that does not
fail; `ReturnLeavesNothing` promises nothing once every attempt of a tear-down
fails, and `JobHasLease` see above.  A failure to remove a lease file (`rmLease`) is in
`reclaim` only, for the same reason.  `Tells` and `Marks` are empty in the
runs of `Reclaim`: a drain and the markers change what `Run` returns, not what it
leaves behind.  `teardownAttempts` is the code's 3 in `spawn`, 2 in `reclaim`.

`cache`: two guests are a late upload and its successor, or an upload and an eviction
beside it; two keys make a restore fall back and give the order of use something to
order; two blocks are the fewest of which one can be missing.  `MaxLate` 1 lets one
live upload outlive `pendingTTL`; a dead one may always.  `credential`: a second
caller makes every race of a refresh, since a third would wait at the same lock;
the command's runs are one after the other, so two of its requests are two commands,
of one target or of two; `Attempts`, 5 in the code, is 2.  `alerts`: with one slot the loop and one slot's
goroutine race each other, which is every pair of evaluators the code has;
thresholds of 2 are the fewest with a moment in between.  `host`: a second session makes every file one left by an earlier agent;
`MaxBeside` bounds the commands beside the agent at two of a pull of an image, a
pull of a runner and a report.

Slots are interchangeable in every definition, so `fill` and `drain` reduce by
symmetry; no liveness property is checked there.

Deadlock is checked in `drain`, `cache` and `early_finish`.  The others allow
the process to end, with no session left or after a shutdown, a spawn to return, or requests to be used
up, where the model stops as the program does.

## 4. Fairness

`FairSpec` assumes no more than Go and the configuration give:

- *Weak fairness* of every goroutine's next step: the scheduler runs runnable
  goroutines.  For a slot in `boot`, `exec` or `job` it says that `Spawner.Run`
  returns in the end, which `job_timeout`, the ready timeout and the idle timeout of
  the runner enforce.
- *Strong fairness* of taking `drainStatusMu` (`FinLock`, `SyncLock`, `HeldWrite`):
  a `sync.Mutex` hands itself to the longest waiter in starvation mode.
- *Strong fairness* of `DrainAndWait`: the select of `Run` chooses uniformly among
  the ready cases, so a ready `ctx.Done()` or `fatalCh` is not passed over forever,
  although the loop is also busy with ticks in between.
- *Weak fairness* of `BackoffExpires`: time passes.

In `Spawn`, weak fairness of `Run`'s own steps (each call has a context or a timeout
of its own), of its watcher, its grace timer and the output goroutine; the guest,
GitHub, tart's VM and both job timers are under none, so `TellEnds` (a spawn told Force
ends, and one told AbandonIdle ends unless it has a job) holds of a guest that hangs.  `RunReturns` assumes in its own statement
that the timers fire (`WF_vars(Timeout(v))`).  In `Reclaim`, weak fairness of the loop, of the reconcile
ticker and of time, and strong fairness of the loop's seeing `ctx.Done()` for the
reason above; no spawn is assumed to move.  There `OrphansGo` says that a VM or a
runner a dead session left goes, though one call of reclaim failed.

In `CacheStore`, weak fairness of an upload's own steps, of time, and strong fairness
of some job reserving a key it may reserve: jobs that save a key keep coming.
`KeyComesBack` says that the key is then readable again and again, wherever an upload
was destroyed; the exception it names is an eviction that died between an archive
and its final meta, after which `Reserve` refuses the key and `Lookup` cannot serve it
until an eviction takes it.

In `HostCredential`, weak fairness of each caller's own steps, as every HTTP call has
a timeout, and strong fairness of taking the refresh lock: the kernel wakes its
waiters.  `Crash`, faults, `configure app` and the passing of weeks are owed to nobody.
`RequestEnds` says that the lock is never left behind.

In `Monitor`, weak fairness of an evaluation, of a slot's winding down and of a
reclaim that has begun, and strong fairness of the tick and of time: the select of
`Run` chooses uniformly, so the tick comes again and again, whatever else is ready.
Guests, jobs, the disk, the reconcile ticker and operators are under none.

In `Host`, strong fairness of taking an image lock, as `flock` wakes its waiters, and
weak fairness of what holds it: a clone ends by itself or with its spawn's time, a
pull's or a start's `SyncImage` has no deadline in the code (`tart.go:79`), so that
tart ends there is assumed.  `WaitEnds` says that every wait for an image ends, however
many waits were cancelled before.

In `Pool`, no fairness is assumed of CLIs, faults, job claims, deadlines or the reconcile
ticker.  In `DrainEnds` in particular nothing forces a deadline to pass: the
drain ends because its slots do.

## 5. What is proved

Every safety invariant and every action property that a run checks is also a theorem:
TLC shows it on the instance of section 3, the proof for every value of the
constants.  (`early_finish` and `reclaim_inflight` check what is false.)

| Theorem | States |
|---|---|
| **`PoolProofs`** | |
| `Invariance`, `TypeCorrect` | `Spec => []IInv`, `Spec => []TypeOK` with `active <= PoolSize` and `warming <= 1` in it |
| `CountersExact` | `Spec => []SlotsAccounted` |
| `OneColdStart` | `Spec => []ColdStartsStaggered` |
| `DrainMetadata` | `Spec => []DrainStateMatchesPhase` |
| `PoolImplementsContract` | `Spec => ContractSpec` |
| `NoSpawnInShutdown` | `Spec => NoSpawnAfterShutdown` |
| **`PoolControlProofs`** | |
| `DrainInvariance` | `Spec => [](IInv /\ DrainIInv)` |
| `EverySlotReached`, `HeldSettles` | `Spec => []DrainReachesEverySlot`, `Spec => []HeldStatusSettles` |
| `StatusOfThisSession`, `StopHolds` | `Spec => []StatusIsOfThisSession`, `Spec => []CompletedStopHolds` |
| `ControlInvariance` | `ControlSpec => [](IInv /\ DrainIInv /\ ControlIInv)` |
| `ControlImplementsPool` | `ControlSpec => Spec /\ ContractSpec` |
| `RefusedNotApplied` | `ControlSpec => []RefusedIsNeverApplied` |
| `RequestToItsSession` | `ControlSpec => []RequestReachesItsSession` |
| `StopComplete` | `ControlSpec => []StopCompleteMeansHeld` |
| **`SpawnProofs`** | |
| `Invariance`, `TypeCorrect` | `Spec => []IInv`, `Spec => []TypeOK` with the bounds of the retries in it |
| `NothingLeft` | `Spec => []ReturnLeavesNothing`, if `MaxFaults < teardownAttempts` and `"rmLease" \notin Faults` |
| `NoLateJob` | `Spec => []NoJobForDyingVM`, if `MaxFaults < deleteRunnerTries` |
| `SpawnImplementsContract` | `Spec => ContractSpec` |
| **`ReclaimProofs`** | |
| `RecInvariance` | `RecSpec => []RecIInv` |
| `PolicyHolds` | `RecSpec => []PolicyRespected` |
| `RunnersSpared` | `RecSpec => RunningRunnerSpared` |
| `CleanMeansClean` | `RecSpec => []CleanExitLeavesNothing` |
| `JobsHaveLeases` | `RecSpec => []JobHasLease`, if `"lease" \notin Faults` and `MaxFaults <= 1 \/ "reclaim" \notin Faults` |
| **`CacheStoreProofs`** | |
| `Invariance`, `WholeArchives` | `Spec => []IInv`, `Spec => []ArchiveIsWhole` |
| `CacheImplementsContract` | `Spec => ContractSpec` |
| `OwnUploadPublished` | `Spec => PublishesOwnUpload` |
| `FreshUploads` | `Spec => FreshUploadKept`, if `Behind = {}` |
| **`HostCredentialProofs`** | |
| `Invariance`, `TypeCorrect` | `Spec => []IInv`, `Spec => []TypeOK` |
| `NewestTokenStored` | `Spec => []RefreshTokenKept` |
| `OwnTargetOnly` | `Spec => []TokenIsForTarget` |
| `NoFailureWithoutCause` | `Spec => FailsOnlyForCause` |
| **`HostProofs`** | |
| `Invariance` | `Spec => []IInv` |
| `OneUserPerImage` | `Spec => []ImageIsStable` |
| `PinnedTarballStays` | `Spec => []PinnedStays` |
| `ReportOfOneSession` | `Spec => []StatusIsTrue` |
| **`MonitorProofs`** | |
| `DiskInvariance` | `Spec => []DiskIInv` |
| `AlertSustained` | `Spec => DiskAlertIsSustained` |

### Assumptions

Each module's ASSUMEs are evaluated by TLC in every run of it.

- `Pool`: `SlotsAssumption` (slots are finite and are not the loop),
  `RequestsAssumption` (the kinds of requests; a drain that is not a stop is forced or
  has a deadline, because a timeout of zero or less means `--force`,
  `cmd/utsusemi/drain.go:33`) and `BoundsAssumption`.
- `Spawn`, `Reclaim`: finitely many VMs, at least one attempt of each clean-up, as the
  constants of `spawn.go` and `reclaim.go` have, and bounds that are numbers.
- `CacheStore`: at least one block per upload, blocks of at least one byte, and
  functions of the right domains; any block ids, any declared size or none, any order
  of restore keys, any clocks.
- `HostCredential`: each caller has a process and a set of targets, and a call at least
  one attempt.
- `Host`, `Monitor`: the names of holders, slots and the loop differ; thresholds of at
  least one unit; a configuration has a base image and a runner version.

Some theorems have a hypothesis of their own, because the code promises no more:

- `NothingLeft` and `NoLateJob`: a clean-up whose every attempt fails gives up and logs
  (`spawn.go`'s `teardownAttempts` and `deleteRunnerTries`), and a lease file whose
  removal fails is not tried again; what stays is reclaim's.
- `JobsHaveLeases`: a lease that cannot be written is only logged, and a purge clears
  the leases even if it could not delete both a VM and its runner.  With the
  conjunct on `MaxFaults` dropped TLC shows a job without a lease.
- `FreshUploads`: with a clock behind another it is false (section 6).
- `WholeArchives`, `OwnUploadPublished` and the wholeness of what
  `CacheImplementsContract` publishes: `OwnBlockIDs`, which is part of the
  properties' own statements.

### Along which argument

Each property follows from an inductive invariant, which TLC checked on the instances
above before it was proved.  Each proof has one lemma per part of the invariant, or
per group of actions, and under it one step per action that can disturb it; lemmas
about `goto`, `update` and the like say what an action does to the record it changes.

**`PoolProofs`**, `IInv`:

1. `TypeOK`.  Not inductive alone: `active - 1` stays in `0..PoolSize` only because
   a slot that leaves was counted.
2. `SlotsAccounted` supplies that: the counters are cardinalities of sets of slots,
   and each section that changes a counter moves one slot in or out of the set.
3. `GateInv`: a slot whose gate is closed has not reached the end of its deferred
   calls, and one that is still cold has its gate closed.  With `warming <= 1` this
   gives `ColdStartsStaggered`.
4. `DrainStateMatchesPhase`, needed for the types of what a finishing slot copies.
5. `RequestInv`: the request on file, or about to be decided, is a CLI's.
6. `ProcessInv`: a dead or starting process has no slots and no pending ticks, and
   one that waits or purges is in `phaseShutdown`.  It is what makes a restart a step
   of the contract and a spawn during the wait impossible.

For the contract, each action maps to `Start`, `End`, one of the stage changes, or a
stutter.

**`PoolControlProofs`**, on top of it `DrainIInv`: `RegInv` (the slots in
`slotControls` are those between their registration and its deferred removal),
`ReachInv` (a registered slot was told, will tell itself, or is in a snapshot the loop
is about to signal), `MutexInv` (who writes a final or a held status holds
`drainStatusMu`), `SettleInv` (somebody who will still rewrite the held status counts
nobody), `SessionInv` (a status is of this session once the files were scrubbed, also
in the hands of a slot that read it before) and `StopInv` (who says, or is about to
say, that a stop ended sees a pool that is held or ends).  Then `ControlIInv` of the
two together: what is on file, in `poolDrainState` or in somebody's hands was posted,
to this session where it will be acted on (`CliInv`, `SentInv`); an end on file is of
its own request (`EndInv`); a request is accepted once (`OnceInv`); one that is said
to be refused is `open` nowhere, so nothing can accept it any more (`RefusedInv`); and
a CLI that was told "complete" looks at a pool that is held (`DoneInv`).  The pool has
many actions and the CLIs look at few of its variables: lemmas `HandMove`, `DrainMove`,
`FileMove`, `SessionMove`, `FinMove`, `EndMove` and `RefuseMove` say once how those
move, and the invariants are proved from them.

**`SpawnProofs`**, `IInv`: types, and of each VM `PushedInv` (a deferred call was
pushed for what exists, and there is a result exactly once they run), `ExecInv` (a
guest that runs has a runner to remove), `TriesInv` (every attempt but the first
follows a failure of its own), `LeftInv` (what a finished clean-up left cost as many
failures as it has attempts) and `CancelInv` (a cancelled context has a reason, which
is what the contract's cancelled result needs).

**`ReclaimProofs`**, `RecIInv`: `LifeInv` and `AgentInv` of each VM, across crashes, and
of the loop `QuietInv` (no spawn beside a purge), `ListInv`, `RunnersInv` (a listed
runner whose VM was not found running never has a running VM again), `PolicyInv` (what
was read of a stale lease is still so), `CleanInv` (what a purge has not deleted is
still to come or an error was seen) and `PurgeInv` (a job outlives a purge only by two
failures).  The loop acts on lists that are old, while spawns move.  So the proof goes
in three parts: what no step of a spawn can undo (`Irreversible`), what a step of the
loop takes away (`Takes`) and how it changes its own locals (`RecIs`), and from these
each invariant action by action.  `JobsHaveLeases` adds `LeaseIInv`.

**`CacheStoreProofs`**, `IInv`: types; `HandInv`, that a job about to rename has in its
temporary file its own piece, and one that copies has the first blocks of its upload,
as many as it has copied, or the file is gone; and `GoodEntry`, that the file of a
block id is the piece that was given the id and an archive is a whole upload.  The
two need each other, and `OwnBlockIDs`: a copy reads the blocks of its directory, which
others replace and remove meanwhile.  `Wrote` says once how a step may change an entry
and what it leaves of other jobs' files.  No step changes a published archive in place
(`Kept`), because the second look at the meta comes after every copy; this maps each
step to the contract.  `OwnUploadPublished` then needs that sizes tell uploads apart
(`sizeOf` of one piece and of all blocks).

**`HostCredentialProofs`**, `IInv`: the refresh lock is held by the one caller that
refreshes (`LockInv`); what that caller has in hand, from GitHub's answer to the add
that ends its last `Set`, is GitHub's newest answer and for its own target (`HandInv`),
which is what mends an entry that is deleted for the moment; the token of a device
login is nobody else's until it is saved (`ConfInv`), which `saveCredential` needs
because it takes no lock; `KeychainInv`; and `CauseInv`, that a caller without a cause
to fail has a token GitHub takes and then a JWT the broker takes.

**`HostProofs`**, `IInv`: whoever uses an image holds its lock (`CloneInv`, `LockInv`); an
agent holds the process lock (`ProcInv`), which the report's `Held` finds; a
configuration with the present session's number is the one it froze (`SessionInv`),
and `agent.json` has that number only after it (`PublishedInv`); a pull is not of the
image of the agent it found running, and one that found none holds the process lock up
to the image lock (`PullInv`); the pinned tarball (`CacheInv`); and what a report has
read is of sessions it has seen or of a pid that another process had (`SeenInv`,
`ReaderInv`).

**`MonitorProofs`**, `DiskIInv`: the clock of a low disk is at most a unit older than the
low disk, and one of a disk that has recovered is at most a unit old; at one unit no
snapshot from before is left, and the tick that the unit holds is still to come, is
being evaluated, or the shutdown has ended it all (`ClockInv`).  A unit is thus the
most by which an alert can be early, and TLC shows that it is reached.

### Only model-checked

All liveness (`DrainEnds`, `GateReopens`, `ShutdownEnds`, `TellEnds`, `IdleReadyComes`,
`RunReturns`, `OrphansGo`, `KeyComesBack`, `RequestEnds`, `WaitEnds`, `EpisodeIsTold`),
which the prover does not reach, nor ENABLED.  The conjunct of `CacheStore!TypeOK` on `used`, that it
lists each final entry once, is not proved either: `used` is changed with `SelectSeq`,
and induction over sequences is out of reach; no theorem needs it.

## 6. Where the code does not do what its text says

Two have a violation run of one property; `PROJECT.json` quotes the lines.

- `early_finish`: `maybeFinishPoolDrain` checks in one section and
  `finishPoolDrain` acts in another.  In between, the drain can end and the next one
  be accepted; the slot then ends that one with a runner in flight.
- `reclaim_inflight`: the in-flight set is copied before the VMs are listed, so
  reclaim deletes the stopped VM of a spawn that began in between.

More were met the same way.  Their definitions are in the modules and TLC refutes
each within a minute; they have no run of their own, to keep the suite short enough
to be run with every change.

- `Pool!RunningStatusIsCurrent`: `writePoolDrainStatus` (`pool_drain.go:337`) writes
  without `drainStatusMu` and can replace the final status with a running one computed
  before it.  A stop then looks unfinished for as long as the agent lives.
- `PoolControl!RejectionReachesCli`: the final status replaces one that carries a
  rejection the refused CLI has not polled yet (`pool_drain.go:394`).
- `Pool!ShutdownAnswersDrain`: a drain accepted on an empty pool and overtaken by a
  signal before the last check of `acceptDrainRequest` (`pool_drain.go:224`) is
  finished by nobody; the process ends with a running status.
- `PoolControl!RequestIsAnswered`: `finishPoolDrain` removes `drain.request` by name
  (`pool_drain.go:404`); a request another CLI has just created goes with it.
- `Spawn!CancelIsNotFailure`: a cancel that arrives while `tart clone` runs kills it,
  and the error is the killed command's (`spawn.go:396`); the pool counts a failure
  and backs off, though `pool.go:304` says that a cancel is intentional.  The same
  holds of `tart exec` if the select picks its end before `ctx.Done()`.
- `Spawn!ClaimedIgnoresAbandon`: a claim printed after the select loop looked for
  one, and before it cancels the job (`spawn.go:269`), is cancelled although the
  scanner has seen it.
- `CacheStore!FreshUploadKept`: `Reserve` takes a negative age for a stale one
  (`store.go:93`), so a guest whose clock is behind removes the directory of an upload
  that has just begun, though `store.go:89` speaks of entries older than the limit.
  Where the clocks agree it holds (theorem `FreshUploads`).
- `HostCredential!WorksUntilExpiry`: `README.md:116` says that "if the broker is
  unreachable at refresh, the existing credential continues to work until it
  expires".  `EnsureFresh` returns the error of the exchange (`manager.go:142`), so the
  request that wanted the refresh fails although its JWT may be good for another week.
- `Host!OtherImageOnly`: `README.md:247` lets the image that a running agent clones next
  wait until that agent is stopped.  A pull that was confirmed beside one agent may
  wait for the lock of its image (`image.go:52`) while that agent ends and the next
  one, which has the image, starts; the pull then runs beside it.  That the pull and a
  clone exclude each other still holds (`ImageIsStable`).
- `Host!StatusIsLive`: `README.md:292` calls `running` a live agent.  While an agent
  starts, it holds the process lock and `agent.json` is still the last one's; if that
  one's pid has been given to some process, `status` calls the old session running
  (`status.go:429`).
- `CacheStore!ArchiveIsWhole` without its hypothesis `OwnBlockIDs`: a block's file has
  the name of its client's id alone (`store.go:136`), so the store itself does not keep
  a late upload's block out of its successor's archive.
- `Monitor!DiskAlertIsPunctual`: `README.md:324` has the alert after 15 minutes of a
  paused spawn; a clock that a stale snapshot started makes it come up to a unit
  early.
- `Monitor!HealthyFullPoolIsQuiet`: a pool of idle runners is full, one ready failure
  of an earlier slot stays counted until some `Run` returns well, and the warm clock
  only moves with a finished job (`notify.go:269`, `pool.go:392`): `pool_stuck` is
  posted of a healthy pool after quiet hours, which `README.md:325` excludes.  (As
  stated: no evaluation that begins while every slot has an idle runner would post
  it.)

`Pool!CompletedStopHolds` is proved (`StopHolds`), as are the types of every module's
inductive invariant.  The type invariants have no run, but for `Pool`'s, because a run
above checks what would break with them.

## 7. Not modelled

`PROJECT.json` gives the reason for each component.  In short: the broker and its
worker are I/O without state of their own, and so are listing, diagnostics and the
output of status; configuration and the helpers have no states.

Of the drain protocol: partial writes of a file, unreadable files, Ctrl-C of a CLI.
Of a spawn: metrics, the boot diagnosis, the guest's script.  Of reclaim: a torn
`agent.json`, a lease whose process id was reused (that of `agent.json` is followed,
in `Host`).  Of the cache: the token of the
server, ranges, path names.  Of the credential: pages of GitHub's lists, of which the
broker reads at most twenty, and texts.  Of alerts: the delivery of a webhook, whose
failure the code only logs.  Of the host: a tart command that survives its agent
without its lock (`exec.go:19`), which could write an image beside its next user, the checksum and the attempts of a download, status's counts of jobs
and VMs.

What section 5 does not list is model-checked, not proved.

## 8. Plan

The suite is kept at a dozen runs, to finish in ten minutes: a new question's run
takes the place of the least telling one.  With every safety property proved, what is
left is:

1. How far the properties of section 6 do hold: the hypothesis under which each is a
   theorem, as `Behind = {}` is for `FreshUploadKept`.
2. The untimed half of liveness: that a drain which has no runner left is always
   somebody's to finish, as an invariant below `DrainEnds`; the same for a key below
   `KeyComesBack`.
3. A module `ControlFiles` for the create and write of `drain.request` and the
   temporary file of `drain.status`, if their torn states are to be followed.
