# A verification development for HardcoreVisor

HardcoreVisor is a virtualisation platform: a Go controller (`src/controller`)
that serves REST and gRPC, a Rust library (`src/vmcore`) that owns the VMs and
their devices, a command-line client and two user interfaces.  This directory
holds TLA+ modules of its parts, TLC configurations that check them on small
instances, and TLAPS proofs.

`PROJECT.json` is the index: for each definition the source lines it models, for
each run what it checks, the mutants that show each property can fail, the
findings, the hazards and the theorems.

## 1. The system

The controller serves each request on its own goroutine.  A REST request passes
the middleware chain (rate limiter, authentication), reaches a handler and then a
service; a gRPC call reaches the same services.  The compute service looks up
which of three backends (RustVMM, QEMU, LXC) owns a VM and acts on it; with etcd
it is wrapped by a service that writes each change to the store.  Store calls
pass through a circuit breaker.  Migrations, their tasks, process monitors and
heartbeats run on goroutines that outlive the request.  Several controllers on
one etcd form a cluster: one leads, and moves the VMs of a node that fell silent.
The Rust library is called in process and has its own concurrency: an event ring
without locks, and a block device that shares rings with the guest and the kernel.

Most operations touch two pieces of state (a table and a store, a table and a
process, a table and the kernel) under no common lock.  That is what nearly all
properties here are about.

## 2. Modules

| module | models | code |
|---|---|---|
| `VMLife` | what the VM registry promises: a handle is born once, follows the state diagram, dies once | |
| `RustVMM`, `MCRustVMM` | registry, RustVMM backend, and the requests on them | `vmcore/src/kvm_mgr.rs`, `pkg/ffi/mock.go`, `compute/compute.go` |
| `Dispatch` | `ComputeService` over three backends | `compute/compute.go` |
| `Migration` | migrations of one VM, cancellation, the task of each | `compute/compute.go`, `api/router.go`, `task/task.go` |
| `Persistence` | persistent compute service, REST and gRPC calls in front of it, restarts | `compute/persistent.go`, `api/router.go`, `grpcapi` |
| `VMSnapshots` | VM snapshots: the plain service, its handlers, and the wrapper that stores | `snapshot/*.go` |
| `CircuitBreaker` | the breaker around the store | `resilience/circuit_breaker.go` |
| `Cluster` | election, heartbeats, failure detector, failover, locks, fencing, shutdown | `ha/*.go`, `cmd/controller/main.go` |
| `Qemu` | QEMU processes, QMP, the monitor goroutine | `compute/qemu_backend.go`, `compute/qmp.go` |
| `Lxc` | container records over host containers | `compute/lxc_backend.go` |
| `EventQueue`, `EventRing` | the promise of a bounded FIFO queue, and the lock-free ring | `vmcore/src/event_ring.rs` |
| `BlockIo` | virtio block device over io_uring | `virtio_blk_io.rs`, `virtio_split_queue.rs`, `io_engine.rs` |
| `Storage` | pools, volumes, snapshots, backups, their handlers | `storage/storage.go`, `backup/backup.go` |
| `VolumeDrivers` | Ceph and ZFS drivers over external commands | `storage/driver_*.go` |
| `Network`, `Dhcp` | zones, VNets, firewall rules and the kernel; address pools | `network/*.go` |
| `Devices` | PCI devices and their kernel drivers | `peripheral/*.go` |
| `Registry` | images and templates | `image`, `template` |
| `Gateway`, `OAuth2`, `RateLimiter` | middleware, users, tokens; the code flow; the token bucket | `api`, `auth` |
| `Sockets` | event hub and VNC console | `api/websocket.go`, `api/vnc_proxy.go` |
| `Cli` | hcvctl in several terminals | `cmd/hcvctl/main.go` |
| `Maps`, `Api` | Go maps; the answer of a handler | |
| `MCPersistence`, `MCServices`, `MCBackends` | components that share nothing, side by side, for TLC | |
| `VMMProofs`, `RingProofs`, `VMTasksProofs`, `PersistenceProofs`, `ClusterProofs`, `BackendsProofs`, `ServicesProofs`, `FrontProofs` | theorems and proofs, see section 4 | |

One rule runs through all of them: **one action per critical section**.  A
handler that takes a lock once is one action, answer included.  A handler that
takes several locks, or runs a command or writes to the store outside a lock, is
several actions joined by a per-client record of the call under way (`req`,
`pcalls`, `calls`, `cephCalls`, `netCalls`, `desk`, ...), and other requests run
in between.  Requests that are refused and change nothing are stuttering steps or
only set `answer`.

**RustVMM.**  `core` is the registry, `vms` the map `RustVMMBackend.vms`,
`req[t]` the request goroutine `t` serves.  `CreateVM` is `TakeHandle`, `Insert`,
`Configure`, `Publish`; `DestroyVM` is `RequestDestroy`, `CoreDestroy`,
`Unpublish`; a lifecycle action is `RequestAction`, `CoreAction`, `ReadState`,
`Sync`.  `Core` selects the mock or the Rust registry; they differ in `resume`.

**Dispatch.**  `Find` asks every backend for the handle, in any order, as
ranging over a Go map does; `ActionVM`, `ReadActed` and `DestroyVM` act on what
was found.  Each backend is one step here.  Handles count up from bases that are
`Span` apart and no upper end is checked, so ranges can run into each other.

**Migration.**  The maps are keyed by VM, so one VM is modelled.  `entry` is
`migrations[h]`, `active` is `activeMigrations[h]`; `old`, a history field, is what had
completed when a migration was registered.  The transfer loop keeps its
four steps.  `updateVMNode` picks the first backend of Go's map order.

**Persistence, VMSnapshots.**  A call changes memory, encodes the object it
points to, and writes; each is a step.  Writes may fail and are then only
logged.  A restart empties memory and runs `LoadFromStore`, which creates VMs
anew under new handles and leaves the old keys; an entry that cannot be decoded, or
whose VM cannot be created, is skipped, and a creation that fails may have used up a
handle.  `spoiled`, `owed` and `gone` are
history variables: what a failed or overlapping write has touched, and what
clients were told (a VM that a restart skipped is not owed any more).
The snapshot handlers hold the concrete `snapshot.Service`, so what they do is not
stored; the methods of `PersistentSnapshotService` are further callers of it.

**CircuitBreaker.**  `Admit` is the first critical section of `Execute`, `Fail`
and `Succeed` the second.  `cooled` stands for the time comparison.  etcd's
outages are the environment.

**Cluster.**  Each node has a process (`phase`), a connection (`cut`), its view
of the leadership (`believes`), a failure detector and at most one failover job;
etcd has the node records, the election queue and the locks.  Time is one fact
per record: `old`, the last heartbeat is past the threshold; nothing orders that
against the end of a session or against a node noticing that it was elected.
Faults are counted: crashes, and everything else (lost connections, shutdowns, an
operator's fence or promotion, a failed migration, a campaign that returns an
error and ends its goroutine, a node that gets no session and leads alone).
`Wired` says whether a `ComputeFailoverProvider` was set; as shipped it is not.

**Qemu.**  `os` is the host's view of a child (alive, or dead and not waited
for), `guest` whether its CPUs run, `watch` the monitor goroutine between its
look at the table and its signal.  `Execute` takes the next JSON object for the
answer: a command may be obeyed without a readable answer, and an event may be read as
the success of a command that was not obeyed (`blurred`).

**Lxc.**  `boxes` are records by handle, `host` containers by name.  Creation
runs before the lock is taken, exec and checkpoint after it is released.

**EventRing.**  Each atomic load or store and each slot access is a step.
Release/acquire pairs make sequentially consistent interleaving adequate once
`NoSlotRace` holds.  `len` is called by the consumer.

**BlockIo.**  The guest posts and reaps heads; `process_queue_async` is
`ProcessCalled`, `PopRequest`, `Popped`, `EnterWait`/`WaitFails`,
`wait_completions`, which pairs completions with requests by `user_data` (`Match`,
`Matched`); the kernel runs `Complete`, in any order.  Ring indices wrap at `IdxWord`.  A request is its
kind and whether it lies inside the disk.  An overlong request, whose descriptor
lengths exceed 32 bits in sum, panics after its head was popped; the panic barrier
ends the call and the head is in `lost` (`PopPanics`).

**Storage, VolumeDrivers, Network, Dhcp, Devices, Registry.**  Tables with
their identifier counters; where a driver runs commands, the external state
(RBD images, ZFS datasets, links, the nft chain, the kernel's drivers) is a
variable of its own, and every command may fail.  Sizes are added modulo `Word`,
addresses wrap at `Top` in their 4-byte form.  A pool's list of leases is kept as
the number of entries each address has; nothing in the code depends on their order.

**Gateway.**  A request is checked by the chain (`desk` then holds it), later
by its handler, and takes effect later still; logouts, expiry, user changes and
restarts come in between.  A start whose user database does not open runs without the
auth routes.

**Sockets.**  Each goroutine of a connection, and each pump of a console, is a
process.  **Cli.**  A command is whether it sends credentials, looks at the
status and decodes a list or an object; terminals share the token file, which two
logins at once may leave as a mixture (`Torn`).

## 3. Runs

Passing runs:

| run | instance | shows |
|---|---|---|
| `RustVMM` | 2 threads, 2 handles, mock registry, fair | no leak, no ghost entry, cached state never ahead, refinement of `VMLife`, a destroyed VM leaves the list |
| `Migration_concurrent` | 2 migrations, 2 nodes, 2 backends | an early cancellation holds; the VM's node has a cause; no task takes an earlier migration's outcome for its own |
| `Persistence` | 2 clients, 2 VMs or 3 snapshots, 1 restart, failing store | memory and store agree when nothing failed or overlapped; a VM whose creation was stored is listed until destroyed or skipped by a restart; a snapshot made since the start is replaced by no other |
| `Cluster` | 3 nodes, 1 VM, 1 crash, 1 other fault, fair | locks serialise moves of a VM; a single crash moves no VM twice; the node that heads the election comes to lead |
| `Services` | 2 clients of each service | see below |
| `Backends` | 2 VMs, 2 containers, 2 connections and senders, 2 ring slots (block device and event ring), 4 callers of the breaker, 1 migration | see below |

`Services` and `Backends` run one component per behaviour (`focus`), because the
components share no state; the product would only multiply states.

* `Services`: `UsedIsSum` and `OrphanStaysOrphan` (`Storage`),
  `TrackedHasImage` (`VolumeDrivers`), `ZoneOwnsIfaces` (`Network`),
  `ExhaustedIsFull` (`Dhcp`), `HeldTillDetached` (`Devices`),
  `EntryNeverReplaced` (`Registry`), `SpentTokenRefused` (`Gateway`),
  `CodeUsedOnce` (`OAuth2`), `WindowBound` (`RateLimiter`), `ActsOnMeant`
  (`Dispatch`), `SuccessIsServed` (`Cli`).
* `Backends`: `ProcessHasVM`, `PausedStandsStill` (`Qemu`),
  `RecordOwnsContainer` (`Lxc`), `NoWriteAfterClose`, `ConsoleEnds`
  (`Sockets`), `HeadsConserved`, `BuffersLive`, `WaitEnds` (`BlockIo`),
  `NoSlotRace`, `LenInRange`, `ImplementsEventQueue` (`EventRing`),
  `ClosedIffBelowThreshold`, `Recovers` (`CircuitBreaker`), `MigrationEnds`
  (`Migration`).

Violation runs.  Each checks one statement of a comment and fails on it; the
quotations are in `PROJECT.json`.

| run | what the code does |
|---|---|
| `Migration_not_moved` | a migration completes without moving the VM when another backend comes first in map order |
| `Migration_task` | the task of a migration that has not completed says completed: it polls the VM's latest migration |
| `Persistence_restart` | after a restart a VM has a new handle; destroying it deletes another key, so it is stored for ever and comes back |
| `Qemu_zombie` | a dead QEMU is not waited for, still answers signal 0 and is listed as running for ever |
| `Cluster_unwired` | wired as in `main.go`, nobody moves the VMs of a crashed node (fair specification) |
| `CircuitBreaker_trial` | half-open lets a second caller through while the trial is under way |

**Further properties.**  The modules state properties that no run lists.  These
hold when added to the run of their module, and those marked * are proved: the
`TypeOK`s *, `PrivateUntilPublished` *, `NoCancelLeft` *,
`RemovesOwnImage` *, `EnabledIsApplied` *, `LeasesSound` *,
`RunningIsRecorded` *, `MonitorEnds`.  These fail, see section 5:
`CacheSynchronised`, `InProgressCancellable`, `StatusReachesEnd`,
`LeftIsUnlisted`, `RecordIsTrue`.

**Premises.**  Some properties speak of less than one might wish, because the code
gives no more: `CacheNeverAhead` lets the cache lag (`CacheSynchronised` fails);
`QuietIsStored` excludes what a failed store or overlapping calls touched;
`OneMovePerCrash` is about one crash and no other fault; `LeaderEmerges` leaves out a
head of the queue whose own campaign failed, after which nobody leads; `UsedIsSum`
holds until a sum wraps; `ExhaustedIsFull` is about ranges that are not reversed and
do not reach the last 4-byte address; `BuffersLive` and `WaitEnds` speak until a
submission fails; `SpentTokenRefused` is about tokens that were spent on arrival, not
between the check and the handler; `SuccessIsServed` exempts four commands;
`SnapshotKept` exempts snapshots a restart has loaded.

**Bounds.**  Two clients cover every pair of racing requests; a second VM,
volume, name or handle shows that entries do not disturb each other and that a
freed name can be taken again while somebody still holds the old one.  Six pushes
through two slots wrap the ring three times; four index values with two slots wrap
the block device's rings, and a head is posted again after its return.
Four callers and threshold 3 leave calls in flight across an opening, a trial and a
closing.  Two migrations are what the VM-keyed maps can confuse.  Three nodes are
the least with a crashed node, a leader and a rival; a crash and one other fault
give two believed leaders.  One restart suffices for `Persistence`: nothing a
restart leaves depends on how many there were, except the keys it leaves behind,
which the violation run shows.  `Cluster_unwired` needs two nodes, and two VMs with
different policies.  `Word = 6` lets a sum of sizes wrap; `Span = 2` lets
handle ranges meet.  Deadlock checking is off where a bound ends the behaviour.

`VIEW` in `Services` and `Persistence` leaves out data that no guard and no property
reads later (the modules say which).  `SYMMETRY` is used only in these two runs,
over clients; they check invariants and action properties, not liveness.

**Fairness.**  Weak fairness of goroutines, request or background, once begun:
the Go scheduler runs them and no modelled step waits for another goroutine while
holding a lock.  Nothing is assumed of clients, operators, crashes or the network.
Beyond that:

* breaker: time passes, the heartbeat loop tries for ever, and its call returns
  while etcd answers.  `Recovers` is therefore about the store's breaker; the QMP
  breaker has no such caller;
* cluster: etcd ends sessions of dead holders; for `CrashIsHandled` (`FailoverSpec`)
  tickers fire too and locks of dead holders end;
* sockets: a pump whose read has returned goes on; the handlers set no deadline;
* block device: the kernel finishes I/O, and a call that waits goes on.  Nothing is
  assumed of the guest, and none of who calls the device: the first loop of
  `process_queue_async` may run for ever under a guest that always posts in time.

## 4. Proofs

All for every value of the constants.  Every safety property of a passing run,
invariant, action property or refinement, is proved; each proof is one inductive
invariant, one lemma per action, and a last step that is temporal.  The `TypeOK`s
are conjuncts of these invariants.

**`VMMProofs`**

* `RustVMM`: `TypeCorrect`, `NoLeakNoGhost`, `CreateIsPrivate`,
  `CacheLagsOnly`, for both registries.  None of the invariants is inductive alone.
  `IInv` adds: a busy request carries a handle that was issued; an
  issued-but-uninserted handle is unknown to both maps; a handle under creation
  belongs to one thread; where the two maps differ, a thread is between the two
  writes; a thread about to unpublish finds the registry empty; what a thread read
  back is not ahead of the registry.  `Refinement` follows from `IInv`: every step maps
  to `Born`, `Moves`, `Dies` or a stutter of `VMLife`.
* `Qemu`: `NoStrayProcess` (`ProcessHasVM`), `PausedIsPaused`.  A handle belongs to one VM
  or to one creation under way (`QFresh`).

**`RingProofs`**

* `EventRing`: `RaceFree` and `LenSafe`.  The invariant bounds
  `head - tail` by the capacity, strictly during a push and away from zero
  during a pop; two positions less than the capacity apart then have different
  slots (`DistinctSlots`).  `RingIsQueue` is the refinement of `EventQueue`: the queue is
  the content of the slots from `tail` to `head` (`Window`), and `CarryInv` says that
  the slot a push has filled, or a pop has read, keeps its event until the index
  moves, so that moving `head` is the append and moving `tail` the removal.
* `BlockIo`: `NoHeadLost` (`HeadsConserved`).  Every head is in exactly one of five places
  (with the guest, in the available ring, in flight, in the used ring, lost to a panic;
  `BiPlaces`), no
  place has it twice, and the distances between the wrapping indices are the numbers
  of heads in the places between them (`BiCounts`).  `KernelBuffersLive`
  (`BuffersLive`): `user_data` numbers are given out once, and what has reached the
  completion queue has left the kernel.

**`VMTasksProofs`**

* `Migration`: `VMIsWhereItWasMoved` (`NodeHasMigration`) and
  `CancelsAreCleared` (`NoCancelLeft`) from `MigInv`: the phase each migration shows is
  the one its goroutine has brought it to, and a registered cancel function has a
  goroutine that will clear it.  `CancelIsFinal` (`EarlyCancelHolds`) is an action
  property: a cancelled migration before its switchover cannot complete (`Doomed`).
  `TaskReadsNothingStale` (`NoStaleSuccess`) is what remains true of the tasks with any
  number of migrations: what had completed when a migration was registered is no longer
  in the status map (`OldIsPast`), because registering replaced it, so the completion a
  task reports is new, although it may be another migration's (section 5).
* `VMSnapshots`: `SnapshotsAreKept` (`SnapshotKept`), an action property.  An id is taken
  in one step and entered in another; `SnapInv` says that an id being entered is below
  the counter, is one call's only, and belongs to no snapshot made since the start.

**`PersistenceProofs`**: `QuietVMsAreStored` (`QuietIsStored`), `StoredVMsComeBack`
(`OwedIsListed`).  A call changes memory in one step and the
store in later ones, so the invariant says of every object either that map and
store agree, or that the one call about it carries what will make them agree, or
that it is marked as spoiled.  Until the first restart a handle, its key and the VM's
identity are the same number (`FirstNames`); `OwedIsListed` has to hold across a
restart, which takes in addition that nothing but a destroy deletes a key
(`FirstOwed`) and that `LoadFromStore` gives every entry it does not skip a handle of
its own (by the rank of its key).

**`ClusterProofs`**: `LocksSerialise`.  A node that migrates a VM, and has neither
fallen back to in-memory locks nor lost its session, owns the lock of that VM
(`OwnsLock`).  Nothing about the election is used: two believed leaders are
harmless in this respect.  `OneActsAsLeader`: while nothing but crashes has happened,
one live node at most takes itself for the leader, because only the first key in the
queue makes a leader, a node has one live key, and a key dies with its process
(`Election`).  `CrashMovesOnce` (`OneMovePerCrash`) rests on that: with one crash, only
the crashed node falls silent and is reported, its VMs go elsewhere and none comes
back to it (`Calm`).

**`BackendsProofs`**

* `Dispatch`: `CallsActOnMeant`.  A handle a call found was issued by that backend; while
  the ranges have not met, a machine known by it is the one meant (`Meant`, `OneKnows`).
* `Lxc`: `RecordsOwnContainers`.  The backend never compares names; what keeps two
  records apart is that `lxc-create` refuses a name the host has.  The invariant
  follows a container from `lxc-create` into the table, under a handle that belongs to no
  record and to no other creation (`FreshHandles`, `FreshContainers`); snapshots, and
  so clones, exist only without a host.  `RunningContainersRecorded`
  (`RunningIsRecorded`) adds that a container about to get its record is stopped
  (`EntersStopped`): no record has its name, so nothing starts it.
* `VolumeDrivers`: `VolumesHaveImages`, `RemovalsAreOwn`, for Ceph and ZFS.  The driver's
  map and the images have no common lock, so the invariant says who is entitled to
  a name in between: a call that has made an image and not recorded it, or
  forgotten a volume and not yet removed its image, is the only user of that name
  (`HeldName`, `OneUser`).  It is kept because `rbd create` refuses a name that has an
  image.

**`ServicesProofs`**

* `Devices`: `DevicesAreHeld` (`HeldTillDetached`), an action property: whatever fails in
  the kernel, an attached device changes its VM only through a detach.
* `Storage`: `UsedBytesAreSum` (`UsedIsSum`, as long as no addition wrapped),
  `OrphansStayOrphans` (`OrphanStaysOrphan`).  `StInv` says that identifiers not
  given out yet occur nowhere; a snapshot whose volume is gone can then not be adopted
  by a volume created later.
* `Network`: `InterfacesHaveOneOwner` (`ZoneOwnsIfaces`), by the argument of `VolumeDrivers`
  over links (`TableOwns`, `CallOwns`); `EnabledRulesApplied`.
* `Dhcp`: `LeasesAreSound`, `ExhaustedPoolsAreFull`.  The second is about the scan of
  `AllocateIP`, a recursive function that wraps at the end of the address space.
  `ScanCounts` says which address each step looks at; it is proved by the first
  candidate at which it would be wrong, a least element that
  `NatLessThanWellFounded` provides.

**`FrontProofs`**

* `RateLimiter`: `LimiterBound`.  `WindowBound` counts only what was let through; the
  inductive `BucketAccounts` also counts what the bucket still holds as spent: for every
  start of a window, admitted requests plus tokens stay within a burst plus what the
  rate gave since.
* `CircuitBreaker`: `BreakerConsistent`.  `OAuth2`: `CodeBuysOneToken`, a code that
  is still stored has not bought a token.
* `Gateway`: `SpentTokensAreRefused`, an action property: a request that came in with a
  spent token either stands before the access check or goes to a handler that looks at
  the token itself (`Seated`), and what makes a token spent stays (`TokensKept`).
* `Registry`: `EntriesStay`.  An identifier that was taken is below its counter, in no
  table yet and one request's only (`TakenOnce`).
* `Sockets`: `BroadcastWritesToOpen`, from the hub's read lock.
* `Cli`: `SuccessWasServed`, for every command of the program and its shell but the
  four that look neither at the status nor at the body.

Assumptions are the named `ASSUME`s of the modules: bounds are naturals; capacity,
threshold, word and queue size are positive; `NoEvent` is no event; the heartbeat is
a caller; there is a node; the local node and the home backend exist; the VM
identifiers of `Devices` are integers; the two special zones are zones; `admin` is a
user.  Two say more.  The index word is a multiple of the queue size and larger
than it (`QueueAssumption`): `u16` indices over a power-of-two queue.  `Span` is
at least 2 (`SpanAssumption`; the code has 10000): with 1 two backends would share
their first handle.

Model-checked only: the liveness properties of the passing runs
(`DestroyedLeavesList`, `Recovers`, `MigrationEnds`, `LeaderEmerges`, `ConsoleEnds`,
`WaitEnds`) and, of the further properties, `MonitorEnds`: this prover does not handle
liveness under fairness.

## 5. Known disagreements

Beside the six violation runs, the models show the following.  Each is a
property stated in a module that fails, or is visible in an action.

* **Compute.**  Two transitions of one VM can leave the cached state wrong for
  good (`CacheSynchronised`; `compute.go:192` says it is synchronised).  The Rust
  registry resumes a VM that was only configured, the mock does not.  A stopped VM
  cannot be started, although the comment on `StartVM` says so.  Handle ranges have
  no upper bound (`main.go:99`), hence the premise of `ActsOnMeant`.
* **Breaker.**  Half-open lets every caller through (run `CircuitBreaker_trial`).  A late
  success closes an open breaker without a trial.
* **Migration.**  A finishing migration removes a newer one's cancel function
  (`InProgressCancellable`; `compute.go:597`).  A VM destroyed early leaves its
  status pending for ever (`StatusReachesEnd`; `compute.go:651`).  A task follows
  the VM's latest migration (run `Migration_task`); with one migration it is truthful.
* **Persistence.**  A live migration is never stored, and the restart policy is
  set after the VM was stored (`router.go:553`): both are lost at a restart.  A stored VM
  that a restart skips is only logged.  `PersistentSnapshotService.LoadFromStore` does
  not advance the id counter, so a new snapshot replaces a loaded one.
* **Cluster.**  The deferred `Deregister` runs before the heartbeat stops, so a
  last heartbeat can list a node that left (`LeftIsUnlisted`; `heartbeat.go:91`).
  `SetComputeProvider` is never called: as shipped, failover does nothing (run
  `Cluster_unwired`).  With a provider `CrashIsHandled` fails too: the detector's callback
  runs once, and one that the successor skips because it does not lead yet is not
  repeated (`heartbeat.go:207`).  A campaign that fails is not repeated either
  (`leader.go:121`): the node keeps its place at the head of the queue and never acts as
  the leader.  The target of a failover is any other node the registry calls
  online, and a silent node stays online there: after two crashes a VM can be moved
  to the other dead node, and on from it when that one is handled.  With three
  nodes and two VMs, two crashes give three moves, the last one to a dead node.
  `OneMovePerCrash` therefore speaks of one crash.
* **Backups.**  `CreateBackup` returns the error of a failed snapshot without deleting the
  volume it made (`backup.go:81`).  With the built-in tables the snapshot fails only when
  the volume is already gone; with zfs or ceph the volume stays.  `Storage` models the
  tables and `VolumeDrivers` the failing commands; the backup service over those drivers is
  not composed.
* **Devices.**  `AttachDevice` records `vfio-pci` whether or not the binding succeeded
  (`RecordIsTrue`; `driver_sysfs.go:258`).
* **QMP.**  An event on the socket is taken for the answer of a command (`qmp.go:107`), so
  a pause can be recorded that QEMU refused: hence the premise of `PausedStandsStill`.
* **LXC.**  The volume of a container stays when `lxc-create` fails, and exec and
  checkpoint may reach a new container of the same name.
* **Front.**  CORS preflights are answered 401 behind RBAC.  The login limiter
  admits about twice its rate in the first minute (burst plus refill).  WebSocket
  and VNC upgrades fail behind `NewRouter`, whose writers hide `http.Hijacker`.
  A restart forgets revoked tokens, as documented.
* **Client.**  `vm start`/`stop` report success whatever the answer and send no
  credentials; `vm list`, `container list` and `cluster status` show an error as an
  empty list; `backup list` and `template list` cannot decode a page; `vm list` in
  the shell panics; a failed token write destroys the earlier token, and two
  logins at once can leave a mixture of their tokens (`main.go:671`).
* **Block device.**  A failed submission answers a request whose buffer the kernel
  may still use, and its late completion can push another one off the array: hence the
  premises of `BuffersLive` and `WaitEnds`.  A request whose lengths overflow panics after
  its head was popped, and the guest never gets it back (`virtio_blk_io.rs:313`).  `walk_chain` visits one
  descriptor more than its comment says.

## 6. Not modelled

* vCPU, memory and virtio device registries of the Rust library: tables of
  independent entries under one mutex each.  Destroying a VM does not touch them, so
  there is nothing to compose.  Destroying a block device with I/O in flight, which
  only tests do, is left out of `BlockIo`.
* KVM ioctls, boot structures, image loading: input and output with the kernel.
* Configuration, logging, metrics and tracing: written, never read back.  A scrape
  between the reset and the refill of a gauge sees no VMs.
* The terminal and web user interfaces: display of what the API returns.
* Paging, API description, password hashing, audit log, command-line arguments of
  QEMU and configuration text of LXC: formatting.
* `RunAsync` and listing of the task service; only the migration's task is modelled.

**Modelled without a production caller.**  These parts are modelled as written, and what is
shown of them is shown for a program that would use them; in this repository only tests do:

* `SetComputeProvider` of the failover manager (`main.go:172-209` does not call it);
* the snapshot, template and OAuth2 services, which `main.go` leaves nil, so that
  `router.go` does not register their routes; and `PersistentSnapshotService`;
* `NftablesDriver` and `BridgeManager` (`network.NewService` takes the memory driver), and
  `DHCPManager`;
* the host mode of the LXC backend (`main.go:119` passes `Emulated: true`);
* `hcv_virtio_blk_io_process`, the FFI entry of the block device, and the event ring's
  entries, which no Go code calls;
* `SelectAuto` and `Broadcast`.
