# CXL Fabric: TLA+ models, model checking and proofs

CXL Fabric governs CXL memory capacity: it keeps records of devices, regions and pools, admits
reservations on them, and fences everything that was granted on facts that have changed. This
directory models the engine, the coordinator process around it, the workers that talk to it, the
frames between them and the durable state. TLC checks the models on small instances, TLAPS
proves every safety property and every refinement that the passing runs check, for instances of
any size; liveness is left to TLC.

## The system and its parts

| Part | Source | Module | |
|---|---|---|---|
| governance engine | `src/core/fabric.cpp`, `core/fabric.hpp` and the record headers | `Fabric`, `Failover` | all operations that change state, `audit` and `plan_failover` |
| lifecycle rules | `core/lifecycle.hpp` | `Lifecycle` | complete |
| candidate selection | `core/selection.hpp`, `build_selection` | `Selection` | complete, without explanations |
| capacity line | `core/accounting.hpp` | `CapacityLine` | complete |
| durable state | `serialize_state`, `deserialize_state`, `export_persisted`, `import_persisted` | `Persistence` | what is kept and lost |
| state file | `write_persisted`, `read_persisted` | `PersistFile` | POSIX branch |
| coordinator process | `src/multiprocess/coordinator_main.cpp` | `Coordinator` | threads, worker death, crash and restart |
| worker process | `src/multiprocess/worker_main.cpp` | `Cluster` | its script, waits and exits |
| payload codec | `control/codec.hpp`, `make_device` of `backend/synthetic.hpp` | `Codec` | what is kept, lost and filled in |
| frame protocol, sockets | `src/core/protocol.cpp`, `control/net.hpp` | `Framing` | everything between `send_frame` and `recv_frame` |
| backends, command line, enum names | `src/backend`, `src/cli`, `enum_strings.hpp` | | see *Not modelled* |

Workers connect to the coordinator and publish devices, pools and regions; they reserve, commit
and release capacity. One coordinator thread serves each connection and calls the one engine,
whose mutex makes each call atomic. After most frames the thread saves a snapshot. A failed
receive is taken for the death of the worker, and the evidence it published is fenced. A new
coordinator process reads the snapshot back and trusts none of its evidence.

## Modules

**`Lifecycle`** has the successor relation of each lifecycle. **`Selection`** has the records
and the pure part of admission: `evaluate_candidate` gives the reason of the first hard
constraint a candidate fails, `IsChosen` the candidate that ranks first, `SelectionReason` the
answer when none passes. **`Fabric`** has the engine's maps as variables and one action per
operation, under the operation's name. `xxx_reason` operators give the `DecisionReason` of a
call, its early returns in order; a refused call is a stuttering step, except for the release
that fails half-way. `audit` and the recomputation of pool and global totals are operators.
`Spec` has every operation; `GrowSpec` leaves out `remove_pool_member` and `update_region`, the
two that can take away capacity or counters in use (what they break is among the findings).
**`FabricFence`** adds a history of the facts behind each grant. **`CapacityLine`** is the
ledger class on its own, with unsigned arithmetic.

**`Persistence`** extends `Fabric` with the round trip through the file. Fields that are not
written come back as defaults: the state, health and evidence of devices; the state, tier,
health and counters of regions; the state of pools. The counters of a pool are written.
**`Coordinator`** extends it with the threads. A thread is at `serving` (waiting for a frame),
`persist` (a snapshot is due), `write` (it is taken, not yet written), `fencing` (holding
`workers_mu_`) or `erase`. `Crash` and `Stop` replace the process; the new epoch is whatever the
command line says. The history variable `publisher` remembers who registered a device last.
**`PersistFile`** takes the single step `Write` apart: names and files are separate, cells are
written one at a time, and a writer may fail or be killed anywhere.

**`Failover`** has `plan_failover` as an operator over the states of `Fabric`: the call only
reads. **`Codec`** has what a worker publishes and what `decode_xxx(encode_xxx(.))` leaves of
it. The boot identity, sharing, latency, bandwidth and failure domain of a device are not sent;
the coordinator makes up the boot identity from the device's identifier, so over the wire it is
the same in every incarnation. **`Framing`** is one direction of a connection. A cell of the
stream is a header field or a part of the payload, and does not say which. `send` and `recv`
move any number of cells, peers die anywhere, and `crc32` may compute a wrong value while two
threads fill its table (`Computed`). The checksum itself is taken to be perfect. **`Cluster`**
composes worker processes with `Coordinator`, over connections that behave as `FrameChannel`
says. A worker is the sequence of its requests (`Script`), and what it was told; `Send`,
`Receive`, `ReceiveFails` and `Exit` are its steps. A thread of the coordinator takes a frame
with `Serve`, which is the action of `Coordinator` for that frame together with the answer;
saving comes after the answer, as in `dispatch`. What the workers may be started with is `Jobs`;
`JobAssumption` says that what these jobs publish, reserve and commit is among the inputs of the
engine.

Three modules are abstract specifications, written without the code, that the detailed ones are
shown to implement:

| Abstract | Says | Implemented by | Shown by |
|---|---|---|---|
| `Allocation` | bytes are granted from a pool only if they fit, and come back once | `Fabric` under `GrowSpec` (`FabricAllocation`: `Governed`, `Grants`) | `accounting`, theorem `EngineImplementsAllocation` |
| `DurableCell` | a save takes effect at one instant or never | `PersistFile` with one writer (`Stored`) | `file`, theorem `FileImplementsCell` |
| `FrameChannel` | whole frames arrive in order, some refused, until an end goes | `Framing` | `framing`, theorem `FramingImplementsChannel` |

In the same way `Cluster` implements `Coordinator` (`ImplementsCoordinator`; run `cluster`, theorem
`ClusterRefinesCoordinator`): the refinement mapping is the identity, and what is checked and
proved of the coordinator holds with real workers at the other end.

Modules named `MC...` hold instances for TLC. Definitions marked "Mutant" are plausible bugs
that show that the properties can fail.

Abstractions: identifiers are positive numbers and 0 is the empty one; a device's immutable
facts are one number; what selection reads of a device beyond its state is its `profile`. Inputs
have the form the codec gives them: non-empty identifiers and boot identities, and new records
carry no use. The policy generation of a caller is never read by the code. Sums over pools are
assumed to fit in 64 bits. Which of two offending pool members is reported first is not
modelled. Registering a device and noting it in the `WorkerState` are one step: only a second
connection with the same boot identity could see the difference, which is a data race in the
code.

## Runs that pass

| Run | Module, config | Question |
|---|---|---|
| accounting | `MCFailover`, `Accounting.cfg` | Do pool and region counters stay exact and within capacity when two regions share a smaller pool, does the engine implement `Allocation`, has selection exactly one choice, and is a failover plan the best there is and one that admission would follow? |
| membership | `MCFabric`, `Membership.cfg` | Do they survive members leaving, a device moving between pools and regions being overwritten? Do generations and reservations only advance? |
| fence | `MCFabricFence`, `Fence.cfg` | Can a commit go through although what it was granted on has changed? |
| line | `MCCapacityLine`, `Line.cfg` | Is `CapacityLine` within bounds, and are refusals without effect? |
| sessions | `MCCoordinator`, `Sessions.cfg` | Is evidence current only while its worker is connected, and is no capacity given twice, across deaths, late snapshots, crash and restart? |
| file | `MCPersistFile`, `File.cfg` | Is the file whole, and is a save all or nothing, whenever a single writer is killed or fails? |
| framing | `MCFraming`, `Framing.cfg` | Does what is received correspond to what was sent, however the stream is cut, and does every frame arrive? |
| cluster | `MCCluster`, `Cluster.cfg` | Can a worker commit what it was not granted, or take the answer to one request for that to another? Do workers use the coordinator as `Coordinator` says? Does every worker finish, and every death get noticed? |

What the less obvious properties say. `FailoverIsBest` compares `plan_failover`, which repeats
the loops of selection in its own words, with the candidates selection would accept; it holds
where the domain a pool records for a member is the one the device was observed in. The domain
of usable capacity is there taken from the pools (`DomainOf`), where the code takes it from the
device. `ChoiceDecided` is the deterministic selection of `README.md:145-152`: whenever a
candidate passes, the ranking puts exactly one in front.
`PlanCanBeFollowed` asks that capacity named by a plan passes admission but for the pool's free
bytes, which the plan does not look at. `CommitsOwnGrant` holds although identifiers of
reservations begin again in every process, because `commit` compares the boot identity.
`RefusedForCause` is about the unchecked payload size (`encode_frame` sends an oversized frame
without its payload) and the race on the checksum table: both lead to a refusal, never to a
wrong frame or a stream out of step.

Bounds. Two reservations are the least for one to be committed while another is not, which is
what the order of `release` (committed bytes first) depends on; for any larger number the same
invariants are proved. One is enough for fencing, where the question is about one reservation.
`accounting` has three devices in two failure domains, so that a plan has a choice. `GenBound`
caps how often generations advance: a remove and an add-back need two steps. `MaxGen` is the
ceiling of a generation; `fence` stays below it, since at the ceiling fencing is lost.
`MaxBytes` stands for `UINT64_MAX` and is larger than any sum in use. Two connections are the
least for a race and two processes for a restart; runs with more of either were not made, and
`CoordinatorProofs` and `RecoveryProofs` cover any number. One reservation per process is enough for a leak in the
first process to meet a reservation in the second. `DrainBound` keeps repeated `fence_drain`
calls from wrapping. `EvidenceBound` is 0 or 1: no decision reads the evidence generation. Boots
are distinct in `sessions` and `cluster` (`SharedBoots = FALSE`), as worker restarts are
documented to be; `claim_death` shows what happens when they are not. `framing` has two frames,
payloads up to one cell over the limit, a payload cell equal to the magic number, and a socket
smaller than a frame. In `cluster` one worker publishes, reserves and commits, beside one that
only reserves or one that names a reservation of an earlier process; frames are refused on the
connection in `Faulty`. No symmetry is used.

Fairness. `FramingSpec` asks for weak fairness of `send` and of `recv`: both ends loop until
they have moved everything. `ClusterSpec` asks only that some worker or thread takes a step as
long as one can: none of them waits for anything but its peer or, for a while, `workers_mu_`.
Nothing is asked of the order in which they run, of new workers, of kills, or of restarts.
Deadlock is not checked in `framing` and `cluster`, which may come to an end.

## Runs that find a disagreement

Each checks one sentence of the repository against the code; `PROJECT.json` quotes it.

| Run | What the code does |
|---|---|
| claim_counters | after `update_region` on a region in use, `commit` wraps its counters |
| claim_death | with one boot identity on two connections, evidence of a dead worker stays current |
| claim_restart | a pool keeps counting bytes of reservations that a restart dropped |
| claim_file | two threads saving at once leave a file that is rejected |

In the model of `claim_file` the second of two overlapping renames also finds no temporary file;
`std::filesystem::rename` then throws in a detached thread, which ends the process.

Further places where the definitions, faithful to the code, differ from what is written about
it, and which no run is spent on: `remove_pool_member` removes a member whatever is in use, and
leaves more in use than the pool governs (`README.md:131-132`); `release` of an uncommitted
reservation draws on the committed bytes of others, and it checks no generation or boot identity
(`README.md:142-143` says both are fenced), so that after a restart a late release reaches
whatever reservation has its identifier now; `commit` looks at neither the evidence nor the boot
identity of the device; registering a device again under its generation skips the lifecycle
rules; `update_region` may change members within a generation; at the ceiling of a generation
membership changes are not fenced; the capacity of a pool is looked at only after ranking;
unknown values satisfy the volatility, host, sharing, bandwidth and latency requirements;
`fence_drain` leaves a line its own audit rejects; reservation identifiers are reused after a
restart; the epoch is whatever the command line says, and over the wire the coordinator fills in
its own; publishing a pool or a region does not save it; the comment "caller checked" in
`encode_frame` is not true of the answer to `QUERY_STATE`; the death of an earlier publisher of
a device fences it although a later one is connected; once a failed device has left its pool its
failure domain is forgotten; a device published as current in a state that
`mark_device_revalidation` refuses (for instance `ENUMERATED`) stays current when its worker
dies; sending to a peer that is gone raises `SIGPIPE`, which only ends the process, a crash that
the models allow at any time.

## Proofs

For every value of the constants that satisfies the named assumptions:

- `FabricProofs`: `FabricTypeOK` (type correctness), `GenerationsSafe` (no generation goes back
  and no record is forgotten), `ReservationsSafe` (a reservation keeps its facts and only moves
  forward), `DevicesCountOnce` (no device is counted twice), all for `Spec`, that is, with every
  operation. It begins with what the library's sum over a set does when an element is added or
  removed.
- `FabricAccountingProofs`: `PoolUseIsExact` and `PoolReservedSuffices`. Neither is inductive
  alone. `release` takes committed bytes first, so that the reserved bytes stay large enough
  follows only from the sum being exact, and that `release` never ends half-way, on which
  exactness depends, follows from the reserved bytes being large enough. The invariant is their
  conjunction `PoolInv` together with the types. The arithmetic is in three lemmas on a pair of
  counters and a set of reservations (`AccountsReserve`, `AccountsCommit`, `AccountsRelease`);
  each action then only has to show which reservations it moves. `PoolInv(X)` allows a pool to
  count bytes beyond its reservations, by a number in `X`: `X` is `{0}` for the engine alone and
  `Nat` after a recovery. `LedgerAlwaysCloses`: the cached ledger is the sum over the pools,
  because every operation that stores a pool rebuilds it. The same for regions under `GrowSpec`:
  `RegionUseIsExact`, `RegionReservedSuffices` (so the unchecked subtraction of `commit` cannot
  wrap) and `RegionNeverOverfull`. Their invariant needs that a region keeps its pool and its
  counters when it is reconfigured; without `GrowSpec` they fail, as `claim_counters` shows.
- `FabricAdmissionProofs`: `AuditFindsNothing`, under `GrowSpec`: no pool has more in use than
  it governs. It needs that the totals of a pool are those of its members (`DerivedInv`) and
  that more members never govern less. `EngineImplementsAllocation`, the refinement of
  `Allocation` under `GrowSpec`, one lemma per operation. That a grant fits is known only of the
  counters, and the abstract ledger is about the reservations, so it needs the exact accounting
  above.
- `PlacementProofs`, for `Spec`, about where capacity is placed: `SelectionIsDecided`. The keys
  of the ranking are tuples of integers whose last three tell candidates apart, so that on the
  finite set of candidates the lexicographic order has one least element.
  `FailoverPlansAreBest` and `FailoverPlansWork`: `plan_failover` does not look at the state of
  the pool, as selection does, but the constraints it applies do, so the pairs it finds are
  those that pass selection. The domain of a failed device is that of the last pool which
  governs it, and there is only one such pool by `DevicesCountOnce`. What passes a request
  passes it again when the pool is named, so only the free bytes of the pool can refuse it.
  The engine's maps stay finite (`MapsFinite`), on which every first candidate depends.
  `CommitsAreFenced`, with every operation but `update_region` (which may
  change members within a generation): `commit` takes effect only if the members of the pool,
  the devices of the region and the facts of the device are those of the grant. The invariant
  `FenceInv` says of every reservation, committed or not, that none of the generations it names
  is ahead of the record's, and that where the two are equal the facts are those of the grant;
  it is kept because what is fenced changes only as its generation advances. The hypothesis
  `GenBound <= MaxGen` keeps generations below the ceiling, where they no longer do.
- `RecoveryProofs`, for any number of connections, processes and restarts, and with snapshots
  taken and written in any order: `RecoveryCoversUse` (a pool counts at least what its
  outstanding reservations hold), `RecoveryKeepsRegionsExact`, `RecoveryAuditFindsNothing` and
  `RecoveryLedgerCloses`. The invariant says that the file and every snapshot on its way to it
  are states a process can start from (`SavedOK`): well typed, pools with up-to-date totals and
  no more in use than they govern, regions without use; and that the engine satisfies the
  invariants of the engine proofs with any slack. Every step of a thread is then a step of the
  engine under `GrowSpec` or leaves it alone, or is a recovery. `PolicyAssumption` says that the
  policy generation of an empty `Fabric` is one of the model's.
- `CoordinatorProofs`, for any number of connections and processes: `TableNamesLiveThreads`, and
  `EvidenceIsWatched` under two hypotheses, that no two open connections carry one boot identity
  (`claim_death` shows it is needed) and that devices published as current are in a state which
  can be fenced. The invariant says that each open thread is the one its table entry names and
  only a thread that lost its worker is dead (`SessionInv`), that no device in a snapshot or in
  the file comes back current (`SavedInv`), and that each device with current evidence is
  fenceable and on the list of the thread that registered it (`WatchedInv`).
- `ClusterProofs`, for any number of workers started with any of their jobs, killed at any time,
  and coordinators killed and started again: `AnswersAlwaysMatch`, `ClusterRefinesCoordinator` and
  `CommitsOwnGrants`. The invariant `LinkInv` says what is on a connection. Before a worker has
  sent `WORKER_BOOT` there is nothing on it (`Silent`). Afterwards what is on its way up is
  `WORKER_BOOT`, until it is read, and the one request the worker waits for, until it is
  answered; what is on its way down is the one answer, of the type that request calls for
  (`Talking`); and a thread that serves a worker has its boot identity (`Session`). That answers
  match is a part of it, and so is what the refinement needs: the first frame a thread reads is
  `WORKER_BOOT` and every other is one the coordinator takes. `GrantInv` adds that a worker knows
  of every reservation made for it or that the answer which tells it is on its way (`Told`). As
  `commit` compares the boot identity, it succeeds only for a reservation of that worker, and as
  the worker waits for no other answer at that moment, it knows of this one already.
- `ComponentProofs`, for the three components that stand on their own:
  - the capacity line: `LineTypes`, `LineWithinOnline` and `LineRefusal`. That `commit` never
    takes reserved bytes and then refuses follows from the line's terms fitting the width
    (`SizesAssumption`).
  - the state file, for one writer (`Solo`; `claim_file` shows it is needed) and states of any
    size: `FileAlwaysAccepted`, `SavingNeverTerminates` and `FileImplementsCell`. The invariant
    says that the durable name and the temporary name never refer to one file, that the first
    holds a state whole (`PathInv`) and the second as much of it as its writer has written
    (`WriterInv`). `FilesExist`, for any number of writers: names and threads refer to files that
    exist and no thread writes beyond its state, which is all that is left when several save.
  - framing, for payloads of any length and any number of frames: `FramingImplementsChannel` and
    `FramesRefusedForCause`. The invariant `StreamInv` gives every frame that was sent and not
    yet taken its place in the stream: while the receiver goes on, what it has read, what the
    system holds and what the sender still has to send are these frames' cells, one after the
    other. So the receiver is never out of step, and what it decodes is what was encoded. That a
    header with its payload gives back its frame rests on `crc32` being the same function at
    both ends, except where the race on its table makes it wrong.

Only model-checked: liveness, that is `FramesArrive`, `WorkersFinish` and `DeathsNoticed`. Fairness
and ENABLED are outside the prover's reach.

## Not modelled

- Wording: `enum_strings.hpp`, explanations and factors of selection, the text of `QUERY_STATE`
  and of the state file for operators, log lines, what the worker and the command line print.
- `src/cli`: builds a `Fabric`, prints it and exits.
- `src/backend`: enumerates hardware or builds constant records, and holds no state; only
  `make_device`, which the worker uses, is in `Codec`.
- Layout: byte order, packing and length prefixes of payloads and of the snapshot. What is kept
  and lost is modelled; input that no encoder of the repository produces is not.
- Frame types that no process of the repository sends (`HELLO`, `PUBLISH_HEALTH`, `REVALIDATE`,
  `SHUTDOWN` and others): they are answered by an error or, for `SHUTDOWN`, lead to `Stop`.
- Windows branches, loss of power (nothing calls `fsync`), and the failure of `connect` (the
  worker exits before it did anything).
- `PersistFile` inside `Cluster`: `Write` is one step there. With one writer that is what
  `FileImplementsCell` proves; with several it is not true, as `claim_file` shows.

## Running

    tlc -config Accounting.cfg MCFailover
    tlapm FabricAccountingProofs.tla
