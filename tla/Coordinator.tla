----------------------------- MODULE Coordinator -----------------------------
(***************************************************************************)
(* The coordinator process (src/multiprocess/coordinator_main.cpp): one    *)
(* thread per worker connection around one Fabric, the table of workers,   *)
(* fencing on worker death, and persistence across crashes and restarts.   *)
(*                                                                         *)
(* A thread waits in recv_frame() ("serving"), carries out a frame, may    *)
(* then take a snapshot ("persist") and write it ("write"), and on a       *)
(* failed receive runs appl_worker_death() ("fencing", holding workers_mu_)*)
(* and drops its entry of the table ("erase").  Each call on the Fabric is *)
(* one step, so that the calls of different threads interleave.            *)
(***************************************************************************)
EXTENDS Persistence

CONSTANTS
  Conns,         \* connection threads
  SharedBoots,   \* whether two open connections may carry one WorkerBootId
  MaxStarts      \* bound: processes started

ASSUME SharedBootsAssumption == SharedBoots \in BOOLEAN
ASSUME MaxStartsAssumption == MaxStarts \in Nat

VARIABLES
  conn,          \* per thread: its place, its WorkerState and what it still has to do
  workers,       \* workers_: WorkerBootId -> the thread whose WorkerState is registered
  file,          \* the durable state a new process would read
  starts,        \* processes started so far
  publisher      \* history: the thread that last registered a device in this process

threads == <<conn, workers>>
outside == <<file, starts>>
coordVars == <<vars, threads, outside, publisher>>

Closed == [pc |-> "closed", boot |-> 0, devices |-> {}, dead |-> FALSE, todo |-> {},
           snap |-> NoState]

CoordInit ==
  /\ Init
  /\ conn = [c \in Conns |-> Closed] /\ workers = EmptyMap
  /\ file = NoState /\ starts = 1
  /\ publisher = EmptyMap

Open(c) == conn[c].pc # "closed"

\* workers_mu_ is free: appl_worker_death() holds it while it fences.
Unlocked == \A c \in Conns : conn[c].pc # "fencing"

\* The authority a frame of connection c is carried out under.
ContextOf(c) ==
  [coordinator_epoch |-> epoch, policy_generation |-> policy, worker_boot_id |-> conn[c].boot]

----------------------------------------------------------------------------
(* handle() and dispatch() *)

\* WORKER_BOOT: the thread registers its WorkerState, over any other of that identity.
Connect(c, b) ==
  /\ ~Open(c) /\ Unlocked
  /\ SharedBoots \/ \A o \in Conns : Open(o) => conn[o].boot # b
  /\ conn' = [conn EXCEPT ![c] = [Closed EXCEPT !.pc = "serving", !.boot = b]]
  /\ workers' = Put(workers, b, c)
  /\ UNCHANGED <<vars, outside, publisher>>

\* The frames after which dispatch() calls maybe_persist(), whatever their outcome.
ThenPersist(c) == conn' = [conn EXCEPT ![c] = [conn[c] EXCEPT !.pc = "persist"]]

publish_device(c, dev) ==
  /\ conn[c].pc = "serving"
  /\ \/ /\ register_device(dev, epoch)
        /\ conn' = [conn EXCEPT ![c] = [conn[c] EXCEPT !.pc = "persist",
                                                       !.devices = conn[c].devices \cup {dev.id}]]
        /\ publisher' = Put(publisher, dev.id, c)
     \/ /\ register_device_reason(dev, epoch) # "OK"
        /\ ThenPersist(c) /\ UNCHANGED <<vars, publisher>>
  /\ UNCHANGED <<workers, outside>>

\* A pool or region that exists is revalidated instead.
publish_pool(c, in) ==
  /\ conn[c].pc = "serving"
  /\ \/ create_pool(in, epoch)
     \/ create_pool_reason(in, epoch) = "DUPLICATE_IDENTITY" /\ revalidate_pool(in.id, epoch)
  /\ UNCHANGED <<threads, outside, publisher>>

publish_region(c, reg) ==
  /\ conn[c].pc = "serving"
  /\ \/ create_region(reg, epoch)
     \/ create_region_reason(reg, epoch) = "DUPLICATE_IDENTITY" /\ revalidate_region(reg.id, epoch)
  /\ UNCHANGED <<threads, outside, publisher>>

reserve_frame(c, req) ==
  /\ conn[c].pc = "serving"
  /\ \/ reserve(req, ContextOf(c))
     \/ reserve_reason(req, ContextOf(c)) # "OK" /\ UNCHANGED vars
  /\ ThenPersist(c)
  /\ UNCHANGED <<workers, outside, publisher>>

commit_frame(c, id) ==
  /\ conn[c].pc = "serving"
  /\ \/ commit(id, ContextOf(c))
     \/ commit_reason(id, ContextOf(c)) # "OK" /\ UNCHANGED vars
  /\ ThenPersist(c)
  /\ UNCHANGED <<workers, outside, publisher>>

release_frame(c, id) ==
  /\ conn[c].pc = "serving"
  /\ \/ release(id, ContextOf(c))
     \/ release_reason(id, ContextOf(c)) = "RESERVATION_STALE" /\ UNCHANGED vars
  /\ ThenPersist(c)
  /\ UNCHANGED <<workers, outside, publisher>>

\* persist_now(): the snapshot is taken under the lock of the Fabric, then serialized
\* and written without any.
Export(c) ==
  /\ conn[c].pc = "persist"
  /\ conn' = [conn EXCEPT ![c] = [conn[c] EXCEPT !.pc = "write", !.snap = Saved(export_persisted)]]
  /\ UNCHANGED <<vars, workers, outside, publisher>>

Write(c) ==
  /\ conn[c].pc = "write"
  /\ file' = conn[c].snap
  /\ conn' = [conn EXCEPT ![c] = [conn[c] EXCEPT !.pc = "serving", !.snap = NoState]]
  /\ UNCHANGED <<vars, workers, starts, publisher>>

----------------------------------------------------------------------------
(* Worker death *)

\* recv_frame() fails: appl_worker_death() takes workers_mu_ and the WorkerState the
\* table has for the boot identity, unless it is gone or dead already.
Disconnect(c) ==
  /\ conn[c].pc = "serving" /\ Unlocked
  /\ LET b == conn[c].boot IN
     IF b \in DOMAIN workers /\ ~conn[workers[b]].dead
     THEN conn' = [x \in Conns |->
                     [conn[x] EXCEPT !.dead = conn[x].dead \/ x = workers[b],
                                     !.pc = IF x = c THEN "fencing" ELSE conn[x].pc,
                                     !.todo = IF x = c THEN conn[workers[b]].devices
                                              ELSE conn[x].todo]]
     ELSE conn' = [conn EXCEPT ![c] = [conn[c] EXCEPT !.pc = "erase"]]
  /\ UNCHANGED <<vars, workers, outside, publisher>>

\* (Mutant: a device that cannot be marked is tried again.)
Fence_retry(c, d) ==
  /\ conn[c].pc = "fencing" /\ d \in conn[c].todo
  /\ IF valid_device_transition(devices[d].state, "REVALIDATION_REQUIRED")
        /\ devices[d].state # "REVALIDATION_REQUIRED"
     THEN /\ mark_device_revalidation(d, epoch)
          /\ conn' = [conn EXCEPT ![c] = [conn[c] EXCEPT !.todo = conn[c].todo \ {d}]]
     ELSE UNCHANGED <<vars, conn>>
  /\ UNCHANGED <<workers, outside, publisher>>

\* One mark_device_revalidation() of the loop; its answer is not looked at.
Fence(c, d) ==
  /\ conn[c].pc = "fencing" /\ d \in conn[c].todo
  /\ IF valid_device_transition(devices[d].state, "REVALIDATION_REQUIRED")
     THEN mark_device_revalidation(d, epoch)
     ELSE UNCHANGED vars
  /\ conn' = [conn EXCEPT ![c] = [conn[c] EXCEPT !.todo = conn[c].todo \ {d}]]
  /\ UNCHANGED <<workers, outside, publisher>>

\* The loop is over and workers_mu_ is given back.
Fenced(c) ==
  /\ conn[c].pc = "fencing" /\ conn[c].todo = {}
  /\ conn' = [conn EXCEPT ![c] = [conn[c] EXCEPT !.pc = "erase"]]
  /\ UNCHANGED <<vars, workers, outside, publisher>>

\* (Mutant: the entry is left in the table.)
Erase_entry_left(c) ==
  /\ conn[c].pc = "erase" /\ Unlocked
  /\ conn' = [conn EXCEPT ![c] = Closed]
  /\ UNCHANGED <<vars, workers, outside, publisher>>

\* handle() closes the connection and erases whatever the table has for its identity.
Erase(c) ==
  /\ conn[c].pc = "erase" /\ Unlocked
  /\ conn' = [conn EXCEPT ![c] = Closed]
  /\ workers' = [b \in DOMAIN workers \ {conn[c].boot} |-> workers[b]]
  /\ UNCHANGED <<vars, outside, publisher>>

----------------------------------------------------------------------------
(* Processes *)

\* A new process, with the epoch of its command line, on the durable state st.
Start(e, st) ==
  /\ starts < MaxStarts
  /\ StartFabric(e, st)
  /\ conn' = [c \in Conns |-> Closed] /\ workers' = EmptyMap
  /\ file' = st /\ starts' = starts + 1
  /\ publisher' = EmptyMap

\* The process is killed, or stop() writes the state of the moment first.
Crash(e) == Start(e, file)
Stop(e)  == Start(e, Saved(export_persisted))

----------------------------------------------------------------------------
Frame(c) ==
  \/ \E dev \in DeviceInputs : publish_device(c, dev)
  \/ \E in \in PoolInputs : publish_pool(c, in)
  \/ \E reg \in RegionInputs : publish_region(c, reg)
  \/ \E req \in Requests : reserve_frame(c, req)
  \/ \E id \in 1..MaxReservations : commit_frame(c, id)
  \/ \E id \in 1..MaxReservations : release_frame(c, id)

Fencing(c) == (\E d \in DeviceId : Fence(c, d)) \/ Fenced(c)

CoordNext ==
  \/ \E c \in Conns :
       \/ \E b \in BootId \ {0} : Connect(c, b)
       \/ Frame(c) \/ Export(c) \/ Write(c)
       \/ Disconnect(c) \/ Fencing(c) \/ Erase(c)
  \/ \E e \in Epochs : Crash(e) \/ Stop(e)

CoordSpec == CoordInit /\ [][CoordNext]_coordVars

----------------------------------------------------------------------------
(* Properties *)

\* The table has only WorkerStates of connections that are open, each under its own boot
\* identity: no death is ever charged to a worker of an earlier connection.
TableIsLive ==
  \A b \in DOMAIN workers : Open(workers[b]) /\ conn[workers[b]].boot = b

\* Evidence is current only while the worker it came from is connected, or its death is
\* being dealt with: no interleaving of publications, deaths and restarts leaves a
\* device of a dead worker, or one that was only read from the file, admissible.
EvidenceHasLiveWorker ==
  \A d \in DOMAIN devices : devices[d].evidence_current =>
    /\ d \in DOMAIN publisher
    /\ LET c == publisher[d]
       IN  Open(c) /\ (conn[c].pc = "fencing" => d \in conn[c].todo) /\ conn[c].pc # "erase"

\* A pool's bytes in use cover its outstanding reservations in every process, whatever
\* snapshot it started from: recovery never makes room that is taken.
PoolUseCovers ==
  \A p \in DOMAIN pools :
    BytesOf(HeldInPool(p, Outstanding)) <= pools[p].reserved + pools[p].committed

=============================================================================
