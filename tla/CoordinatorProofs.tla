-------------------------- MODULE CoordinatorProofs --------------------------
(***************************************************************************)
(* Proofs about the threads of the coordinator, for any numbers of         *)
(* connections, workers, devices and restarts.                             *)
(***************************************************************************)
EXTENDS Coordinator, TLAPS

----------------------------------------------------------------------------
(* The record of a connection *)

Places == {"closed", "serving", "persist", "write", "fencing", "erase"}

IsConn(x) ==
  /\ x = [pc |-> x.pc, boot |-> x.boot, devices |-> x.devices, dead |-> x.dead,
          todo |-> x.todo, snap |-> x.snap]
  /\ x.pc \in Places /\ x.dead \in BOOLEAN

\* A connection that is closed has no boot identity, no devices and nothing to do.
LEMMA ClosedIs ==
  /\ IsConn(Closed) /\ Closed.pc = "closed" /\ ~Closed.dead /\ Closed.snap = NoState
BY DEF IsConn, Closed, Places

(* One field of the record replaced. *)
AtPc(x, v)      == [x EXCEPT !.pc = v]
AtBoot(x, v)    == [x EXCEPT !.boot = v]
AtDevices(x, v) == [x EXCEPT !.devices = v]
AtDead(x, v)    == [x EXCEPT !.dead = v]
AtTodo(x, v)    == [x EXCEPT !.todo = v]
AtSnap(x, v)    == [x EXCEPT !.snap = v]

\* A thread's place changes and nothing else of its record does.
LEMMA AtPcIs ==
  ASSUME NEW x, IsConn(x), NEW v \in Places
  PROVE  LET y == AtPc(x, v)
         IN  /\ IsConn(y) /\ y.pc = v /\ y.boot = x.boot /\ y.devices = x.devices
             /\ y.dead = x.dead /\ y.todo = x.todo /\ y.snap = x.snap
BY DEF IsConn, AtPc

\* A thread's boot identity changes and nothing else of its record does.
LEMMA AtBootIs ==
  ASSUME NEW x, IsConn(x), NEW v
  PROVE  LET y == AtBoot(x, v)
         IN  /\ IsConn(y) /\ y.pc = x.pc /\ y.boot = v /\ y.devices = x.devices
             /\ y.dead = x.dead /\ y.todo = x.todo /\ y.snap = x.snap
BY DEF IsConn, AtBoot

\* A thread's devices changes and nothing else of its record does.
LEMMA AtDevicesIs ==
  ASSUME NEW x, IsConn(x), NEW v
  PROVE  LET y == AtDevices(x, v)
         IN  /\ IsConn(y) /\ y.pc = x.pc /\ y.boot = x.boot /\ y.devices = v
             /\ y.dead = x.dead /\ y.todo = x.todo /\ y.snap = x.snap
BY DEF IsConn, AtDevices

\* A thread's death mark changes and nothing else of its record does.
LEMMA AtDeadIs ==
  ASSUME NEW x, IsConn(x), NEW v \in BOOLEAN
  PROVE  LET y == AtDead(x, v)
         IN  /\ IsConn(y) /\ y.pc = x.pc /\ y.boot = x.boot /\ y.devices = x.devices
             /\ y.dead = v /\ y.todo = x.todo /\ y.snap = x.snap
BY DEF IsConn, AtDead

\* A thread's devices to fence changes and nothing else of its record does.
LEMMA AtTodoIs ==
  ASSUME NEW x, IsConn(x), NEW v
  PROVE  LET y == AtTodo(x, v)
         IN  /\ IsConn(y) /\ y.pc = x.pc /\ y.boot = x.boot /\ y.devices = x.devices
             /\ y.dead = x.dead /\ y.todo = v /\ y.snap = x.snap
BY DEF IsConn, AtTodo

\* A thread's snapshot changes and nothing else of its record does.
LEMMA AtSnapIs ==
  ASSUME NEW x, IsConn(x), NEW v
  PROVE  LET y == AtSnap(x, v)
         IN  /\ IsConn(y) /\ y.pc = x.pc /\ y.boot = x.boot /\ y.devices = x.devices
             /\ y.dead = x.dead /\ y.todo = x.todo /\ y.snap = v
BY DEF IsConn, AtSnap

(* What the steps of a thread make of its record. *)
Connected(b)         == [Closed EXCEPT !.pc = "serving", !.boot = b]
Published(x, ds)     == [x EXCEPT !.pc = "persist", !.devices = ds]
Snapped(x, p, s)     == [x EXCEPT !.pc = p, !.snap = s]
Dying(x, dd, p, ds)  == [x EXCEPT !.dead = dd, !.pc = p, !.todo = ds]

\* Connect(): the thread of a new worker waits for its frames.
LEMMA ConnectedIs ==
  ASSUME NEW b
  PROVE  LET y == Connected(b)
         IN  /\ IsConn(y) /\ y.pc = "serving" /\ y.boot = b /\ ~y.dead /\ y.snap = NoState
<1>1. Connected(b) = AtBoot(AtPc(Closed, "serving"), b)
  BY DEF AtBoot, AtPc, Connected
<1>2. "serving" \in Places
  BY DEF Places
<1> QED
  BY <1>1, <1>2, ClosedIs, AtPcIs, AtBootIs

\* A thread moves to another place of its loop.
LEMMA MovesIs ==
  ASSUME NEW c, IsConn(conn[c]), NEW p \in Places
  PROVE  LET y == AtPc(conn[c], p)
         IN  /\ IsConn(y) /\ y.pc = p /\ y.boot = conn[c].boot /\ y.devices = conn[c].devices
             /\ y.dead = conn[c].dead /\ y.todo = conn[c].todo /\ y.snap = conn[c].snap
BY AtPcIs

\* Fencing(): a device is struck off the list of a thread.
LEMMA StruckIs ==
  ASSUME NEW c, IsConn(conn[c]), NEW d
  PROVE  LET y == AtTodo(conn[c], conn[c].todo \ {d})
         IN  /\ IsConn(y) /\ y.pc = conn[c].pc /\ y.boot = conn[c].boot
             /\ y.devices = conn[c].devices /\ y.dead = conn[c].dead
             /\ y.todo = conn[c].todo \ {d} /\ y.snap = conn[c].snap
<1> DEFINE ds == conn[c].todo \ {d}
<1> HIDE DEF ds
<1>1. LET y == AtTodo(conn[c], ds)
      IN  /\ IsConn(y) /\ y.pc = conn[c].pc /\ y.boot = conn[c].boot
          /\ y.devices = conn[c].devices /\ y.dead = conn[c].dead
          /\ y.todo = ds /\ y.snap = conn[c].snap
  BY AtTodoIs
<1> QED
  BY <1>1 DEF ds

\* publish_device(): the device joins the worker's.
LEMMA PublishedIs ==
  ASSUME NEW c, IsConn(conn[c]), NEW dev
  PROVE  LET y == Published(conn[c], conn[c].devices \cup {dev.id})
         IN  /\ IsConn(y) /\ y.pc = "persist" /\ y.boot = conn[c].boot
             /\ y.devices = conn[c].devices \cup {dev.id}
             /\ y.dead = conn[c].dead /\ y.todo = conn[c].todo /\ y.snap = conn[c].snap
<1> DEFINE ds == conn[c].devices \cup {dev.id}
<1>1. Published(conn[c], ds) = AtDevices(AtPc(conn[c], "persist"), ds)
  BY DEF AtDevices, AtPc, Published
<1>2. "persist" \in Places
  BY DEF Places
<1> HIDE DEF ds
<1>3. LET y == Published(conn[c], ds)
      IN  /\ IsConn(y) /\ y.pc = "persist" /\ y.boot = conn[c].boot /\ y.devices = ds
          /\ y.dead = conn[c].dead /\ y.todo = conn[c].todo /\ y.snap = conn[c].snap
  BY <1>1, <1>2, AtPcIs, AtDevicesIs
<1> QED
  BY <1>3 DEF ds

\* A thread moves and its snapshot changes.
LEMMA SnappedIs ==
  ASSUME NEW c, IsConn(conn[c]), NEW p \in Places, NEW s
  PROVE  LET y == Snapped(conn[c], p, s)
         IN  /\ IsConn(y) /\ y.pc = p /\ y.boot = conn[c].boot /\ y.devices = conn[c].devices
             /\ y.dead = conn[c].dead /\ y.todo = conn[c].todo /\ y.snap = s
<1>1. Snapped(conn[c], p, s) = AtSnap(AtPc(conn[c], p), s)
  BY DEF AtSnap, AtPc, Snapped
<1> QED
  BY <1>1, AtPcIs, AtSnapIs

\* Export(): the snapshot is taken.
LEMMA ExportedIs ==
  ASSUME NEW c, IsConn(conn[c])
  PROVE  LET y == Snapped(conn[c], "write", Saved(export_persisted))
         IN  /\ IsConn(y) /\ y.pc = "write" /\ y.boot = conn[c].boot
             /\ y.devices = conn[c].devices /\ y.dead = conn[c].dead
             /\ y.todo = conn[c].todo /\ y.snap = Saved(export_persisted)
<1>1. "write" \in Places
  BY DEF Places
<1> QED
  BY <1>1, SnappedIs

\* Write(): the snapshot is given up once it is written.
LEMMA WrittenIs ==
  ASSUME NEW c, IsConn(conn[c])
  PROVE  LET y == Snapped(conn[c], "serving", NoState)
         IN  /\ IsConn(y) /\ y.pc = "serving" /\ y.boot = conn[c].boot
             /\ y.devices = conn[c].devices /\ y.dead = conn[c].dead
             /\ y.todo = conn[c].todo /\ y.snap = NoState
<1>1. "serving" \in Places
  BY DEF Places
<1> QED
  BY <1>1, SnappedIs

\* Disconnect(): a thread is marked dead, or starts fencing, or neither.
LEMMA DyingIs ==
  ASSUME NEW c, IsConn(conn[c]), NEW dd \in BOOLEAN, NEW p \in Places, NEW ds
  PROVE  LET y == Dying(conn[c], dd, p, ds)
         IN  /\ IsConn(y) /\ y.pc = p /\ y.boot = conn[c].boot /\ y.devices = conn[c].devices
             /\ y.dead = dd /\ y.todo = ds /\ y.snap = conn[c].snap
<1>1. Dying(conn[c], dd, p, ds) = AtTodo(AtPc(AtDead(conn[c], dd), p), ds)
  BY DEF AtTodo, AtPc, AtDead, Dying
<1> QED
  BY <1>1, AtPcIs, AtDeadIs, AtTodoIs

----------------------------------------------------------------------------
(* The steps of the threads *)

ConnOK == DOMAIN conn = Conns /\ \A x \in Conns : IsConn(conn[x])

Becomes(c, y) == conn' = [conn EXCEPT ![c] = y]

\* One thread moves.
LEMMA OneMoves ==
  ASSUME ConnOK, NEW c \in Conns, NEW y, IsConn(y), Becomes(c, y)
  PROVE  ConnOK' /\ conn'[c] = y /\ \A x \in Conns \ {c} : conn'[x] = conn[x]
<1>1. DOMAIN conn' = Conns /\ conn'[c] = y /\ \A x \in Conns \ {c} : conn'[x] = conn[x]
  BY DEF ConnOK, Becomes
<1> QED
  BY <1>1 DEF ConnOK

\* A frame either registers a device of the worker or leaves every device as it is.
Registers(c, dev) ==
  /\ devices' = Put(devices, dev.id, dev)
  /\ publisher' = Put(publisher, dev.id, c)
  /\ Becomes(c, Published(conn[c], conn[c].devices \cup {dev.id}))

Passes(c) ==
  /\ UNCHANGED <<devices, publisher>>
  /\ UNCHANGED conn \/ Becomes(c, AtPc(conn[c], "persist"))

\* Whatever dispatch() is given, it does one of the two and leaves the table and the file alone.
LEMMA FrameIs ==
  ASSUME NEW c \in Conns, Frame(c)
  PROVE  /\ conn[c].pc = "serving" /\ UNCHANGED <<workers, file>>
         /\ Passes(c) \/ \E dev \in DeviceInputs : Registers(c, dev)
<1>1. CASE \E dev \in DeviceInputs : publish_device(c, dev)
  BY <1>1 DEF publish_device, register_device, Registers, Passes, Becomes, Published, ThenPersist,
              AtPc, vars, outside
<1>2. CASE \E in \in PoolInputs : publish_pool(c, in)
  BY <1>2 DEF publish_pool, create_pool, revalidate_pool, Passes, threads, outside
<1>3. CASE \E reg \in RegionInputs : publish_region(c, reg)
  BY <1>3 DEF publish_region, create_region, revalidate_region, Passes, threads, outside
<1>4. CASE \E req \in Requests : reserve_frame(c, req)
  <2>1. PICK req \in Requests : reserve_frame(c, req)
    BY <1>4
  <2>2. UNCHANGED devices
    BY <2>1 DEF reserve_frame, reserve, ReserveOn, vars
  <2> QED
    BY <2>1, <2>2 DEF reserve_frame, Passes, Becomes, ThenPersist, AtPc, outside
<1>5. CASE \E id \in 1..MaxReservations : commit_frame(c, id)
  <2>1. PICK id \in 1..MaxReservations : commit_frame(c, id)
    BY <1>5
  <2>2. UNCHANGED devices
    BY <2>1 DEF commit_frame, commit, vars
  <2> QED
    BY <2>1, <2>2 DEF commit_frame, Passes, Becomes, ThenPersist, AtPc, outside
<1>6. CASE \E id \in 1..MaxReservations : release_frame(c, id)
  <2>1. PICK id \in 1..MaxReservations : release_frame(c, id)
    BY <1>6
  <2>2. UNCHANGED devices
    BY <2>1 DEF release_frame, release, vars
  <2> QED
    BY <2>1, <2>2 DEF release_frame, Passes, Becomes, ThenPersist, AtPc, outside
<1> QED
  BY <1>1, <1>2, <1>3, <1>4, <1>5, <1>6 DEF Frame

(* The WorkerState of the table is marked dead and c starts fencing its devices. *)
StartsFencing(c) ==
  LET o == workers[conn[c].boot] IN
  /\ conn[c].boot \in DOMAIN workers
  /\ ConnOK'
  /\ \A x \in Conns :
       /\ conn'[x].boot = conn[x].boot /\ conn'[x].devices = conn[x].devices
       /\ conn'[x].snap = conn[x].snap
       /\ conn'[x].dead = (conn[x].dead \/ x = o)
       /\ x # c => conn'[x].pc = conn[x].pc /\ conn'[x].todo = conn[x].todo
       /\ x = c => conn'[x].pc = "fencing" /\ conn'[x].todo = conn[o].devices

\* A failed receive marks the WorkerState of the table dead and starts fencing, or does
\* nothing but leave the loop.
LEMMA DisconnectIs ==
  ASSUME ConnOK, NEW c \in Conns, Disconnect(c)
  PROVE  /\ conn[c].pc = "serving" /\ UNCHANGED <<devices, publisher, workers, file>>
         /\ \/ /\ \/ conn[c].boot \notin DOMAIN workers
                  \/ conn[workers[conn[c].boot]].dead
               /\ Becomes(c, AtPc(conn[c], "erase"))
            \/ StartsFencing(c)
<1>1. conn[c].pc = "serving" /\ UNCHANGED <<devices, publisher, workers, file>>
  BY DEF Disconnect, vars, outside
<1>2. CASE conn[c].boot \in DOMAIN workers /\ ~conn[workers[conn[c].boot]].dead
  <2> DEFINE o == workers[conn[c].boot]
             dd(x) == conn[x].dead \/ x = o
             pl(x) == IF x = c THEN "fencing" ELSE conn[x].pc
             td(x) == IF x = c THEN conn[o].devices ELSE conn[x].todo
  <2>1. conn' = [x \in Conns |-> Dying(conn[x], dd(x), pl(x), td(x))]
    BY <1>2 DEF Disconnect, Dying
  <2>2. \A x \in Conns : IsConn(conn[x])
    BY DEF ConnOK
  <2>3. \A x \in Conns : dd(x) \in BOOLEAN /\ pl(x) \in Places
    BY <2>2 DEF IsConn, Places
  <2>4. /\ \A x \in Conns : x # c => pl(x) = conn[x].pc /\ td(x) = conn[x].todo
        /\ pl(c) = "fencing" /\ td(c) = conn[o].devices
    OBVIOUS
  <2>5. \A x \in Conns : dd(x) = (conn[x].dead \/ x = o)
    OBVIOUS
  <2> HIDE DEF dd, pl, td
  <2>6. \A x \in Conns :
          LET y == Dying(conn[x], dd(x), pl(x), td(x))
          IN  /\ IsConn(y) /\ y.pc = pl(x) /\ y.boot = conn[x].boot
              /\ y.devices = conn[x].devices
              /\ y.dead = dd(x) /\ y.todo = td(x) /\ y.snap = conn[x].snap
    BY <2>2, <2>3, DyingIs
  <2>7. /\ DOMAIN conn' = Conns
        /\ \A x \in Conns : conn'[x] = Dying(conn[x], dd(x), pl(x), td(x))
    BY <2>1
  <2>8. \A x \in Conns :
          /\ IsConn(conn'[x]) /\ conn'[x].pc = pl(x) /\ conn'[x].boot = conn[x].boot
          /\ conn'[x].devices = conn[x].devices
          /\ conn'[x].dead = dd(x) /\ conn'[x].todo = td(x) /\ conn'[x].snap = conn[x].snap
    BY <2>6, <2>7
  <2>9. ConnOK'
    BY <2>7, <2>8 DEF ConnOK
  <2> HIDE DEF o
  <2>10. \A x \in Conns :
          /\ conn'[x].boot = conn[x].boot /\ conn'[x].devices = conn[x].devices
          /\ conn'[x].snap = conn[x].snap
          /\ conn'[x].dead = (conn[x].dead \/ x = o)
          /\ x # c => conn'[x].pc = conn[x].pc /\ conn'[x].todo = conn[x].todo
          /\ x = c => conn'[x].pc = "fencing" /\ conn'[x].todo = conn[o].devices
    BY <2>4, <2>5, <2>8
  <2>11. StartsFencing(c)
    BY <1>2, <2>9, <2>10 DEF o, StartsFencing
  <2> QED
    BY <1>1, <2>11
<1>3. CASE ~(conn[c].boot \in DOMAIN workers /\ ~conn[workers[conn[c].boot]].dead)
  <2>1. Becomes(c, AtPc(conn[c], "erase"))
    BY <1>3 DEF Disconnect, Becomes, AtPc
  <2> QED
    BY <1>1, <1>3, <2>1
<1> QED
  BY <1>2, <1>3

\* Every other step of a thread moves that thread only.
LEMMA ThreadIs ==
  ASSUME NEW c \in Conns, Export(c) \/ Write(c) \/ Fencing(c)
  PROVE  /\ UNCHANGED <<publisher, workers>>
         /\ \/ /\ conn[c].pc = "persist" /\ UNCHANGED <<devices, file>>
               /\ Becomes(c, Snapped(conn[c], "write", Saved(export_persisted)))
            \/ /\ conn[c].pc = "write" /\ UNCHANGED devices /\ file' = conn[c].snap
               /\ Becomes(c, Snapped(conn[c], "serving", NoState))
            \/ /\ conn[c].pc = "fencing" /\ UNCHANGED file
               /\ \E d \in conn[c].todo :
                    /\ IF valid_device_transition(devices[d].state, "REVALIDATION_REQUIRED")
                       THEN mark_device_revalidation(d, epoch)
                       ELSE UNCHANGED devices
                    /\ Becomes(c, AtTodo(conn[c], conn[c].todo \ {d}))
            \/ /\ conn[c].pc = "fencing" /\ conn[c].todo = {} /\ UNCHANGED <<devices, file>>
               /\ Becomes(c, AtPc(conn[c], "erase"))
<1>1. CASE Export(c)
  BY <1>1 DEF Export, Becomes, Snapped, vars, outside
<1>2. CASE Write(c)
  BY <1>2 DEF Write, Becomes, Snapped, vars
<1>3. CASE Fencing(c)
  <2>1. CASE Fenced(c)
    BY <2>1 DEF Fenced, Becomes, AtPc, vars, outside
  <2>2. ASSUME NEW d \in DeviceId, Fence(c, d)
        PROVE  /\ UNCHANGED <<publisher, workers, file>> /\ conn[c].pc = "fencing"
               /\ d \in conn[c].todo
               /\ IF valid_device_transition(devices[d].state, "REVALIDATION_REQUIRED")
                  THEN mark_device_revalidation(d, epoch)
                  ELSE UNCHANGED devices
               /\ Becomes(c, AtTodo(conn[c], conn[c].todo \ {d}))
    BY <2>2 DEF Fence, Becomes, AtTodo, vars, outside
  <2> QED
    BY <1>3, <2>1, <2>2 DEF Fencing
<1> QED
  BY <1>1, <1>2, <1>3

----------------------------------------------------------------------------
(* The table of workers *)

TableInv ==
  /\ ConnOK
  /\ \A b \in DOMAIN workers :
       workers[b] \in Conns /\ Open(workers[b]) /\ conn[workers[b]].boot = b

\* A step of a thread other than its first and its last keeps it open and its identity.
LEMMA StaysOpen ==
  ASSUME ConnOK, NEW c \in Conns,
         Frame(c) \/ Export(c) \/ Write(c) \/ Disconnect(c) \/ Fencing(c)
  PROVE  /\ ConnOK' /\ UNCHANGED workers
         /\ \A x \in Conns : conn'[x].boot = conn[x].boot /\ (Open(x) <=> Open(x)')
<1> DEFINE Goal == /\ ConnOK' /\ UNCHANGED workers
                   /\ \A x \in Conns : conn'[x].boot = conn[x].boot /\ (Open(x) <=> Open(x)')
<1>1. IsConn(conn[c])
  BY DEF ConnOK
<1>0. conn[c].pc # "closed"
  <2>1. CASE Frame(c)
    BY <2>1, FrameIs
  <2>2. CASE Disconnect(c)
    BY <2>2, DisconnectIs
  <2>3. CASE Export(c) \/ Write(c) \/ Fencing(c)
    BY <2>3, ThreadIs
  <2> QED
    BY <2>1, <2>2, <2>3
<1>2. /\ "persist" \in Places /\ "erase" \in Places
      /\ "write" \in Places /\ "serving" \in Places
  BY DEF Places
<1>3. ASSUME NEW y, IsConn(y), y.boot = conn[c].boot, y.pc # "closed", Becomes(c, y),
             UNCHANGED workers
      PROVE  Goal
  <2>1. ConnOK' /\ conn'[c] = y /\ \A x \in Conns \ {c} : conn'[x] = conn[x]
    BY <1>3, OneMoves
  <2> QED
    BY <1>0, <1>3, <2>1 DEF Open
<1>4. CASE Frame(c)
  <2>1. CASE UNCHANGED conn
    BY <1>4, <2>1, FrameIs DEF ConnOK, Open
  <2>2. CASE Becomes(c, AtPc(conn[c], "persist"))
    BY <1>1, <1>2, <1>3, <1>4, <2>2, FrameIs, MovesIs
  <2>3. CASE \E dev \in DeviceInputs : Registers(c, dev)
    BY <1>1, <1>3, <1>4, <2>3, FrameIs, PublishedIs DEF Registers
  <2> QED
    BY <1>4, <2>1, <2>2, <2>3, FrameIs DEF Passes
<1>5. CASE Disconnect(c)
  <2>1. CASE Becomes(c, AtPc(conn[c], "erase"))
    <3>1. UNCHANGED workers
      BY <1>5, DisconnectIs
    <3> QED
      BY <1>1, <1>2, <1>3, <2>1, <3>1, MovesIs
  <2>2. CASE ~Becomes(c, AtPc(conn[c], "erase"))
    <3>0. StartsFencing(c) /\ UNCHANGED workers
      BY <1>5, <2>2, DisconnectIs
    <3>1. /\ ConnOK' /\ UNCHANGED workers
          /\ conn'[c].pc = "fencing"
          /\ \A x \in Conns : conn'[x].boot = conn[x].boot
          /\ \A x \in Conns \ {c} : conn'[x].pc = conn[x].pc
      BY <3>0 DEF StartsFencing
    <3>2. ASSUME NEW x \in Conns, conn[x].pc # "closed" PROVE conn'[x].pc # "closed"
      BY <3>1, <3>2
    <3>3. ASSUME NEW x \in Conns, conn'[x].pc # "closed" PROVE conn[x].pc # "closed"
      BY <1>0, <3>1, <3>3
    <3> QED
      BY <3>1, <3>2, <3>3 DEF Open
  <2> QED
    BY <2>1, <2>2
<1>6. CASE Export(c) \/ Write(c) \/ Fencing(c)
  <2>1. UNCHANGED workers
    BY <1>6, ThreadIs
  <2>2. CASE Becomes(c, Snapped(conn[c], "write", Saved(export_persisted)))
    <3>1. LET y == Snapped(conn[c], "write", Saved(export_persisted))
          IN  IsConn(y) /\ y.boot = conn[c].boot /\ y.pc = "write"
      BY <1>1, ExportedIs
    <3> QED
      BY <1>3, <2>1, <2>2, <3>1
  <2>3. CASE Becomes(c, Snapped(conn[c], "serving", NoState))
    <3>1. LET y == Snapped(conn[c], "serving", NoState)
          IN  IsConn(y) /\ y.boot = conn[c].boot /\ y.pc = "serving"
      BY <1>1, WrittenIs
    <3> QED
      BY <1>3, <2>1, <2>3, <3>1
  <2>4. CASE Becomes(c, AtPc(conn[c], "erase"))
    BY <1>1, <1>2, <1>3, <2>1, <2>4, MovesIs
  <2>5. ASSUME NEW d, Becomes(c, AtTodo(conn[c], conn[c].todo \ {d})), conn[c].pc = "fencing"
        PROVE  Goal
    BY <1>1, <1>3, <2>1, <2>5, StruckIs
  <2> QED
    BY <1>6, <2>2, <2>3, <2>4, <2>5, ThreadIs
<1> QED
  BY <1>4, <1>5, <1>6

\* A thread that starts to serve.
LEMMA ConnectIs ==
  ASSUME NEW c, NEW b, Connect(c, b)
  PROVE  /\ ~Open(c) /\ Becomes(c, Connected(b)) /\ workers' = Put(workers, b, c)
         /\ UNCHANGED <<devices, publisher, file>>
         /\ SharedBoots \/ \A o \in Conns : Open(o) => conn[o].boot # b
BY DEF Connect, Becomes, Connected, vars, outside

\* handle() drops its connection: the thread is closed and its identity leaves the table.
LEMMA EraseIs ==
  ASSUME NEW c, Erase(c)
  PROVE  /\ conn[c].pc = "erase" /\ Becomes(c, Closed)
         /\ workers' = [b \in DOMAIN workers \ {conn[c].boot} |-> workers[b]]
         /\ UNCHANGED <<devices, publisher, file>>
BY DEF Erase, Becomes, vars, outside

\* A new process has no threads.
LEMMA NewProcess ==
  ASSUME conn' = [c \in Conns |-> Closed]
  PROVE  ConnOK' /\ \A x \in Conns : conn'[x] = Closed
BY ClosedIs DEF ConnOK

\* The table invariant holds at first and after every step.
LEMMA TableStep ==
  /\ CoordInit => TableInv
  /\ TableInv /\ [CoordNext]_coordVars => TableInv'
<1>1. ASSUME CoordInit PROVE TableInv
  BY <1>1, ClosedIs DEF CoordInit, TableInv, ConnOK, EmptyMap
<1>2. ASSUME TableInv, [CoordNext]_coordVars PROVE TableInv'
  <2>0. ConnOK
    BY <1>2 DEF TableInv
  <2>1. ASSUME NEW c \in Conns,
               Frame(c) \/ Export(c) \/ Write(c) \/ Disconnect(c) \/ Fencing(c)
        PROVE  TableInv'
    <3>1. /\ ConnOK' /\ UNCHANGED workers
          /\ \A x \in Conns : conn'[x].boot = conn[x].boot /\ (Open(x) => Open(x)')
      BY <2>0, <2>1, StaysOpen
    <3> QED
      BY <1>2, <3>1 DEF TableInv, Open
  <2>2. ASSUME NEW c \in Conns, NEW b, Connect(c, b)
        PROVE  TableInv'
    <3>1. /\ ~Open(c) /\ Becomes(c, Connected(b)) /\ workers' = Put(workers, b, c)
      BY <2>2, ConnectIs
    <3>2. /\ ConnOK' /\ conn'[c] = Connected(b) /\ \A x \in Conns \ {c} : conn'[x] = conn[x]
      BY <2>0, <3>1, OneMoves, ConnectedIs
    <3>3. Connected(b).boot = b /\ Connected(b).pc = "serving"
      BY ConnectedIs
    <3>4. ASSUME NEW k \in DOMAIN workers'
          PROVE  workers'[k] \in Conns /\ conn'[workers'[k]].pc # "closed"
                 /\ conn'[workers'[k]].boot = k
      <4>1. CASE k = b
        BY <3>1, <3>2, <3>3, <4>1 DEF Put
      <4>2. CASE k # b
        <5>1. k \in DOMAIN workers /\ workers'[k] = workers[k]
          BY <3>1, <4>2 DEF Put
        <5>2. workers[k] # c
          BY <1>2, <3>1, <5>1 DEF TableInv
        <5> QED
          BY <1>2, <3>2, <5>1, <5>2 DEF TableInv, Open
      <4> QED
        BY <4>1, <4>2
    <3> QED
      BY <3>2, <3>4 DEF TableInv, Open
  <2>3. ASSUME NEW c \in Conns, Erase(c)
        PROVE  TableInv'
    <3>1. /\ Becomes(c, Closed)
          /\ workers' = [b \in DOMAIN workers \ {conn[c].boot} |-> workers[b]]
      BY <2>3, EraseIs
    <3>2. ConnOK' /\ \A x \in Conns \ {c} : conn'[x] = conn[x]
      BY <2>0, <3>1, OneMoves, ClosedIs
    <3>3. ASSUME NEW k \in DOMAIN workers'
          PROVE  workers'[k] \in Conns /\ conn'[workers'[k]].pc # "closed"
                 /\ conn'[workers'[k]].boot = k
      <4>1. k \in DOMAIN workers /\ k # conn[c].boot /\ workers'[k] = workers[k]
        BY <3>1
      <4> QED
        BY <1>2, <3>2, <4>1 DEF TableInv, Open
    <3> QED
      BY <3>2, <3>3 DEF TableInv, Open
  <2>4. ASSUME NEW e, Crash(e) \/ Stop(e)
        PROVE  TableInv'
    <3>1. conn' = [c \in Conns |-> Closed] /\ workers' = EmptyMap
      BY <2>4 DEF Crash, Stop, Start
    <3>2. DOMAIN workers' = {}
      BY <3>1 DEF EmptyMap
    <3> QED
      BY <3>1, <3>2, NewProcess DEF TableInv
  <2>5. CASE UNCHANGED coordVars
    BY <1>2, <2>5 DEF TableInv, ConnOK, Open, coordVars, threads
  <2> QED
    BY <1>2, <2>1, <2>2, <2>3, <2>4, <2>5 DEF CoordNext
<1> QED
  BY <1>1, <1>2

\* The table of workers never names a connection that is gone, nor one under another boot
\* identity, however the threads interleave and even when workers share an identity
\* (coordinator_main.cpp, handle() and appl_worker_death()).
THEOREM TableNamesLiveThreads == CoordSpec => []TableIsLive
<1>1. TableInv => TableIsLive
  BY DEF TableInv, TableIsLive
<1> QED
  BY <1>1, TableStep, PTL DEF CoordSpec

----------------------------------------------------------------------------
(* The sessions of workers that do not share an identity *)

SessionInv ==
  /\ ConnOK
  /\ \A c \in Conns : Open(c) => conn[c].boot \in DOMAIN workers /\ workers[conn[c].boot] = c
  /\ \A c \in Conns : conn[c].dead => conn[c].pc \in {"fencing", "erase"}

\* Between its first and its last step an open thread stays the one the table has for its
\* identity, and none but a thread that lost its worker is marked dead.
LEMMA SessionMove ==
  ASSUME SessionInv, NEW c \in Conns,
         Frame(c) \/ Export(c) \/ Write(c) \/ Disconnect(c) \/ Fencing(c)
  PROVE  SessionInv'
<1>0. ConnOK
  BY DEF SessionInv
<1>1. /\ ConnOK' /\ UNCHANGED workers
      /\ \A x \in Conns : conn'[x].boot = conn[x].boot /\ (Open(x) => Open(x)')
  BY <1>0, StaysOpen
<1>2. IsConn(conn[c])
  BY <1>0 DEF ConnOK
<1>3. /\ "persist" \in Places /\ "erase" \in Places
      /\ "write" \in Places /\ "serving" \in Places
  BY DEF Places
<1> DEFINE Marks == \A x \in Conns : conn'[x].dead => conn'[x].pc \in {"fencing", "erase"}
           Stays == \A x \in Conns : conn'[x].pc # "closed" => conn[x].pc # "closed"
<1>4. ASSUME NEW y, IsConn(y), Becomes(c, y), conn[c].pc # "closed",
             y.dead => y.pc \in {"fencing", "erase"}
      PROVE  Marks /\ Stays
  <2>1. conn'[c] = y /\ \A x \in Conns \ {c} : conn'[x] = conn[x]
    BY <1>0, <1>4, OneMoves
  <2> QED
    BY <1>4, <2>1 DEF SessionInv
<1> SUFFICES Marks /\ Stays
  BY <1>1 DEF SessionInv, Open
<1> HIDE DEF Marks, Stays
<1>5. CASE Frame(c)
  <2>1. conn[c].pc = "serving" /\ ~conn[c].dead
    BY <1>5, FrameIs DEF SessionInv
  <2>2. CASE UNCHANGED conn
    BY <2>2 DEF SessionInv, Marks, Stays
  <2>3. CASE Becomes(c, AtPc(conn[c], "persist"))
    <3>1. LET y == AtPc(conn[c], "persist")
          IN  IsConn(y) /\ y.dead = conn[c].dead /\ y.pc = "persist"
      BY <1>2, <1>3, MovesIs
    <3> QED
      BY <1>4, <2>1, <2>3, <3>1
  <2>4. ASSUME NEW dev \in DeviceInputs, Registers(c, dev)
        PROVE  Marks /\ Stays
    <3>1. LET y == Published(conn[c], conn[c].devices \cup {dev.id})
          IN  IsConn(y) /\ y.dead = conn[c].dead
      BY <1>2, PublishedIs
    <3> QED
      BY <1>4, <2>1, <2>4, <3>1 DEF Registers
  <2> QED
    BY <1>5, <2>2, <2>3, <2>4, FrameIs DEF Passes
<1>6. CASE Disconnect(c)
  <2>1. conn[c].pc = "serving" /\ ~conn[c].dead /\ workers[conn[c].boot] = c
    BY <1>6, DisconnectIs, <1>0 DEF SessionInv, Open
  <2>2. CASE Becomes(c, AtPc(conn[c], "erase"))
    BY <1>2, <1>3, <1>4, <2>1, <2>2, MovesIs
  <2>3. CASE ~Becomes(c, AtPc(conn[c], "erase"))
    <3>0. StartsFencing(c)
      BY <1>0, <1>6, <2>3, DisconnectIs
    <3>1. /\ conn'[c].pc = "fencing"
          /\ \A x \in Conns \ {c} : conn'[x].pc = conn[x].pc
          /\ \A x \in Conns : conn'[x].dead = (conn[x].dead \/ x = c)
      BY <2>1, <3>0 DEF StartsFencing
    <3> QED
      BY <2>1, <3>1 DEF SessionInv, Marks, Stays
  <2> QED
    BY <2>2, <2>3
<1>7. CASE Export(c) \/ Write(c) \/ Fencing(c)
  <2>0. conn[c].dead => conn[c].pc \in {"fencing", "erase"}
    BY DEF SessionInv
  <2>1. CASE /\ conn[c].pc = "persist"
             /\ Becomes(c, Snapped(conn[c], "write", Saved(export_persisted)))
    <3>1. LET y == Snapped(conn[c], "write", Saved(export_persisted))
          IN  IsConn(y) /\ y.dead = conn[c].dead
      BY <1>2, ExportedIs
    <3> QED
      BY <1>4, <2>0, <2>1, <3>1
  <2>2. CASE conn[c].pc = "write" /\ Becomes(c, Snapped(conn[c], "serving", NoState))
    <3>1. LET y == Snapped(conn[c], "serving", NoState)
          IN  IsConn(y) /\ y.dead = conn[c].dead
      BY <1>2, WrittenIs
    <3> QED
      BY <1>4, <2>0, <2>2, <3>1
  <2>3. CASE conn[c].pc = "fencing" /\ Becomes(c, AtPc(conn[c], "erase"))
    BY <1>2, <1>3, <1>4, <2>3, MovesIs
  <2>4. ASSUME NEW d, Becomes(c, AtTodo(conn[c], conn[c].todo \ {d})), conn[c].pc = "fencing"
        PROVE  Marks /\ Stays
    <3>1. LET y == AtTodo(conn[c], conn[c].todo \ {d})
          IN  IsConn(y) /\ y.pc = "fencing"
      BY <1>2, <2>4, StruckIs
    <3> QED
      BY <1>4, <2>4, <3>1
  <2> QED
    BY <1>7, <2>1, <2>2, <2>3, <2>4, ThreadIs
<1> QED
  BY <1>5, <1>6, <1>7

\* The session invariant holds at first and after every step.
LEMMA SessionStep ==
  ASSUME SharedBoots = FALSE
  PROVE  /\ CoordInit => SessionInv
         /\ SessionInv /\ [CoordNext]_coordVars => SessionInv'
<1>1. ASSUME CoordInit PROVE SessionInv
  BY <1>1, ClosedIs DEF CoordInit, SessionInv, ConnOK, Open
<1>2. ASSUME SessionInv, [CoordNext]_coordVars PROVE SessionInv'
  <2>0. ConnOK
    BY <1>2 DEF SessionInv
  <2>1. ASSUME NEW c \in Conns,
               Frame(c) \/ Export(c) \/ Write(c) \/ Disconnect(c) \/ Fencing(c)
        PROVE  SessionInv'
    BY <1>2, <2>1, SessionMove
  <2>2. ASSUME NEW c \in Conns, NEW b, Connect(c, b)
        PROVE  SessionInv'
    <3>1. /\ Becomes(c, Connected(b)) /\ workers' = Put(workers, b, c)
          /\ \A o \in Conns : conn[o].pc # "closed" => conn[o].boot # b
      BY <2>2, ConnectIs DEF Open
    <3>2. /\ IsConn(Connected(b)) /\ Connected(b).boot = b /\ Connected(b).pc = "serving"
          /\ ~Connected(b).dead
      BY ConnectedIs
    <3>3. /\ ConnOK' /\ conn'[c] = Connected(b) /\ \A x \in Conns \ {c} : conn'[x] = conn[x]
      BY <2>0, <3>1, <3>2, OneMoves
    <3>4. b \in DOMAIN workers' /\ workers'[b] = c
          /\ \A k \in DOMAIN workers : k # b => k \in DOMAIN workers' /\ workers'[k] = workers[k]
      BY <3>1 DEF Put
    <3>5. ASSUME NEW x \in Conns, conn'[x].pc # "closed"
          PROVE  conn'[x].boot \in DOMAIN workers' /\ workers'[conn'[x].boot] = x
      <4>1. CASE x = c
        BY <3>2, <3>3, <3>4, <4>1
      <4>2. CASE x # c
        <5>1. conn'[x] = conn[x] /\ conn[x].pc # "closed" /\ conn[x].boot # b
          BY <3>1, <3>3, <3>5, <4>2
        <5>2. conn[x].boot \in DOMAIN workers /\ workers[conn[x].boot] = x
          BY <1>2, <5>1 DEF SessionInv, Open
        <5> QED
          BY <3>4, <5>1, <5>2
      <4> QED
        BY <4>1, <4>2
    <3>6. \A x \in Conns : conn'[x].dead => conn'[x].pc \in {"fencing", "erase"}
      BY <1>2, <3>2, <3>3 DEF SessionInv
    <3> QED
      BY <3>3, <3>5, <3>6 DEF SessionInv, Open
  <2>3. ASSUME NEW c \in Conns, Erase(c)
        PROVE  SessionInv'
    <3>1. /\ Becomes(c, Closed) /\ conn[c].pc = "erase"
          /\ workers' = [b \in DOMAIN workers \ {conn[c].boot} |-> workers[b]]
      BY <2>3, EraseIs
    <3>2. ConnOK' /\ conn'[c] = Closed /\ \A x \in Conns \ {c} : conn'[x] = conn[x]
      BY <2>0, <3>1, OneMoves, ClosedIs
    <3>3. ASSUME NEW x \in Conns, conn'[x].pc # "closed"
          PROVE  conn'[x].boot \in DOMAIN workers' /\ workers'[conn'[x].boot] = x
      <4>1. x # c /\ conn'[x] = conn[x]
        BY <3>2, <3>3, ClosedIs
      <4>2. workers[conn[c].boot] = c /\ conn[x].boot \in DOMAIN workers
            /\ workers[conn[x].boot] = x
        BY <1>2, <3>1, <3>3, <4>1 DEF SessionInv, Open
      <4> QED
        BY <3>1, <4>1, <4>2
    <3>4. \A x \in Conns : conn'[x].dead => conn'[x].pc \in {"fencing", "erase"}
      BY <1>2, <3>2, ClosedIs DEF SessionInv
    <3> QED
      BY <3>2, <3>3, <3>4 DEF SessionInv, Open
  <2>4. ASSUME NEW e, Crash(e) \/ Stop(e)
        PROVE  SessionInv'
    <3>1. conn' = [c \in Conns |-> Closed]
      BY <2>4 DEF Crash, Stop, Start
    <3> QED
      BY <3>1, NewProcess, ClosedIs DEF SessionInv, Open
  <2>5. CASE UNCHANGED coordVars
    BY <1>2, <2>5 DEF SessionInv, ConnOK, Open, coordVars, threads
  <2> QED
    BY <1>2, <2>1, <2>2, <2>3, <2>4, <2>5 DEF CoordNext
<1> QED
  BY <1>1, <1>2

----------------------------------------------------------------------------
(* Evidence and the worker it came from *)

HasEvidence(ds) == \A d \in DOMAIN ds : {"state", "evidence_current"} \subseteq DOMAIN ds[d]

SavedInv ==
  /\ HasEvidence(devices) /\ HasEvidence(file.devices)
  /\ \A c \in Conns : HasEvidence(conn[c].snap.devices)

\* A device that mark_device_revalidation() accepts.
Fenceable(state) == valid_device_transition(state, "REVALIDATION_REQUIRED")

\* The thread that registered device d still has it to fence when its worker dies.
Watched(d, cn, ds, pb) ==
  /\ Fenceable(ds[d].state)
  /\ d \in DOMAIN pb /\ pb[d] \in Conns
  /\ LET x == cn[pb[d]]
     IN  /\ x.pc \notin {"closed", "erase"} /\ d \in x.devices
         /\ x.pc = "fencing" => d \in x.todo

WatchedInv ==
  \A d \in DOMAIN devices : devices[d].evidence_current => Watched(d, conn, devices, publisher)

\* What persist_now() writes of a device has the fields of the device.
LEMMA SavedHas ==
  /\ HasEvidence(devices) => HasEvidence(Saved(export_persisted).devices)
  /\ HasEvidence(NoState.devices)
<1>1. Saved(export_persisted).devices = [d \in DOMAIN devices |-> SavedDevice(devices[d])]
  BY DEF Saved, export_persisted
<1>2. \A d \in DOMAIN devices : DOMAIN SavedDevice(devices[d]) = DOMAIN devices[d]
  BY DEF SavedDevice
<1>3. HasEvidence(NoState.devices)
  BY DEF HasEvidence, NoState, EmptyMap
<1> QED
  BY <1>1, <1>2, <1>3 DEF HasEvidence

\* import_persisted(): no evidence read from the file is current.
LEMMA ImportedHas ==
  ASSUME NEW st, HasEvidence(st.devices), NEW e, StartFabric(e, st)
  PROVE  HasEvidence(devices') /\ \A d \in DOMAIN devices' : devices'[d].evidence_current = FALSE
<1>1. devices' = [d \in DOMAIN st.devices |-> ImportedDevice(st.devices[d])]
  BY DEF StartFabric, import_persisted
<1>2. ASSUME NEW dev, {"state", "evidence_current"} \subseteq DOMAIN dev
      PROVE  /\ DOMAIN ImportedDevice(dev) = DOMAIN dev
             /\ ImportedDevice(dev).evidence_current = FALSE
  BY <1>2 DEF ImportedDevice
<1> QED
  BY <1>1, <1>2 DEF HasEvidence

\* mark_device_revalidation(): the evidence of the device is current no longer, and no
\* other device is touched.
LEMMA MarkedHas ==
  ASSUME HasEvidence(devices), NEW d, NEW e, mark_device_revalidation(d, e)
  PROVE  /\ DOMAIN devices' = DOMAIN devices /\ d \in DOMAIN devices
         /\ HasEvidence(devices') /\ devices'[d].evidence_current = FALSE
         /\ \A k \in DOMAIN devices \ {d} : devices'[k] = devices[k]
<1> DEFINE y == [devices[d] EXCEPT !.state = "REVALIDATION_REQUIRED", !.evidence_current = FALSE]
<1>1. d \in DOMAIN devices /\ devices' = [devices EXCEPT ![d] = y]
  BY DEF mark_device_revalidation, MarkDevice
<1>2. {"state", "evidence_current"} \subseteq DOMAIN devices[d]
  BY <1>1 DEF HasEvidence
<1>3. DOMAIN y = DOMAIN devices[d] /\ y.evidence_current = FALSE
  BY <1>2
<1> HIDE DEF y
<1> QED
  BY <1>1, <1>2, <1>3 DEF HasEvidence

\* The state in memory, in the snapshots and in the file keeps its fields.
LEMMA SavedStep ==
  /\ CoordInit => SavedInv
  /\ ConnOK /\ SavedInv /\ [CoordNext]_coordVars => SavedInv'
<1>1. ASSUME CoordInit PROVE SavedInv
  <2>1. HasEvidence(devices)
    BY <1>1 DEF CoordInit, Init, HasEvidence, EmptyMap
  <2>2. file = NoState /\ \A c \in Conns : conn[c].snap = NoState
    BY <1>1, ClosedIs DEF CoordInit
  <2> QED
    BY <2>1, <2>2, SavedHas DEF SavedInv
<1>2. ASSUME ConnOK, SavedInv, [CoordNext]_coordVars PROVE SavedInv'
  <2>0. /\ HasEvidence(devices) /\ HasEvidence(file.devices)
        /\ \A x \in Conns : HasEvidence(conn[x].snap.devices)
        /\ HasEvidence(Saved(export_persisted).devices) /\ HasEvidence(NoState.devices)
    BY <1>2, SavedHas DEF SavedInv
  <2>1. ASSUME NEW c \in Conns, NEW y, IsConn(y), HasEvidence(y.snap.devices), Becomes(c, y),
               HasEvidence(devices'), HasEvidence(file'.devices)
        PROVE  SavedInv'
    <3>1. conn'[c] = y /\ \A x \in Conns \ {c} : conn'[x] = conn[x]
      BY <1>2, <2>1, OneMoves
    <3> QED
      BY <2>0, <2>1, <3>1 DEF SavedInv
  <2>2. {"persist", "erase", "write", "serving"} \subseteq Places
    BY DEF Places
  <2>3. ASSUME NEW c \in Conns, Frame(c) PROVE SavedInv'
    <3>1. IsConn(conn[c]) /\ file' = file
      BY <1>2, <2>3, FrameIs DEF ConnOK
    <3>2. CASE UNCHANGED <<conn, devices>>
      BY <2>0, <3>1, <3>2 DEF SavedInv
    <3>3. CASE UNCHANGED devices /\ Becomes(c, AtPc(conn[c], "persist"))
      <4>1. LET y == AtPc(conn[c], "persist") IN IsConn(y) /\ y.snap = conn[c].snap
        BY <2>2, <3>1, MovesIs
      <4> QED
        BY <2>0, <2>1, <3>1, <3>3, <4>1
    <3>4. ASSUME NEW dev \in DeviceInputs, Registers(c, dev) PROVE SavedInv'
      <4>1. {"state", "evidence_current"} \subseteq DOMAIN dev
        BY InputAssumption DEF CxlDevice
      <4>2. HasEvidence(devices')
        BY <2>0, <3>4, <4>1 DEF Registers, Put, HasEvidence
      <4> DEFINE y == Published(conn[c], conn[c].devices \cup {dev.id})
      <4>3. IsConn(y) /\ y.snap = conn[c].snap
        BY <3>1, PublishedIs
      <4>4. Becomes(c, y)
        BY <3>4 DEF Registers
      <4> HIDE DEF y
      <4> QED
        BY <2>0, <2>1, <3>1, <4>2, <4>3, <4>4
    <3> QED
      BY <2>3, <3>2, <3>3, <3>4, FrameIs DEF Passes
  <2>4. ASSUME NEW c \in Conns, Disconnect(c) PROVE SavedInv'
    <3>1. IsConn(conn[c]) /\ file' = file /\ devices' = devices
      BY <1>2, <2>4, DisconnectIs DEF ConnOK
    <3>2. CASE Becomes(c, AtPc(conn[c], "erase"))
      <4>1. LET y == AtPc(conn[c], "erase") IN IsConn(y) /\ y.snap = conn[c].snap
        BY <2>2, <3>1, MovesIs
      <4> QED
        BY <2>0, <2>1, <3>1, <3>2, <4>1
    <3>3. CASE ~Becomes(c, AtPc(conn[c], "erase"))
      <4>1. \A x \in Conns : conn'[x].snap = conn[x].snap
        <5>1. StartsFencing(c)
          BY <1>2, <2>4, <3>3, DisconnectIs
        <5> QED
          BY <5>1 DEF StartsFencing
      <4> QED
        BY <2>0, <3>1, <4>1 DEF SavedInv
    <3> QED
      BY <3>2, <3>3
  <2>5. ASSUME NEW c \in Conns, Export(c) \/ Write(c) \/ Fencing(c) PROVE SavedInv'
    <3>1. IsConn(conn[c])
      BY <1>2 DEF ConnOK
    <3>2. CASE /\ UNCHANGED <<devices, file>>
               /\ Becomes(c, Snapped(conn[c], "write", Saved(export_persisted)))
      <4>1. LET y == Snapped(conn[c], "write", Saved(export_persisted))
            IN  IsConn(y) /\ y.snap = Saved(export_persisted)
        BY <3>1, ExportedIs
      <4> QED
        BY <2>0, <2>1, <3>2, <4>1
    <3>3. CASE /\ UNCHANGED devices /\ file' = conn[c].snap
               /\ Becomes(c, Snapped(conn[c], "serving", NoState))
      <4>1. LET y == Snapped(conn[c], "serving", NoState) IN IsConn(y) /\ y.snap = NoState
        BY <3>1, WrittenIs
      <4> QED
        BY <2>0, <2>1, <3>3, <4>1
    <3>4. CASE UNCHANGED <<devices, file>> /\ Becomes(c, AtPc(conn[c], "erase"))
      <4>1. LET y == AtPc(conn[c], "erase") IN IsConn(y) /\ y.snap = conn[c].snap
        BY <2>2, <3>1, MovesIs
      <4> QED
        BY <2>0, <2>1, <3>4, <4>1
    <3>5. ASSUME NEW d, UNCHANGED file, mark_device_revalidation(d, epoch) \/ UNCHANGED devices,
                 Becomes(c, AtTodo(conn[c], conn[c].todo \ {d}))
          PROVE  SavedInv'
      <4> DEFINE y == AtTodo(conn[c], conn[c].todo \ {d})
      <4>1. IsConn(y) /\ y.snap = conn[c].snap
        BY <3>1, StruckIs
      <4>2. HasEvidence(devices')
        <5>1. CASE mark_device_revalidation(d, epoch)
          BY <2>0, <5>1, MarkedHas
        <5>2. CASE UNCHANGED devices
          BY <2>0, <5>2
        <5> QED
          BY <3>5, <5>1, <5>2
      <4>3. Becomes(c, y)
        BY <3>5
      <4> HIDE DEF y
      <4> QED
        BY <2>0, <2>1, <3>5, <4>1, <4>2, <4>3
    <3> QED
      BY <2>5, <3>2, <3>3, <3>4, <3>5, ThreadIs
  <2>6. ASSUME NEW c \in Conns, NEW b, Connect(c, b) PROVE SavedInv'
    BY <2>0, <2>1, <2>6, ConnectIs, ConnectedIs
  <2>7. ASSUME NEW c \in Conns, Erase(c) PROVE SavedInv'
    BY <2>0, <2>1, <2>7, EraseIs, ClosedIs
  <2>8. ASSUME NEW e, Crash(e) \/ Stop(e) PROVE SavedInv'
    <3>1. PICK st : Start(e, st) /\ HasEvidence(st.devices)
      BY <2>0, <2>8 DEF Crash, Stop
    <3>2. StartFabric(e, st) /\ file' = st /\ conn' = [c \in Conns |-> Closed]
      BY <3>1 DEF Start
    <3>3. HasEvidence(devices')
      BY <3>1, <3>2, ImportedHas
    <3>4. \A c \in Conns : conn'[c].snap = NoState
      BY <3>2, ClosedIs
    <3> QED
      BY <2>0, <3>1, <3>2, <3>3, <3>4 DEF SavedInv
  <2>9. CASE UNCHANGED coordVars
    BY <1>2, <2>9 DEF SavedInv, coordVars, vars, threads, outside
  <2> QED
    BY <1>2, <2>3, <2>4, <2>5, <2>6, <2>7, <2>8, <2>9 DEF CoordNext
<1> QED
  BY <1>1, <1>2

\* Record y of a thread still has to fence device d if x had.
Keeps(d, x, y) ==
  x.pc \notin {"closed", "erase"} /\ d \in x.devices /\ (x.pc = "fencing" => d \in x.todo)
  => y.pc \notin {"closed", "erase"} /\ d \in y.devices /\ (y.pc = "fencing" => d \in y.todo)

\* A device that no step touches stays watched if its thread keeps it.
LEMMA StaysWatched ==
  ASSUME ConnOK, NEW c \in Conns, NEW y, IsConn(y), Becomes(c, y), NEW d,
         Watched(d, conn, devices, publisher), Keeps(d, conn[c], y),
         devices'[d] = devices[d], d \in DOMAIN publisher', publisher'[d] = publisher[d]
  PROVE  Watched(d, conn', devices', publisher')
<1>1. conn'[c] = y /\ \A x \in Conns \ {c} : conn'[x] = conn[x]
  BY OneMoves
<1>2. CASE publisher[d] = c
  BY <1>1, <1>2 DEF Watched, Keeps
<1>3. CASE publisher[d] # c
  BY <1>1, <1>3 DEF Watched
<1> QED
  BY <1>2, <1>3

\* A frame: the device it registers is watched by its thread, the others as before.
LEMMA WatchedFrame ==
  ASSUME ConnOK, WatchedInv, NEW c \in Conns, Frame(c),
         \A dev \in DeviceInputs : dev.evidence_current => Fenceable(dev.state)
  PROVE  WatchedInv'
<1>0. IsConn(conn[c]) /\ conn[c].pc = "serving" /\ "persist" \in Places
  BY FrameIs DEF ConnOK, Places
<1>1. CASE UNCHANGED <<conn, devices, publisher>>
  BY <1>1 DEF WatchedInv
<1>2. CASE UNCHANGED <<devices, publisher>> /\ Becomes(c, AtPc(conn[c], "persist"))
  <2> DEFINE y == AtPc(conn[c], "persist")
  <2>1. IsConn(y) /\ y.pc = "persist" /\ y.devices = conn[c].devices
    BY <1>0, MovesIs
  <2>2. Becomes(c, y)
    BY <1>2
  <2> HIDE DEF y
  <2>3. \A d : Keeps(d, conn[c], y)
    BY <2>1 DEF Keeps
  <2>4. ASSUME NEW d \in DOMAIN devices, devices[d].evidence_current
        PROVE  Watched(d, conn', devices', publisher')
    <3>1. Watched(d, conn, devices, publisher)
      BY <2>4 DEF WatchedInv
    <3>2. d \in DOMAIN publisher' /\ devices'[d] = devices[d] /\ publisher'[d] = publisher[d]
      BY <1>2, <3>1 DEF Watched
    <3> QED
      BY <2>1, <2>2, <2>3, <3>1, <3>2, StaysWatched
  <2> QED
    BY <1>2, <2>4 DEF WatchedInv
<1>3. ASSUME NEW dev \in DeviceInputs, Registers(c, dev) PROVE WatchedInv'
  <2> DEFINE y == Published(conn[c], conn[c].devices \cup {dev.id})
  <2>1. IsConn(y) /\ y.pc = "persist" /\ y.devices = conn[c].devices \cup {dev.id}
    BY <1>0, PublishedIs
  <2>2. Becomes(c, y) /\ devices' = Put(devices, dev.id, dev)
        /\ publisher' = Put(publisher, dev.id, c)
    BY <1>3 DEF Registers
  <2> HIDE DEF y
  <2>3. \A d : Keeps(d, conn[c], y)
    BY <2>1 DEF Keeps
  <2>4. ASSUME NEW d \in DOMAIN devices', devices'[d].evidence_current
        PROVE  Watched(d, conn', devices', publisher')
    <3>1. CASE d = dev.id
      <4>1. devices'[d] = dev /\ d \in DOMAIN publisher' /\ publisher'[d] = c
        BY <2>2, <3>1 DEF Put
      <4>2. conn'[c] = y
        BY <2>1, <2>2, OneMoves
      <4> QED
        BY <2>1, <2>4, <3>1, <4>1, <4>2 DEF Watched
    <3>2. CASE d # dev.id
      <4>1. d \in DOMAIN devices /\ devices'[d] = devices[d]
        BY <2>2, <3>2 DEF Put
      <4>2. Watched(d, conn, devices, publisher)
        BY <2>4, <4>1 DEF WatchedInv
      <4>3. d \in DOMAIN publisher' /\ publisher'[d] = publisher[d]
        BY <2>2, <3>2, <4>2 DEF Put, Watched
      <4> QED
        BY <2>1, <2>2, <2>3, <4>1, <4>2, <4>3, StaysWatched
    <3> QED
      BY <3>1, <3>2
  <2> QED
    BY <2>4 DEF WatchedInv
<1> QED
  BY <1>1, <1>2, <1>3, FrameIs DEF Passes

\* A failed receive: what the worker published is what its thread has to fence.
LEMMA WatchedDisconnect ==
  ASSUME SessionInv, WatchedInv, NEW c \in Conns, Disconnect(c)
  PROVE  WatchedInv'
<1>0. ConnOK
  BY DEF SessionInv
<1>1. /\ conn[c].pc = "serving" /\ UNCHANGED <<devices, publisher>>
      /\ conn[c].boot \in DOMAIN workers /\ workers[conn[c].boot] = c /\ ~conn[c].dead
  BY <1>0, DisconnectIs DEF SessionInv, Open
<1>2. /\ \A x \in Conns : conn'[x].devices = conn[x].devices
      /\ \A x \in Conns \ {c} : conn'[x].pc = conn[x].pc /\ conn'[x].todo = conn[x].todo
      /\ conn'[c].pc = "fencing" /\ conn'[c].todo = conn[c].devices
  <2>1. StartsFencing(c)
    BY <1>0, <1>1, DisconnectIs
  <2> QED
    BY <1>1, <2>1 DEF StartsFencing
<1>3. ASSUME NEW d \in DOMAIN devices, devices[d].evidence_current
      PROVE  Watched(d, conn', devices', publisher')
  <2>1. Watched(d, conn, devices, publisher)
    BY <1>3 DEF WatchedInv
  <2> QED
    BY <1>1, <1>2, <2>1 DEF Watched
<1> QED
  BY <1>1, <1>3 DEF WatchedInv

\* A step of a thread that leaves the devices alone and gives up none of its own.
LEMMA WatchedMove ==
  ASSUME ConnOK, WatchedInv, NEW c \in Conns, NEW y, IsConn(y), Becomes(c, y),
         UNCHANGED <<devices, publisher>>, \A d : Keeps(d, conn[c], y)
  PROVE  WatchedInv'
<1>1. ASSUME NEW d \in DOMAIN devices, devices[d].evidence_current
      PROVE  Watched(d, conn', devices', publisher')
  <2>1. Watched(d, conn, devices, publisher)
    BY <1>1 DEF WatchedInv
  <2>2. d \in DOMAIN publisher' /\ devices'[d] = devices[d] /\ publisher'[d] = publisher[d]
    BY <2>1 DEF Watched
  <2> QED
    BY <2>1, <2>2, StaysWatched
<1> QED
  BY <1>1 DEF WatchedInv

\* Saving and fencing: a device is dropped from the list only once it is marked, or was
\* not current.
LEMMA WatchedThread ==
  ASSUME ConnOK, SavedInv, WatchedInv, NEW c \in Conns, Export(c) \/ Write(c) \/ Fencing(c)
  PROVE  WatchedInv'
<1>0. /\ IsConn(conn[c]) /\ UNCHANGED publisher
      /\ "persist" \in Places /\ "erase" \in Places
      /\ "write" \in Places /\ "serving" \in Places
  BY ThreadIs DEF ConnOK, Places
<1>1. CASE /\ conn[c].pc = "persist" /\ UNCHANGED devices
           /\ Becomes(c, Snapped(conn[c], "write", Saved(export_persisted)))
  <2> DEFINE y == Snapped(conn[c], "write", Saved(export_persisted))
  <2>0. Becomes(c, y)
    BY <1>1
  <2>1. IsConn(y) /\ y.pc = "write" /\ y.devices = conn[c].devices
    BY <1>0, ExportedIs
  <2> HIDE DEF y
  <2>2. \A d : Keeps(d, conn[c], y)
    BY <2>1 DEF Keeps
  <2> QED
    BY <1>0, <1>1, <2>0, <2>1, <2>2, WatchedMove
<1>2. CASE /\ conn[c].pc = "write" /\ UNCHANGED devices
           /\ Becomes(c, Snapped(conn[c], "serving", NoState))
  <2> DEFINE y == Snapped(conn[c], "serving", NoState)
  <2>0. Becomes(c, y)
    BY <1>2
  <2>1. IsConn(y) /\ y.pc = "serving" /\ y.devices = conn[c].devices
    BY <1>0, WrittenIs
  <2> HIDE DEF y
  <2>2. \A d : Keeps(d, conn[c], y)
    BY <2>1 DEF Keeps
  <2> QED
    BY <1>0, <1>2, <2>0, <2>1, <2>2, WatchedMove
<1>3. CASE /\ conn[c].pc = "fencing" /\ conn[c].todo = {} /\ UNCHANGED devices
           /\ Becomes(c, AtPc(conn[c], "erase"))
  <2> DEFINE y == AtPc(conn[c], "erase")
  <2>1. IsConn(y) /\ Becomes(c, y)
    BY <1>0, <1>3, MovesIs
  <2> HIDE DEF y
  <2>2. \A d : Keeps(d, conn[c], y)
    BY <1>3 DEF Keeps
  <2> QED
    BY <1>0, <1>3, <2>1, <2>2, WatchedMove
<1>4. ASSUME NEW f \in conn[c].todo, conn[c].pc = "fencing",
             IF valid_device_transition(devices[f].state, "REVALIDATION_REQUIRED")
             THEN mark_device_revalidation(f, epoch) ELSE UNCHANGED devices,
             Becomes(c, AtTodo(conn[c], conn[c].todo \ {f}))
      PROVE  WatchedInv'
  <2> DEFINE y == AtTodo(conn[c], conn[c].todo \ {f})
  <2>1. /\ IsConn(y) /\ y.pc = "fencing" /\ y.devices = conn[c].devices
        /\ y.todo = conn[c].todo \ {f} /\ Becomes(c, y)
    <3>1. Becomes(c, y)
      BY <1>4
    <3>2. LET z == AtTodo(conn[c], conn[c].todo \ {f})
          IN  /\ IsConn(z) /\ z.pc = conn[c].pc /\ z.devices = conn[c].devices
              /\ z.todo = conn[c].todo \ {f}
      BY <1>0, StruckIs
    <3> QED
      BY <1>4, <3>1, <3>2
  <2> HIDE DEF y
  <2>2. \A d : d # f => Keeps(d, conn[c], y)
    BY <1>4, <2>1 DEF Keeps
  <2>3. /\ DOMAIN devices' = DOMAIN devices
        /\ \A k \in DOMAIN devices \ {f} : devices'[k] = devices[k]
        /\ f \in DOMAIN devices => ~devices'[f].evidence_current
    <3>1. CASE Fenceable(devices[f].state)
      <4>1. HasEvidence(devices) /\ mark_device_revalidation(f, epoch)
        BY <1>4, <3>1 DEF Fenceable, SavedInv
      <4> QED
        BY <4>1, MarkedHas
    <3>2. CASE ~Fenceable(devices[f].state)
      <4>1. UNCHANGED devices
        BY <1>4, <3>2 DEF Fenceable
      <4>2. f \in DOMAIN devices => ~devices[f].evidence_current
        BY <3>2 DEF WatchedInv, Watched
      <4> QED
        BY <4>1, <4>2
    <3> QED
      BY <3>1, <3>2
  <2>4. ASSUME NEW d \in DOMAIN devices', devices'[d].evidence_current
        PROVE  Watched(d, conn', devices', publisher')
    <3>1. d \in DOMAIN devices /\ d # f /\ devices'[d] = devices[d]
      BY <2>3, <2>4
    <3>2. Watched(d, conn, devices, publisher)
      BY <2>4, <3>1 DEF WatchedInv
    <3>3. d \in DOMAIN publisher' /\ publisher'[d] = publisher[d]
      BY <1>0, <3>2 DEF Watched
    <3> QED
      BY <2>1, <2>2, <3>1, <3>2, <3>3, StaysWatched
  <2> QED
    BY <2>4 DEF WatchedInv
<1> QED
  BY <1>1, <1>2, <1>3, <1>4, ThreadIs

\* Every step keeps every device whose evidence is current watched.
LEMMA WatchedStep ==
  ASSUME SharedBoots = FALSE,
         \A dev \in DeviceInputs : dev.evidence_current => Fenceable(dev.state)
  PROVE  /\ CoordInit => WatchedInv
         /\ SessionInv /\ SavedInv /\ WatchedInv /\ [CoordNext]_coordVars => WatchedInv'
<1>1. ASSUME CoordInit PROVE WatchedInv
  BY <1>1 DEF CoordInit, Init, WatchedInv, EmptyMap
<1>2. ASSUME SessionInv, SavedInv, WatchedInv, [CoordNext]_coordVars PROVE WatchedInv'
  <2>0. ConnOK
    BY <1>2 DEF SessionInv
  <2>1. ASSUME NEW c \in Conns, Frame(c) PROVE WatchedInv'
    BY <1>2, <2>0, <2>1, WatchedFrame
  <2>2. ASSUME NEW c \in Conns, Disconnect(c) PROVE WatchedInv'
    BY <1>2, <2>2, WatchedDisconnect
  <2>3. ASSUME NEW c \in Conns, Export(c) \/ Write(c) \/ Fencing(c) PROVE WatchedInv'
    BY <1>2, <2>0, <2>3, WatchedThread
  <2>4. ASSUME NEW c \in Conns, NEW b, Connect(c, b) PROVE WatchedInv'
    <3>1. /\ conn[c].pc = "closed" /\ Becomes(c, Connected(b)) /\ UNCHANGED <<devices, publisher>>
      BY <2>4, ConnectIs DEF Open
    <3>2. \A d : Keeps(d, conn[c], Connected(b))
      BY <3>1 DEF Keeps
    <3> QED
      BY <1>2, <2>0, <3>1, <3>2, ConnectedIs, WatchedMove
  <2>5. ASSUME NEW c \in Conns, Erase(c) PROVE WatchedInv'
    <3>1. conn[c].pc = "erase" /\ Becomes(c, Closed) /\ UNCHANGED <<devices, publisher>>
      BY <2>5, EraseIs
    <3>2. \A d : Keeps(d, conn[c], Closed)
      BY <3>1 DEF Keeps
    <3> QED
      BY <1>2, <2>0, <3>1, <3>2, ClosedIs, WatchedMove
  <2>6. ASSUME NEW e, Crash(e) \/ Stop(e) PROVE WatchedInv'
    <3>0. HasEvidence(Saved(export_persisted).devices) /\ HasEvidence(file.devices)
      BY <1>2, SavedHas DEF SavedInv
    <3>1. PICK st : StartFabric(e, st) /\ HasEvidence(st.devices)
      BY <2>6, <3>0 DEF Crash, Stop, Start
    <3>2. \A d \in DOMAIN devices' : devices'[d].evidence_current = FALSE
      BY <3>1, ImportedHas
    <3> QED
      BY <3>2 DEF WatchedInv
  <2>7. CASE UNCHANGED coordVars
    <3>1. UNCHANGED <<conn, devices, publisher>>
      BY <2>7 DEF coordVars, vars, threads
    <3> QED
      BY <1>2, <3>1 DEF WatchedInv
  <2> QED
    BY <1>2, <2>1, <2>2, <2>3, <2>4, <2>5, <2>6, <2>7 DEF CoordNext
<1> QED
  BY <1>1, <1>2

\* However publications, deaths, fencing and restarts interleave, a device is admissible
\* only while the worker that published it is connected or is about to be fenced
\* (coordinator_main.cpp, appl_worker_death(); fabric.cpp, import_persisted()): when
\* workers do not share an identity and publish current evidence only for devices in a
\* state that mark_device_revalidation() accepts.
THEOREM EvidenceIsWatched ==
  ASSUME SharedBoots = FALSE,
         \A dev \in DeviceInputs : dev.evidence_current => Fenceable(dev.state)
  PROVE  CoordSpec => []EvidenceHasLiveWorker
<1> DEFINE Inv == SessionInv /\ SavedInv /\ WatchedInv
<1>1. CoordInit => Inv
  BY SessionStep, SavedStep, WatchedStep
<1>2. Inv /\ [CoordNext]_coordVars => Inv'
  <2>1. SessionInv => ConnOK
    BY DEF SessionInv
  <2> QED
    BY <2>1, SessionStep, SavedStep, WatchedStep
<1>3. Inv => EvidenceHasLiveWorker
  BY DEF WatchedInv, Watched, EvidenceHasLiveWorker, Open
<1> QED
  BY <1>1, <1>2, <1>3, PTL DEF CoordSpec

==============================================================================
