------------------------------- MODULE Cluster -------------------------------
(***************************************************************************)
(* Worker processes (src/multiprocess/worker_main.cpp) and the coordinator *)
(* they talk to, over connections as FrameChannel describes them: frames   *)
(* arrive whole and in order until an end goes, and one may be refused.    *)
(* Each side goes at its own pace; workers and the coordinator are killed  *)
(* and started at any time.                                                *)
(*                                                                         *)
(* Worker process w talks to thread w of the coordinator.  It is started   *)
(* with a boot identity that no earlier one had, as the tests do.          *)
(***************************************************************************)
EXTENDS Coordinator, Codec

CONSTANTS
  Jobs,          \* Jobs[w]: command lines worker w may be started with:
                 \* [publish, reserve, bytes, commit, release, query, stay]
  Faulty,        \* connections on which a frame may be refused (see Framing)
  DeviceBytes    \* capacity of the device a worker publishes

\* Workers are numbered in the order they are started, and so are their boot identities.
ASSUME ClusterAssumption ==
  /\ Faulty \subseteq Conns /\ Conns \subseteq BootId \ {0} /\ Conns \subseteq Nat
  /\ DeviceBytes \in ByteCount

VARIABLES
  proc,          \* worker processes
  link,          \* the coordinator's end of a connection
  up, down       \* frames on their way to the coordinator and back

net == <<link, up, down>>
clusterVars == <<coordVars, proc, net>>

\* A worker that is not started, and one that is over.  A worker holds its requests still
\* to be made, whether it waits for the answer to the first of them, and what it was told
\* of its reservations.
New == [pc |-> "new", script |-> <<>>, awaiting |-> FALSE, stay |-> FALSE, granted |-> {},
        committed |-> {}]
Off == [New EXCEPT !.pc = "off"]

Running(w) == proc[w].pc = "running"

ClusterInit ==
  /\ CoordInit
  /\ proc = [w \in Conns |-> New]
  /\ link = [w \in Conns |-> "closed"]
  /\ up = [w \in Conns |-> <<>>] /\ down = [w \in Conns |-> <<>>]

----------------------------------------------------------------------------
(* The worker: main() of worker_main.cpp *)

\* A frame sent by a worker; n is its boot identity, the bytes or the reservation.
Ask(type, n) == [type |-> type, n |-> n]
Only(cond, s) == IF cond THEN s ELSE <<>>

\* The frames a command line makes the worker send, in the order of main(); reserve stands
\* for --reserve-bytes and --reserve-commit.
Script(job, boot) ==
  <<Ask("WORKER_BOOT", boot)>>
  \o Only(job.publish \/ job.reserve,
          <<Ask("PUBLISH_DEVICE", 0), Ask("PUBLISH_POOL", 0), Ask("PUBLISH_REGION", 0)>>)
  \o Only(job.reserve, <<Ask("RESERVE", job.bytes)>>)
  \o Only(job.commit # 0, <<Ask("COMMIT", job.commit)>>)
  \o Only(job.release # 0, <<Ask("RELEASE", job.release)>>)
  \o Only(job.query, <<Ask("QUERY_STATE", 0)>>)

\* The type of the answer a request is given.
AnswerType(type) ==
  CASE type \in {"PUBLISH_DEVICE", "PUBLISH_POOL", "PUBLISH_REGION"} -> "ACK"
    [] type = "RESERVE" -> "RESERVE_RESULT"
    [] type \in {"COMMIT", "RELEASE"} -> "COMMIT_RESULT"
    [] type = "QUERY_STATE" -> "QUERY_STATE_RESULT"

\* The process starts and its connection is queued at the listening socket.
Launch(w, job) ==
  /\ proc[w].pc = "new" /\ \A v \in Conns : v < w => proc[v].pc # "new"
  /\ proc' = [proc EXCEPT ![w] = [New EXCEPT !.pc = "running", !.script = Script(job, w),
                                             !.stay = job.stay]]
  /\ link' = [link EXCEPT ![w] = "queued"]
  /\ UNCHANGED <<coordVars, up, down>>

\* send_frame(); a frame sent to an end that is gone is lost.  WORKER_BOOT has no answer.
Send(w) ==
  /\ Running(w) /\ ~proc[w].awaiting /\ proc[w].script # <<>>
  /\ LET f == Head(proc[w].script) IN
     /\ up' = IF link[w] = "closed" THEN up ELSE [up EXCEPT ![w] = Append(@, f)]
     /\ proc' = [proc EXCEPT ![w] = IF f.type = "WORKER_BOOT"
                                    THEN [proc[w] EXCEPT !.script = Tail(proc[w].script)]
                                    ELSE [proc[w] EXCEPT !.awaiting = TRUE]]
  /\ UNCHANGED <<coordVars, link, down>>

\* The worker after its first request, with or without an answer.
Answered(w) == [proc[w] EXCEPT !.awaiting = FALSE, !.script = Tail(proc[w].script)]

\* The answer r to request f arrives: anything but an ACK for its device ends the worker.
Take(w, f, r) ==
  IF f.type = "PUBLISH_DEVICE" /\ r.type # "ACK" THEN Off
  ELSE IF f.type = "RESERVE" /\ r.type = "RESERVE_RESULT" /\ r.ok
  THEN [Answered(w) EXCEPT !.granted = proc[w].granted \cup {r.id}]
  ELSE IF f.type = "COMMIT" /\ r.type = "COMMIT_RESULT" /\ r.ok
  THEN [Answered(w) EXCEPT !.committed = proc[w].committed \cup {r.id}]
  ELSE Answered(w)

Receive(w) ==
  /\ Running(w) /\ proc[w].awaiting /\ down[w] # <<>>
  /\ proc' = [proc EXCEPT ![w] = Take(w, Head(proc[w].script), Head(down[w]))]
  /\ down' = [down EXCEPT ![w] = Tail(down[w])]
  /\ UNCHANGED <<coordVars, link, up>>

\* (Mutant: the worker keeps waiting.)
ReceiveFails_waits(w) ==
  /\ Running(w) /\ proc[w].awaiting
  /\ w \in Faulty /\ down[w] # <<>>
  /\ proc' = [proc EXCEPT ![w] = Answered(w)]
  /\ down' = [down EXCEPT ![w] = <<>>]
  /\ UNCHANGED <<coordVars, link, up>>

\* recv_frame() fails: the worker ends if it waits for its device or its reservation, and
\* goes on with the next request otherwise.
ReceiveFails(w) ==
  /\ Running(w) /\ proc[w].awaiting
  /\ IF down[w] = <<>> THEN link[w] = "closed" ELSE w \in Faulty
  /\ proc' = [proc EXCEPT ![w] =
                IF Head(proc[w].script).type \in {"PUBLISH_DEVICE", "RESERVE"} THEN Off
                ELSE Answered(w)]
  /\ down' = [down EXCEPT ![w] = Only(down[w] # <<>>, Tail(down[w]))]
  /\ UNCHANGED <<coordVars, link, up>>

\* The worker is done, or send_frame() of WORKER_BOOT fails.
Exit(w) ==
  /\ Running(w) /\ ~proc[w].awaiting
  /\ \/ proc[w].script = <<>> /\ ~proc[w].stay
     \/ link[w] = "closed" /\ proc[w].script # <<>> /\ Head(proc[w].script).type = "WORKER_BOOT"
  /\ proc' = [proc EXCEPT ![w] = Off]
  /\ UNCHANGED <<coordVars, net>>

\* The process is killed; what it has not read is lost.
Kill(w) ==
  /\ Running(w)
  /\ proc' = [proc EXCEPT ![w] = Off]
  /\ down' = [down EXCEPT ![w] = <<>>]
  /\ UNCHANGED <<coordVars, link, up>>

----------------------------------------------------------------------------
(* The coordinator's end *)

\* (Mutant: WORKER_BOOT is acknowledged.)
Accept_acknowledged(w) ==
  /\ link[w] = "queued" /\ up[w] # <<>>
  /\ \E b \in BootId : Head(up[w]) = Ask("WORKER_BOOT", b) /\ Connect(w, b)
  /\ link' = [link EXCEPT ![w] = "open"]
  /\ up' = [up EXCEPT ![w] = Tail(up[w])]
  /\ down' = [down EXCEPT ![w] = Append(down[w], [type |-> "ACK", id |-> 0, ok |-> TRUE])]
  /\ UNCHANGED <<proc>>

\* (Mutant: the table is written without workers_mu_.)
Accept_unlocked(w) ==
  /\ link[w] = "queued" /\ up[w] # <<>>
  /\ \E b \in BootId : /\ Head(up[w]) = Ask("WORKER_BOOT", b) /\ ~Open(w)
                       /\ conn' = [conn EXCEPT ![w] = [Closed EXCEPT !.pc = "serving", !.boot = b]]
                       /\ workers' = Put(workers, b, w)
  /\ link' = [link EXCEPT ![w] = "open"]
  /\ up' = [up EXCEPT ![w] = Tail(up[w])]
  /\ UNCHANGED <<vars, outside, publisher, proc, down>>

\* accept_loop() starts a thread, and handle() reads WORKER_BOOT.
Accept(w) ==
  /\ link[w] = "queued" /\ up[w] # <<>>
  /\ \E b \in BootId : Head(up[w]) = Ask("WORKER_BOOT", b) /\ Connect(w, b)
  /\ link' = [link EXCEPT ![w] = "open"]
  /\ up' = [up EXCEPT ![w] = Tail(up[w])]
  /\ UNCHANGED <<proc, down>>

\* handle() reads no WORKER_BOOT, because the worker is gone or the frame is refused.
AcceptFails(w) ==
  /\ link[w] = "queued"
  /\ IF up[w] = <<>> THEN ~Running(w) ELSE w \in Faulty
  /\ link' = [link EXCEPT ![w] = "closed"]
  /\ UNCHANGED <<coordVars, proc, up, down>>

\* The answer to the first frame is sent; it is lost if the worker is gone.
Reply(w, id, ok) ==
  /\ up' = [up EXCEPT ![w] = Tail(up[w])]
  /\ down' = IF Running(w)
             THEN [down EXCEPT ![w] = Append(down[w], [type |-> AnswerType(Head(up[w]).type),
                                                       id |-> id, ok |-> ok])]
             ELSE down

\* The device every worker publishes, as dev-1, and the pool and the region around it.
Base(boot) ==
  make_device(1, 1, boot, 1, DeviceBytes, "VOLATILE", "DEDICATED", 1, 180, 32000, 1)
BaseMember ==
  [device |-> 1, device_generation |-> 1, nominal |-> DeviceBytes, online |-> TRUE,
   health_ok |-> TRUE, failure_domain |-> 2]

\* The command lines, and what the frames of the workers are for the engine.
ASSUME JobAssumption ==
  /\ decode_pool(1, 1, {BaseMember}) \in PoolInputs
  /\ decode_region(1, 1, 1, <<1>>, DeviceBytes, "CXL_NEAR", "ONLINE") \in RegionInputs
  /\ \A w \in Conns :
       /\ decode_device(Base(w)) \in DeviceInputs
       /\ \A job \in Jobs[w] :
            /\ job \in [publish : BOOLEAN, reserve : BOOLEAN, bytes : Nat,
                       commit : 0..MaxReservations, release : 0..MaxReservations,
                       query : BOOLEAN, stay : BOOLEAN]
            /\ job.reserve => decode_reserve(job.bytes) \in Requests

\* dispatch(): the frames of which the worker is told nothing but that they were read.  (A
\* worker's pool and region follow its device, and are never refused: if they were, the
\* worker would be left without an answer here, against WorkersFinish.)
ServeDevice(w) == publish_device(w, decode_device(Base(conn[w].boot))) /\ Reply(w, 0, TRUE)
ServePool(w) == publish_pool(w, decode_pool(1, 1, {BaseMember})) /\ Reply(w, 0, TRUE)
ServeRegion(w) ==
  /\ publish_region(w, decode_region(1, 1, 1, <<1>>, DeviceBytes, "CXL_NEAR", "ONLINE"))
  /\ Reply(w, 0, TRUE)
ServeQuery(w) == UNCHANGED coordVars /\ Reply(w, 0, TRUE)

\* dispatch(): the frames about reservations.
ServeReserve(w, n) ==
  LET ok == sequence' # sequence
  IN  reserve_frame(w, decode_reserve(n)) /\ Reply(w, IF ok THEN sequence' ELSE 0, ok)
ServeCommit(w, id) ==
  commit_frame(w, id) /\ Reply(w, id, commit_reason(id, ContextOf(w)) = "OK")
ServeRelease(w, id) ==
  release_frame(w, id) /\ Reply(w, id, release_reason(id, ContextOf(w)) = "OK")

Serve(w) ==
  /\ conn[w].pc = "serving" /\ up[w] # <<>>
  /\ LET f == Head(up[w]) IN
     \/ f.type = "PUBLISH_DEVICE" /\ ServeDevice(w)
     \/ f.type = "PUBLISH_POOL" /\ ServePool(w)
     \/ f.type = "PUBLISH_REGION" /\ ServeRegion(w)
     \/ f.type = "RESERVE" /\ ServeReserve(w, f.n)
     \/ f.type = "COMMIT" /\ ServeCommit(w, f.n)
     \/ f.type = "RELEASE" /\ ServeRelease(w, f.n)
     \/ f.type = "QUERY_STATE" /\ ServeQuery(w)
  /\ UNCHANGED <<proc, link>>

\* maybe_persist(), and fencing after a death: nothing is sent or received.
Inside(w) ==
  /\ Export(w) \/ Write(w) \/ Fencing(w)
  /\ UNCHANGED <<proc, net>>

\* handle(): recv_frame() finds that the worker is gone, or refuses its frame.
Hangup(w) ==
  /\ IF up[w] = <<>> THEN ~Running(w) ELSE w \in Faulty
  /\ Disconnect(w)
  /\ UNCHANGED <<proc, net>>

\* handle(): the socket is closed and the table entry dropped.
Close(w) ==
  /\ Erase(w)
  /\ link' = [link EXCEPT ![w] = "closed"]
  /\ up' = [up EXCEPT ![w] = <<>>]
  /\ UNCHANGED <<proc, down>>

\* The coordinator is killed or stopped and started again; every connection ends with it.
\* The answers on their way are lost too where a frame was left unread.
Restart(e, lost) ==
  /\ Crash(e) \/ Stop(e)
  /\ link' = [w \in Conns |-> "closed"]
  /\ up' = [w \in Conns |-> <<>>]
  /\ down' = IF lost THEN [w \in Conns |-> <<>>] ELSE down
  /\ UNCHANGED <<proc>>

----------------------------------------------------------------------------
WorkerStep(w) == Send(w) \/ Receive(w) \/ ReceiveFails(w) \/ Exit(w)
ThreadStep(w) ==
  Accept(w) \/ AcceptFails(w) \/ Serve(w) \/ Inside(w) \/ Hangup(w) \/ Close(w)

ClusterNext ==
  \/ \E w \in Conns : (\E job \in Jobs[w] : Launch(w, job)) \/ WorkerStep(w) \/ Kill(w) \/ ThreadStep(w)
  \/ \E e \in Epochs, lost \in BOOLEAN : Restart(e, lost)

\* As long as a worker or a thread can take a step, one of them does: none waits for
\* anything but its peer or, for a while, workers_mu_.
ClusterSpec ==
  /\ ClusterInit /\ [][ClusterNext]_clusterVars
  /\ WF_clusterVars(\E w \in Conns : WorkerStep(w) \/ ThreadStep(w))

----------------------------------------------------------------------------
(* Properties *)

\* A worker that is told its commit succeeded was told before, by the same coordinator, that
\* this reservation is its own: although the identifiers of reservations begin again in every
\* coordinator process, and a worker may name one it was told of in an earlier life, commit()
\* never hands it the reservation of another.
CommitsOwnGrant == \A w \in Conns : proc[w].committed \subseteq proc[w].granted

\* An answer that reaches a worker is the answer to the request it waits for, and there is
\* never more than one: main() tells answers apart by their order alone.
AnswersMatch ==
  \A w \in Conns : Running(w) =>
    /\ Len(down[w]) <= 1
    /\ down[w] # <<>> => /\ proc[w].awaiting
                         /\ Head(down[w]).type = AnswerType(Head(proc[w].script).type)

\* The workers use the coordinator as Coordinator describes it: whatever they are started
\* with and whenever they die, the connections they make and the frames they send are among
\* those Coordinator allows, so that what holds of it holds in the cluster.
ImplementsCoordinator == CoordSpec

\* Every worker comes to the end of its requests: whatever is refused and whoever dies, the
\* worker and its thread never wait for each other for ever.
WorkersFinish ==
  <>[](\A w \in Conns : Running(w) => proc[w].script = <<>> /\ proc[w].stay)

\* The thread of a worker that is gone finds out, fences its devices and ends.
DeathsNoticed == <>[](\A w \in Conns : ~Running(w) => link[w] = "closed")

=============================================================================
