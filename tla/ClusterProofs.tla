---------------------------- MODULE ClusterProofs ----------------------------
(***************************************************************************)
(* Proofs about Cluster, for any number of workers with any command lines: *)
(* an answer is the answer to the request its worker waits for, a worker   *)
(* that is told its commit succeeded was told of the reservation, and the  *)
(* coordinator is only used as Coordinator says.                           *)
(***************************************************************************)
EXTENDS Cluster, CoordinatorProofs, SequenceTheorems

----------------------------------------------------------------------------
(* What is on a connection *)

Boot(w) == Ask("WORKER_BOOT", w)

\* The requests that are answered, with a number the engine takes.
Question ==
  {f \in [type : {"PUBLISH_DEVICE", "PUBLISH_POOL", "PUBLISH_REGION", "RESERVE", "COMMIT",
                  "RELEASE", "QUERY_STATE"}, n : Nat] :
     /\ f.type = "RESERVE" => decode_reserve(f.n) \in Requests
     /\ f.type \in {"COMMIT", "RELEASE"} => f.n \in 1..MaxReservations}

\* p is a record of a worker.
IsWorker(p) ==
  /\ p = [pc |-> p.pc, script |-> p.script, awaiting |-> p.awaiting, stay |-> p.stay,
          granted |-> p.granted, committed |-> p.committed]
  /\ p.awaiting \in BOOLEAN

\* The worker has not sent its WORKER_BOOT.
Silent(w, p, l, u, d) ==
  /\ p.script # <<>> /\ Head(p.script) = Boot(w) /\ Tail(p.script) \in Seq(Question)
  /\ ~p.awaiting /\ u = <<>> /\ d = <<>> /\ l # "open"

\* It has: all that is on its way up is WORKER_BOOT, until it is read, and the request the
\* worker waits for, until it is answered; all that is on its way down is the answer.
Talking(w, p, l, u, d) ==
  /\ p.script \in Seq(Question) /\ (p.awaiting => p.script # <<>>)
  /\ l = "queued" =>
       d = <<>> /\ u = IF p.awaiting THEN <<Boot(w), Head(p.script)>> ELSE <<Boot(w)>>
  /\ l = "open" => u = IF p.awaiting /\ d = <<>> THEN <<Head(p.script)>> ELSE <<>>
  /\ d # <<>> => /\ p.awaiting /\ d = <<Head(d)>>
                 /\ Head(d).type = AnswerType(Head(p.script).type)

\* The worker w as p, its connection as l and the frames u and d on it.
Orderly(w, p, l, u, d) ==
  /\ IsWorker(p) /\ u \in Seq(Question \cup {Boot(w)})
  /\ l = "queued" => u = <<>> \/ Head(u) = Boot(w)
  /\ p.pc = "new" => p = New /\ l = "closed" /\ u = <<>> /\ d = <<>>
  /\ p.pc = "running" => Silent(w, p, l, u, d) \/ Talking(w, p, l, u, d)

\* The thread of worker w serves an open connection, under the identity of w.
Session(w) == Open(w) => link[w] = "open" /\ conn[w].boot = w

Keyed == DOMAIN proc = Conns /\ DOMAIN link = Conns /\ DOMAIN up = Conns /\ DOMAIN down = Conns

LinkInv ==
  /\ Keyed /\ ConnOK
  /\ \A w \in Conns : Session(w) /\ Orderly(w, proc[w], link[w], up[w], down[w])

----------------------------------------------------------------------------
(* What a worker was told of its reservations *)

\* The reservations made for worker w.
Holds(w) == {i \in DOMAIN reservations : reservations[i].worker_boot_id = w}

\* The answer d on its way to worker p grants it reservation i.
Promised(p, d, i) == d # <<>> /\ Head(p.script).type = "RESERVE" /\ Head(d).ok /\ Head(d).id = i

\* Worker p, with the answers d on their way to it, knows of every reservation in held, or is
\* about to, and is only told that a commit succeeded of one it knows of.
Told(p, d, held) ==
  /\ p.committed \subseteq p.granted
  /\ p.pc = "new" => held = {}
  /\ p.pc = "running" =>
       /\ \A i \in held : i \in p.granted \/ Promised(p, d, i)
       /\ d # <<>> /\ Head(p.script).type = "COMMIT" /\ Head(d).ok => Head(d).id \in p.granted

\* Every reservation says whose it is.
Owned == \A i \in DOMAIN reservations : "worker_boot_id" \in DOMAIN reservations[i]

AllTold == \A w \in Conns : Told(proc[w], down[w], Holds(w))

GrantInv == sequence \in Nat /\ Owned /\ AllTold

----------------------------------------------------------------------------
(* Short sequences *)

\* What Head, Tail, Len and Append make of one or two frames on a connection.
LEMMA TupleFacts ==
  ASSUME NEW a, NEW b
  PROVE  /\ <<a>> # <<>> /\ Head(<<a>>) = a /\ Tail(<<a>>) = <<>> /\ Len(<<a>>) = 1
         /\ <<a, b>> # <<>> /\ Head(<<a, b>>) = a /\ Tail(<<a, b>>) = <<b>>
         /\ Append(<<>>, a) = <<a>> /\ Append(<<a>>, b) = <<a, b>>
<1>1. /\ <<a>> # <<>> /\ Head(<<a>>) = a /\ Len(<<a>>) = 1
      /\ <<a, b>> # <<>> /\ Head(<<a, b>>) = a
  OBVIOUS
<1>2. Tail(<<a>>) = <<>>
  OBVIOUS
<1> DEFINE S == {a, b}
<1>0. <<>> \in Seq(S) /\ <<a>> \in Seq(S) /\ <<b>> \in Seq(S) /\ <<a, b>> \in Seq(S) /\ a \in S /\ b \in S
  OBVIOUS
<1>3. Append(<<>>, a) = <<a>> /\ Append(<<>>, b) = <<b>> /\ Append(<<a>>, b) = <<a, b>>
  <2> HIDE DEF S
  <2>1. Append(<<>>, a) = <<a>> /\ Append(<<>>, b) = <<b>>
    BY <1>0, AppendIsConcat, ConcatEmptySeq, Zenon
  <2>2. /\ Append(<<a>>, b) \in Seq(S) /\ Len(Append(<<a>>, b)) = Len(<<a>>) + 1
        /\ \A i \in 1..Len(<<a>>) : Append(<<a>>, b)[i] = <<a>>[i]
        /\ Append(<<a>>, b)[Len(<<a>>) + 1] = b
    BY <1>0, AppendProperties
  <2>3. Len(<<a>>) = 1 /\ Len(<<a, b>>) = 2 /\ <<a>>[1] = a /\ <<a, b>>[1] = a /\ <<a, b>>[2] = b
    OBVIOUS
  <2>4. Len(Append(<<a>>, b)) = Len(<<a, b>>) /\ \A i \in 1..Len(Append(<<a>>, b)) : Append(<<a>>, b)[i] = <<a, b>>[i]
    <3> DEFINE x == Append(<<a>>, b)
               y == <<a, b>>
    <3>1. Len(x) = 2 /\ x[1] = a /\ x[2] = b
      BY <2>2, <2>3
    <3>2. Len(y) = 2 /\ y[1] = a /\ y[2] = b
      BY <2>3
    <3> HIDE DEF x, y
    <3>3. Len(x) = Len(y) /\ \A i \in 1..Len(x) : x[i] = y[i]
      BY <3>1, <3>2
    <3> QED
      BY <3>3 DEF x, y
  <2>5. Append(<<a>>, b) = <<a, b>>
    BY <1>0, <2>2, <2>4, SeqEqual, Zenon
  <2> QED
    BY <2>1, <2>5
<1>4. Tail(<<a, b>>) = <<b>>
  <2>1. <<a>> \in Seq({a, b})
    OBVIOUS
  <2>2. Tail(Append(<<a>>, b)) = Append(Tail(<<a>>), b)
    BY <1>1, <2>1, HeadTailAppend
  <2> QED
    BY <1>2, <1>3, <2>2
<1> QED
  BY <1>1, <1>2, <1>3, <1>4

\* s begins with b, and questions follow.
Begins(s, b) ==
  /\ s \in Seq(Question \cup {b}) /\ Len(s) > 0 /\ s[1] = b
  /\ \A i \in 2..Len(s) : s[i] \in Question

\* More questions may follow.
LEMMA BeginsConcat ==
  ASSUME NEW b, NEW s, Begins(s, b), NEW t \in Seq(Question)
  PROVE  Begins(s \o t, b)
<1> DEFINE S == Question \cup {b}
<1>1. s \in Seq(S) /\ t \in Seq(S) /\ Len(s) > 0 /\ s[1] = b /\ \A i \in 2..Len(s) : s[i] \in Question
  <2>1. t \in Seq(S)
    BY SeqMonotonic
  <2> QED
    BY <2>1 DEF Begins
<1>2. \A i \in 1..Len(t) : t[i] \in Question
  BY ElementOfSeq
<1> HIDE DEF S
<1>3. /\ s \o t \in Seq(S) /\ Len(s \o t) = Len(s) + Len(t)
      /\ \A i \in 1..(Len(s) + Len(t)) : (s \o t)[i] = IF i <= Len(s) THEN s[i] ELSE t[i - Len(s)]
  BY <1>1, ConcatProperties
<1>4. Len(s) \in Nat /\ Len(t) \in Nat
  BY <1>1, LenProperties
<1>5. (s \o t)[1] = b
  BY <1>1, <1>3, <1>4
<1>6. ASSUME NEW i \in 2..(Len(s) + Len(t)) PROVE (s \o t)[i] \in Question
  BY <1>1, <1>2, <1>3, <1>4, <1>6
<1> QED
  BY <1>1, <1>3, <1>4, <1>5, <1>6 DEF Begins, S

\* Behind its first frame a worker's script has questions only.
LEMMA BeginsTail ==
  ASSUME NEW b, NEW s, Begins(s, b)
  PROVE  s # <<>> /\ Head(s) = b /\ Tail(s) \in Seq(Question)
<1> DEFINE S == Question \cup {b}
<1>1. s \in Seq(S) /\ Len(s) > 0 /\ s[1] = b /\ \A i \in 2..Len(s) : s[i] \in Question
  BY DEF Begins
<1> HIDE DEF S
<1>2. s # <<>> /\ Len(s) \in Nat
  BY <1>1, LenProperties, EmptySeq
<1>3. Head(s) = b
  BY <1>1
<1>4. Tail(s) = SubSeq(s, 2, Len(s))
  BY <1>1, <1>2, TailIsSubSeq
<1>5. SubSeq(s, 2, Len(s)) \in Seq(Question)
  BY <1>1, <1>2, SubSeqProperties
<1> QED
  BY <1>2, <1>3, <1>4, <1>5, Zenon

\* A command line makes WORKER_BOOT and then questions the engine takes.
LEMMA ScriptBegins ==
  ASSUME NEW w \in Conns, NEW job \in Jobs[w]
  PROVE  Begins(Script(job, w), Boot(w))
<1> DEFINE a == Only(job.publish \/ job.reserve,
                     <<Ask("PUBLISH_DEVICE", 0), Ask("PUBLISH_POOL", 0), Ask("PUBLISH_REGION", 0)>>)
           b == Only(job.reserve, <<Ask("RESERVE", job.bytes)>>)
           c == Only(job.commit # 0, <<Ask("COMMIT", job.commit)>>)
           r == Only(job.release # 0, <<Ask("RELEASE", job.release)>>)
           q == Only(job.query, <<Ask("QUERY_STATE", 0)>>)
<1>1. /\ job.commit \in 0..MaxReservations /\ job.release \in 0..MaxReservations /\ job.bytes \in Nat
      /\ job.reserve => decode_reserve(job.bytes) \in Requests
  BY JobAssumption
<1>2. <<>> \in Seq(Question)
  BY EmptySeq
<1>3. a \in Seq(Question)
  <2>1. /\ Ask("PUBLISH_DEVICE", 0) \in Question /\ Ask("PUBLISH_POOL", 0) \in Question
        /\ Ask("PUBLISH_REGION", 0) \in Question
    BY DEF Ask, Question
  <2>2. <<Ask("PUBLISH_DEVICE", 0), Ask("PUBLISH_POOL", 0), Ask("PUBLISH_REGION", 0)>> \in Seq(Question)
    BY <2>1
  <2> QED
    BY <1>2, <2>2 DEF Only
<1>4. b \in Seq(Question)
  <2>1. job.reserve => Ask("RESERVE", job.bytes) \in Question
    BY <1>1 DEF Ask, Question
  <2> QED
    BY <1>2, <2>1 DEF Only
<1>5. c \in Seq(Question)
  <2>1. job.commit # 0 => Ask("COMMIT", job.commit) \in Question
    BY <1>1, BoundAssumption DEF Ask, Question
  <2> QED
    BY <1>2, <2>1 DEF Only
<1>6. r \in Seq(Question)
  <2>1. job.release # 0 => Ask("RELEASE", job.release) \in Question
    BY <1>1, BoundAssumption DEF Ask, Question
  <2> QED
    BY <1>2, <2>1 DEF Only
<1>7. q \in Seq(Question)
  <2>1. Ask("QUERY_STATE", 0) \in Question
    BY DEF Ask, Question
  <2> QED
    BY <1>2, <2>1 DEF Only
<1>8. Begins(<<Boot(w)>>, Boot(w))
  <2> DEFINE x == Boot(w)
  <2> HIDE DEF x
  <2>1. <<x>> \in Seq(Question \cup {x}) /\ Len(<<x>>) = 1 /\ <<x>>[1] = x
    OBVIOUS
  <2>2. Begins(<<x>>, x)
    BY <2>1 DEF Begins
  <2> QED
    BY <2>2 DEF x
<1>9. Script(job, w) = <<Boot(w)>> \o a \o b \o c \o r \o q
  BY DEF Script, Boot
<1> HIDE DEF a, b, c, r, q
<1> QED
  BY <1>3, <1>4, <1>5, <1>6, <1>7, <1>8, <1>9, BeginsConcat, Zenon

----------------------------------------------------------------------------
(* What each step does to its own connection *)

(* One field of the record of a worker replaced. *)
AtPlace(p, v)     == [p EXCEPT !.pc = v]
AtScript(p, v)    == [p EXCEPT !.script = v]
AtAwaiting(p, v)  == [p EXCEPT !.awaiting = v]
AtStay(p, v)      == [p EXCEPT !.stay = v]
AtGranted(p, v)   == [p EXCEPT !.granted = v]
AtCommitted(p, v) == [p EXCEPT !.committed = v]

\* Where the process is changes and nothing else of the record does.
LEMMA PlaceMoves ==
  ASSUME NEW p, IsWorker(p), NEW v
  PROVE  LET q == AtPlace(p, v)
         IN  /\ IsWorker(q) /\ q.pc = v
             /\ q.script = p.script /\ (q.awaiting <=> p.awaiting) /\ q.granted = p.granted /\ q.committed = p.committed
BY DEF IsWorker, AtPlace

\* The script changes and nothing else of the record does.
LEMMA ScriptMoves ==
  ASSUME NEW p, IsWorker(p), NEW v
  PROVE  LET q == AtScript(p, v)
         IN  /\ IsWorker(q) /\ q.script = v
             /\ q.pc = p.pc /\ (q.awaiting <=> p.awaiting) /\ q.granted = p.granted /\ q.committed = p.committed
BY DEF IsWorker, AtScript

\* The wait changes and nothing else of the record does.
LEMMA WaitMoves ==
  ASSUME NEW p, IsWorker(p), NEW v \in BOOLEAN
  PROVE  LET q == AtAwaiting(p, v)
         IN  /\ IsWorker(q) /\ (q.awaiting <=> v)
             /\ q.pc = p.pc /\ q.script = p.script /\ q.granted = p.granted /\ q.committed = p.committed
BY DEF IsWorker, AtAwaiting

\* Whether the worker stays changes and nothing else of the record does.
LEMMA StayMoves ==
  ASSUME NEW p, IsWorker(p), NEW v
  PROVE  LET q == AtStay(p, v)
         IN  /\ IsWorker(q)
             /\ q.pc = p.pc /\ q.script = p.script /\ (q.awaiting <=> p.awaiting) /\ q.granted = p.granted /\ q.committed = p.committed
BY DEF IsWorker, AtStay

\* What was granted changes and nothing else of the record does.
LEMMA GrantsMove ==
  ASSUME NEW p, IsWorker(p), NEW v
  PROVE  LET q == AtGranted(p, v)
         IN  /\ IsWorker(q) /\ q.granted = v
             /\ q.pc = p.pc /\ q.script = p.script /\ (q.awaiting <=> p.awaiting) /\ q.committed = p.committed
BY DEF IsWorker, AtGranted

\* What was committed changes and nothing else of the record does.
LEMMA CommitsMove ==
  ASSUME NEW p, IsWorker(p), NEW v
  PROVE  LET q == AtCommitted(p, v)
         IN  /\ IsWorker(q) /\ q.committed = v
             /\ q.pc = p.pc /\ q.script = p.script /\ (q.awaiting <=> p.awaiting) /\ q.granted = p.granted
BY DEF IsWorker, AtCommitted

\* A worker that is not started has nothing.
LEMMA NewIs ==
  /\ IsWorker(New) /\ New.pc = "new" /\ New.script = <<>> /\ ~New.awaiting
  /\ New.granted = {} /\ New.committed = {}
<1>1. \A e : LET p == [pc |-> "new", script |-> e, awaiting |-> FALSE, stay |-> FALSE,
                       granted |-> {}, committed |-> {}]
             IN  /\ IsWorker(p) /\ p.pc = "new" /\ p.script = e /\ ~p.awaiting
                 /\ p.granted = {} /\ p.committed = {}
  BY DEF IsWorker
<1> QED
  BY <1>1, Zenon DEF New

\* Nor has one that is over.
LEMMA OffIs == IsWorker(Off) /\ Off.pc = "off" /\ Off.granted = {} /\ Off.committed = {}
<1>1. Off = AtPlace(New, "off")
  BY Zenon DEF Off, AtPlace
<1> QED
  BY <1>1, NewIs, PlaceMoves

\* The record of a worker that starts with script s.
Launched(s, st) == [New EXCEPT !.pc = "running", !.script = s, !.stay = st]

\* Launch(): it has its script and nothing else.
LEMMA LaunchedIs ==
  ASSUME NEW s, NEW st
  PROVE  LET q == Launched(s, st)
         IN  /\ IsWorker(q) /\ q.pc = "running" /\ q.script = s /\ ~q.awaiting
             /\ q.granted = {} /\ q.committed = {}
<1> DEFINE a == AtPlace(New, "running")
           b == AtScript(a, s)
<1>1. Launched(s, st) = AtStay(b, st)
  BY Zenon DEF Launched, AtStay, AtScript, AtPlace
<1>2. IsWorker(a) /\ a.pc = "running" /\ ~a.awaiting /\ a.granted = {} /\ a.committed = {}
  BY NewIs, PlaceMoves
<1> HIDE DEF a
<1>3. /\ IsWorker(b) /\ b.pc = "running" /\ b.script = s /\ ~b.awaiting /\ b.granted = {}
      /\ b.committed = {}
  BY <1>2, ScriptMoves
<1> HIDE DEF b
<1> QED
  BY <1>1, <1>3, StayMoves

\* Answered(): the worker goes on with the next request.
LEMMA AnsweredIs ==
  ASSUME NEW w, IsWorker(proc[w])
  PROVE  /\ IsWorker(Answered(w)) /\ Answered(w).pc = proc[w].pc
         /\ Answered(w).script = Tail(proc[w].script) /\ ~Answered(w).awaiting
         /\ Answered(w).granted = proc[w].granted /\ Answered(w).committed = proc[w].committed
<1> DEFINE p == proc[w]
           s == Tail(p.script)
           a == AtAwaiting(p, FALSE)
<1>1. Answered(w) = AtScript(a, s)
  BY Zenon DEF Answered, AtScript, AtAwaiting
<1> HIDE DEF p, s
<1>2. /\ IsWorker(a) /\ ~a.awaiting /\ a.pc = p.pc /\ a.granted = p.granted
      /\ a.committed = p.committed
  <2>1. IsWorker(p)
    BY DEF p
  <2> QED
    BY <2>1, WaitMoves, Zenon
<1> HIDE DEF a
<1>3. LET q == Answered(w)
      IN  /\ IsWorker(q) /\ q.pc = p.pc /\ q.script = s /\ ~q.awaiting
          /\ q.granted = p.granted /\ q.committed = p.committed
  BY <1>1, <1>2, ScriptMoves
<1> QED
  BY <1>3 DEF p, s

\* Launch(): the worker is to begin with WORKER_BOOT.
LEMMA LaunchOrderly ==
  ASSUME NEW w, NEW s, Begins(s, Boot(w)), NEW st
  PROVE  Orderly(w, Launched(s, st), "queued", <<>>, <<>>)
<1> DEFINE p == Launched(s, st)
<1>2. p.pc = "running" /\ p.script = s /\ ~p.awaiting /\ IsWorker(p)
  BY LaunchedIs
<1>3. s # <<>> /\ Head(s) = Boot(w) /\ Tail(s) \in Seq(Question)
  BY BeginsTail
<1>4. <<>> \in Seq(Question \cup {Boot(w)})
  BY EmptySeq
<1> HIDE DEF p
<1>5. Silent(w, p, "queued", <<>>, <<>>)
  BY <1>2, <1>3 DEF Silent
<1>6. Orderly(w, p, "queued", <<>>, <<>>)
  BY <1>2, <1>4, <1>5 DEF Orderly
<1> QED
  BY <1>6 DEF p

\* A worker that is over leaves its connection as it is.
LEMMA OffOrderly ==
  ASSUME NEW w, NEW p, NEW l, NEW u, NEW d, NEW e, Orderly(w, p, l, u, d)
  PROVE  Orderly(w, Off, l, u, e)
BY OffIs DEF Orderly

\* The first question of a script, and what is left of it.
LEMMA QuestionFacts ==
  ASSUME NEW s \in Seq(Question), s # <<>>
  PROVE  Head(s) \in Question /\ Tail(s) \in Seq(Question) /\ Head(s).type # "WORKER_BOOT"
<1>1. Head(s) \in Question /\ Tail(s) \in Seq(Question)
  BY HeadTailProperties
<1>2. \A f \in Question : f.type # "WORKER_BOOT"
  BY DEF Question
<1> QED
  BY <1>1, <1>2, Zenon

\* Send() of WORKER_BOOT.
LEMMA BootOrderly ==
  ASSUME NEW w, NEW p, NEW l, NEW u, NEW d, NEW v, NEW q, Orderly(w, p, l, u, d),
         p.pc = "running", ~p.awaiting, p.script # <<>>, Head(p.script).type = "WORKER_BOOT",
         v = IF l = "closed" THEN u ELSE Append(u, Head(p.script)),
         q = AtScript(p, Tail(p.script))
  PROVE  Orderly(w, q, l, v, d)
<1>1. IsWorker(p) /\ u \in Seq(Question \cup {Boot(w)})
  BY DEF Orderly
<1>2. q.pc = "running" /\ q.script = Tail(p.script) /\ ~q.awaiting /\ IsWorker(q)
  BY <1>1, ScriptMoves
<1>3. ~Talking(w, p, l, u, d)
  BY QuestionFacts, Zenon DEF Talking
<1>4. Silent(w, p, l, u, d)
  BY <1>3 DEF Orderly
<1>5. /\ Head(p.script) = Boot(w) /\ Tail(p.script) \in Seq(Question) /\ u = <<>> /\ d = <<>>
      /\ l # "open"
  BY <1>4 DEF Silent
<1>6. v = IF l = "closed" THEN <<>> ELSE <<Boot(w)>>
  BY <1>5, TupleFacts, Zenon
<1>7. v \in Seq(Question \cup {Boot(w)})
  <2>1. <<Boot(w)>> \in Seq(Question \cup {Boot(w)})
    <3> HIDE DEF Boot, Question
    <3> QED
      OBVIOUS
  <2> QED
    BY <1>6, <2>1, EmptySeq, Zenon
<1>8. l = "queued" => v = <<Boot(w)>> /\ Head(v) = Boot(w)
  BY <1>6, TupleFacts, Zenon
<1>9. Talking(w, q, l, v, d)
  BY <1>2, <1>5, <1>8, Zenon DEF Talking
<1> QED
  BY <1>2, <1>7, <1>8, <1>9, Zenon DEF Orderly

\* Send() of a question.
LEMMA AskOrderly ==
  ASSUME NEW w, NEW p, NEW l, NEW u, NEW d, NEW v, NEW q, Orderly(w, p, l, u, d),
         p.pc = "running", ~p.awaiting, p.script # <<>>, Head(p.script).type # "WORKER_BOOT",
         v = IF l = "closed" THEN u ELSE Append(u, Head(p.script)),
         q = AtAwaiting(p, TRUE)
  PROVE  Orderly(w, q, l, v, d)
<1> DEFINE f == Head(p.script)
           S == Question \cup {Boot(w)}
<1>1. IsWorker(p) /\ u \in Seq(S)
  BY DEF Orderly
<1>2. q.pc = "running" /\ q.script = p.script /\ q.awaiting /\ IsWorker(q)
  BY <1>1, WaitMoves, Zenon
<1>3. Boot(w).type = "WORKER_BOOT"
  BY DEF Boot, Ask
<1>4. Talking(w, p, l, u, d)
  BY <1>3 DEF Orderly, Silent
<1>5. p.script \in Seq(Question) /\ d = <<>>
  BY <1>4 DEF Talking
<1>6. f \in S
  BY <1>5, QuestionFacts
<1>7. l = "queued" => u = <<Boot(w)>>
  BY <1>4 DEF Talking
<1>8. l = "open" => u = <<>>
  BY <1>4 DEF Talking
<1> HIDE DEF f, S
<1>9. v \in Seq(S)
  <2>1. Append(u, f) \in Seq(S)
    BY <1>1, <1>6, AppendProperties
  <2> QED
    BY <1>1, <2>1 DEF f
<1>10. l = "queued" => v = <<Boot(w), f>> /\ Head(v) = Boot(w)
  <2>1. Append(<<Boot(w)>>, f) = <<Boot(w), f>> /\ Head(<<Boot(w), f>>) = Boot(w)
    BY TupleFacts, Zenon
  <2>2. l = "queued" => v = Append(u, f)
    BY DEF f
  <2> QED
    BY <1>7, <2>1, <2>2, Zenon
<1>11. l = "open" => v = <<f>>
  BY <1>8, TupleFacts, Zenon DEF f
<1>12. Talking(w, q, l, v, d)
  BY <1>2, <1>5, <1>10, <1>11, Zenon DEF Talking, f
<1> QED
  BY <1>2, <1>9, <1>10, <1>12, Zenon DEF Orderly, S

\* Receive() and a failed one after which the worker goes on: the answer is off the wire.
LEMMA AnsweredOrderly ==
  ASSUME NEW w, NEW p, NEW l, NEW u, NEW d, NEW q, Orderly(w, p, l, u, d),
         p.pc = "running", p.awaiting, d # <<>> \/ l = "closed", IsWorker(q),
         q.pc = "running", ~q.awaiting, q.script = Tail(p.script)
  PROVE  Orderly(w, q, l, u, <<>>)
<1>1. Talking(w, p, l, u, d)
  BY DEF Orderly, Silent
<1>2. p.script \in Seq(Question) /\ p.script # <<>>
  BY <1>1 DEF Talking
<1>3. Tail(p.script) \in Seq(Question)
  BY <1>2, QuestionFacts
<1>4. l # "queued" /\ (l = "open" => u = <<>>)
  BY <1>1 DEF Talking
<1>5. Talking(w, q, l, u, <<>>)
  BY <1>3, <1>4 DEF Talking
<1> QED
  BY <1>4, <1>5 DEF Orderly

\* What a running worker finds on the wire is one answer.
LEMMA OneAnswer ==
  ASSUME NEW w, NEW p, NEW l, NEW u, NEW d, Orderly(w, p, l, u, d), p.pc = "running", d # <<>>
  PROVE  /\ p.awaiting /\ p.script # <<>> /\ Len(d) = 1 /\ Tail(d) = <<>>
         /\ Head(d).type = AnswerType(Head(p.script).type)
<1>1. Talking(w, p, l, u, d)
  BY DEF Orderly, Silent
<1>2. p.awaiting /\ p.script # <<>> /\ d = <<Head(d)>> /\ Head(d).type = AnswerType(Head(p.script).type)
  BY <1>1 DEF Talking
<1>3. PICK h : d = <<h>>
  BY <1>2, Zenon
<1>4. Len(<<h>>) = 1 /\ Tail(<<h>>) = <<>>
  BY TupleFacts, Zenon
<1>5. Len(d) = 1 /\ Tail(d) = <<>>
  BY <1>3, <1>4, Zenon
<1> QED
  BY <1>2, <1>5, Zenon

\* Once an answer is taken, none is left.
LEMMA NoneLeft ==
  ASSUME NEW w, NEW p, NEW l, NEW u, NEW d, Orderly(w, p, l, u, d), p.pc = "running"
  PROVE  /\ d # <<>> => Tail(d) = <<>>
         /\ Only(d # <<>>, Tail(d)) = <<>>
<1>1. d # <<>> => Tail(d) = <<>>
  BY OneAnswer
<1> QED
  BY <1>1, Zenon DEF Only

\* Accept(): WORKER_BOOT is read.
LEMMA AcceptOrderly ==
  ASSUME NEW w, NEW p, NEW u, NEW d, Orderly(w, p, "queued", u, d), u # <<>>
  PROVE  Head(u) = Boot(w) /\ Orderly(w, p, "open", Tail(u), d)
<1>1. /\ IsWorker(p) /\ u \in Seq(Question \cup {Boot(w)}) /\ Head(u) = Boot(w) /\ p.pc # "new"
  BY DEF Orderly
<1>2. Tail(u) \in Seq(Question \cup {Boot(w)})
  BY <1>1, HeadTailProperties
<1>3. ASSUME p.pc = "running" PROVE Talking(w, p, "open", Tail(u), d)
  <2>1. Talking(w, p, "queued", u, d)
    BY <1>3 DEF Orderly, Silent
  <2>2. d = <<>> /\ u = IF p.awaiting THEN <<Boot(w), Head(p.script)>> ELSE <<Boot(w)>>
    BY <2>1 DEF Talking
  <2>3. Tail(u) = IF p.awaiting THEN <<Head(p.script)>> ELSE <<>>
    BY <2>2, TupleFacts, Zenon
  <2> QED
    BY <2>1, <2>2, <2>3 DEF Talking
<1> QED
  BY <1>1, <1>2, <1>3 DEF Orderly

\* Serve(): the first frame is answered, if its worker is there to be told.
LEMMA ServeOrderly ==
  ASSUME NEW w, NEW p, NEW u, NEW d, NEW r, NEW e, Orderly(w, p, "open", u, d), u # <<>>,
         r.type = AnswerType(Head(u).type), e = IF p.pc = "running" THEN Append(d, r) ELSE d
  PROVE  Orderly(w, p, "open", Tail(u), e)
<1>1. IsWorker(p) /\ u \in Seq(Question \cup {Boot(w)}) /\ p.pc # "new"
  BY DEF Orderly
<1>2. Tail(u) \in Seq(Question \cup {Boot(w)})
  BY <1>1, HeadTailProperties
<1>3. ASSUME p.pc = "running" PROVE Talking(w, p, "open", Tail(u), e)
  <2>1. Talking(w, p, "open", u, d)
    BY <1>3 DEF Orderly, Silent
  <2>2. p.awaiting /\ d = <<>> /\ u = <<Head(p.script)>>
    BY <2>1 DEF Talking
  <2>3. Tail(u) = <<>> /\ Head(u) = Head(p.script) /\ e = <<r>> /\ Head(e) = r /\ e # <<>>
    BY <1>3, <2>2, TupleFacts, Zenon
  <2> QED
    BY <2>1, <2>2, <2>3 DEF Talking
<1> QED
  BY <1>1, <1>2, <1>3 DEF Orderly

\* The coordinator's end is gone: what was sent up is lost, or left unread.
LEMMA ClosedOrderly ==
  ASSUME NEW w, NEW p, NEW l, NEW u, NEW d, NEW v, NEW e, Orderly(w, p, l, u, d),
         v = u \/ v = <<>>, e = d \/ e = <<>>
  PROVE  Orderly(w, p, "closed", v, e)
<1>1. IsWorker(p) /\ v \in Seq(Question \cup {Boot(w)})
  BY EmptySeq, Zenon DEF Orderly
<1>2. p.pc = "new" => p = New /\ v = <<>> /\ e = <<>>
  BY DEF Orderly
<1>3. ASSUME p.pc = "running" PROVE Silent(w, p, "closed", v, e) \/ Talking(w, p, "closed", v, e)
  <2>1. CASE Silent(w, p, l, u, d)
    BY <2>1 DEF Silent
  <2>2. CASE Talking(w, p, l, u, d)
    BY <2>2 DEF Talking
  <2> QED
    BY <1>3, <2>1, <2>2, Zenon DEF Orderly
<1> QED
  BY <1>1, <1>2, <1>3 DEF Orderly

\* Answered(): the worker goes on with the answer off the wire.
LEMMA GoesOn ==
  ASSUME NEW w, NEW l, NEW u, NEW d, Orderly(w, proc[w], l, u, d), proc[w].pc = "running",
         proc[w].awaiting, d # <<>> \/ l = "closed"
  PROVE  Orderly(w, Answered(w), l, u, <<>>)
<1> DEFINE p == proc[w]
           q == Answered(w)
<1>1. IsWorker(p)
  BY DEF Orderly
<1>2. IsWorker(q) /\ q.pc = "running" /\ ~q.awaiting /\ q.script = Tail(p.script)
  BY <1>1, AnsweredIs
<1> HIDE DEF p, q
<1>3. Orderly(w, q, l, u, <<>>)
  <2>1. Orderly(w, p, l, u, d) /\ p.pc = "running" /\ p.awaiting
    BY DEF p
  <2> QED
    BY <1>2, <2>1, AnsweredOrderly, Zenon
<1> QED
  BY <1>3 DEF q

\* Take(): so does it with what it was told, or it ends.
LEMMA TakenOrderly ==
  ASSUME NEW w, NEW l, NEW u, NEW d, Orderly(w, proc[w], l, u, d), proc[w].pc = "running",
         proc[w].awaiting, d # <<>>, NEW f, NEW r
  PROVE  Orderly(w, Take(w, f, r), l, u, <<>>)
<1> DEFINE p == proc[w]
           a == Answered(w)
           g == AtGranted(a, p.granted \cup {r.id})
           m == AtCommitted(a, p.committed \cup {r.id})
<1>1. Orderly(w, Off, l, u, <<>>)
  BY OffOrderly
<1>2. Orderly(w, a, l, u, <<>>)
  BY GoesOn, Zenon
<1>3. IsWorker(p) /\ IsWorker(a)
  BY <1>2 DEF Orderly
<1>4. IsWorker(p) /\ IsWorker(a) /\ a.pc = "running" /\ ~a.awaiting /\ a.script = Tail(p.script)
  BY <1>3, AnsweredIs
<1>5. Take(w, f, r) = Off \/ Take(w, f, r) = g \/ Take(w, f, r) = m \/ Take(w, f, r) = a
  BY Zenon DEF Take, AtGranted, AtCommitted
<1> HIDE DEF a
<1>6. IsWorker(g) /\ g.pc = "running" /\ ~g.awaiting /\ g.script = Tail(p.script)
  BY <1>4, GrantsMove
<1>7. IsWorker(m) /\ m.pc = "running" /\ ~m.awaiting /\ m.script = Tail(p.script)
  BY <1>4, CommitsMove
<1> HIDE DEF p, g, m
<1>8. Orderly(w, p, l, u, d) /\ p.pc = "running" /\ p.awaiting
  BY DEF p
<1>9. Orderly(w, g, l, u, <<>>)
  BY <1>6, <1>8, AnsweredOrderly, Zenon
<1>10. Orderly(w, m, l, u, <<>>)
  BY <1>7, <1>8, AnsweredOrderly
<1> QED
  BY <1>1, <1>2, <1>5, <1>9, <1>10, Zenon

----------------------------------------------------------------------------
(* What each step does to the connections *)

\* The connection of w changes, and with it nothing of the others.
OneLink(w, p, l, u, d) ==
  /\ Keyed' /\ proc'[w] = p /\ link'[w] = l /\ up'[w] = u /\ down'[w] = d
  /\ \A x \in Conns \ {w} :
       proc'[x] = proc[x] /\ link'[x] = link[x] /\ up'[x] = up[x] /\ down'[x] = down[x]

AllOrderly == \A w \in Conns : Orderly(w, proc[w], link[w], up[w], down[w])

\* If the connection that changes is as it should be, all are.
LEMMA OthersOrderly ==
  ASSUME AllOrderly, NEW w \in Conns, NEW p, NEW l, NEW u, NEW d, OneLink(w, p, l, u, d),
         Orderly(w, p, l, u, d)
  PROVE  Keyed' /\ AllOrderly'
BY DEF OneLink, AllOrderly

\* The threads keep what they serve when no connection they serve changes.
LEMMA SessionsStay ==
  ASSUME ConnOK, \A x \in Conns : Session(x), UNCHANGED conn,
         \A x \in Conns : Open(x) => link'[x] = link[x]
  PROVE  ConnOK' /\ \A x \in Conns : Session(x)'
BY DEF ConnOK, Session, Open

\* Worker processes start, send, receive and end.
LEMMA WorkerLinks ==
  ASSUME LinkInv, NEW w \in Conns,
         (\E job \in Jobs[w] : Launch(w, job)) \/ WorkerStep(w) \/ Kill(w)
  PROVE  LinkInv'
<1> DEFINE p == proc[w]
           l == link[w]
           u == up[w]
           d == down[w]
<1>0. Keyed /\ ConnOK /\ AllOrderly /\ (\A x \in Conns : Session(x)) /\ Orderly(w, p, l, u, d)
  BY DEF LinkInv, AllOrderly
<1>1. CASE \E job \in Jobs[w] : Launch(w, job)
  <2>1. PICK job \in Jobs[w] : Launch(w, job)
    BY <1>1, Zenon
  <2>2. l = "closed" /\ u = <<>> /\ d = <<>>
    BY <1>0, <2>1, Zenon DEF Launch, Orderly
  <2> DEFINE q == Launched(Script(job, w), job.stay)
  <2>3. OneLink(w, q, "queued", <<>>, <<>>)
    <3>1. proc' = [proc EXCEPT ![w] = q] /\ link' = [link EXCEPT ![w] = "queued"] /\ UNCHANGED <<up, down>>
      BY <2>1, Zenon DEF Launch, Launched
    <3> HIDE DEF q
    <3> QED
      BY <1>0, <2>2, <3>1, Zenon DEF OneLink, Keyed
  <2>4. Orderly(w, q, "queued", <<>>, <<>>)
    BY ScriptBegins, LaunchOrderly, Zenon
  <2> HIDE DEF q
  <2>5. Keyed' /\ AllOrderly'
    BY <1>0, <2>3, <2>4, OthersOrderly, Zenon
  <2>6. ~Open(w)
    BY <1>0, <2>2, Zenon DEF Session
  <2>7. UNCHANGED conn /\ \A x \in Conns : Open(x) => link'[x] = link[x]
    BY <2>1, <2>3, <2>6, Zenon DEF Launch, OneLink, coordVars, threads
  <2>8. ConnOK' /\ \A x \in Conns : Session(x)'
    BY <1>0, <2>7, SessionsStay, Zenon
  <2> QED
    BY <2>5, <2>8 DEF LinkInv, AllOrderly
<1>2. ASSUME UNCHANGED <<conn, link>>, Keyed', AllOrderly' PROVE LinkInv'
  <2>1. ConnOK' /\ \A x \in Conns : Session(x)'
    BY <1>0, <1>2, SessionsStay, Zenon
  <2> QED
    BY <1>2, <2>1, Zenon DEF LinkInv, AllOrderly
<1>3. CASE Send(w)
  <2> DEFINE f == Head(p.script)
             v == IF l = "closed" THEN u ELSE Append(u, f)
             q == IF f.type = "WORKER_BOOT" THEN AtScript(p, Tail(p.script)) ELSE AtAwaiting(p, TRUE)
  <2>1. p.pc = "running" /\ ~p.awaiting /\ p.script # <<>> /\ UNCHANGED <<conn, link>>
    BY <1>3 DEF Send, Running, coordVars, threads
  <2>2. OneLink(w, q, l, v, d)
    BY <1>0, <1>3 DEF Send, OneLink, Keyed, AtScript, AtAwaiting
  <2>3. Orderly(w, q, l, v, d)
    <3>1. CASE f.type = "WORKER_BOOT"
      BY <1>0, <2>1, <3>1, BootOrderly, Zenon
    <3>2. CASE f.type # "WORKER_BOOT"
      BY <1>0, <2>1, <3>2, AskOrderly, Zenon
    <3> QED
      BY <3>1, <3>2, Zenon
  <2> HIDE DEF q, v
  <2> QED
    BY <1>0, <1>2, <2>1, <2>2, <2>3, OthersOrderly, Zenon
<1>4. CASE Receive(w)
  <2> DEFINE q == Take(w, Head(p.script), Head(d))
  <2>1. p.pc = "running" /\ p.awaiting /\ d # <<>> /\ UNCHANGED <<conn, link>>
    BY <1>4 DEF Receive, Running, coordVars, threads
  <2>2. Tail(d) = <<>>
    BY <1>0, <2>1, NoneLeft, Zenon
  <2>3. OneLink(w, q, l, u, Tail(d))
    BY <1>0, <1>4 DEF Receive, OneLink, Keyed
  <2>4. Orderly(w, q, l, u, <<>>)
    BY <1>0, <2>1, TakenOrderly, Zenon
  <2> HIDE DEF q
  <2> QED
    BY <1>0, <1>2, <2>1, <2>2, <2>3, <2>4, OthersOrderly, Zenon
<1>5. CASE ReceiveFails(w)
  <2> DEFINE q == IF Head(p.script).type \in {"PUBLISH_DEVICE", "RESERVE"} THEN Off ELSE Answered(w)
             e == Only(d # <<>>, Tail(d))
  <2>1. p.pc = "running" /\ p.awaiting /\ (d = <<>> => l = "closed") /\ UNCHANGED <<conn, link>>
    BY <1>5 DEF ReceiveFails, Running, coordVars, threads
  <2>2. e = <<>>
    BY <1>0, <2>1, NoneLeft, Zenon
  <2>3. OneLink(w, q, l, u, e)
    BY <1>0, <1>5 DEF ReceiveFails, OneLink, Keyed
  <2>4. Orderly(w, Off, l, u, <<>>)
    BY <1>0, OffOrderly, Zenon
  <2>5. Orderly(w, Answered(w), l, u, <<>>)
    BY <1>0, <2>1, GoesOn
  <2>6. Orderly(w, q, l, u, <<>>)
    BY <2>4, <2>5, Zenon
  <2> HIDE DEF q, e
  <2> QED
    BY <1>0, <1>2, <2>1, <2>2, <2>3, <2>6, OthersOrderly, Zenon
<1>6. CASE Exit(w) \/ Kill(w)
  <2> DEFINE e == down'[w]
  <2>1. OneLink(w, Off, l, u, e) /\ UNCHANGED <<conn, link>>
    BY <1>0, <1>6, Zenon DEF Exit, Kill, OneLink, Keyed, net, coordVars, threads
  <2>2. Orderly(w, Off, l, u, e)
    BY <1>0, OffOrderly
  <2> HIDE DEF e
  <2> QED
    BY <1>0, <1>2, <2>1, <2>2, OthersOrderly, Zenon
<1> QED
  BY <1>1, <1>3, <1>4, <1>5, <1>6, Zenon DEF WorkerStep

\* The answer to a frame, of the frame's type.
LEMMA Replied ==
  ASSUME NEW w \in Conns, Keyed, NEW id, NEW ok \in BOOLEAN, Reply(w, id, ok), UNCHANGED <<proc, link>>
  PROVE  \E r : /\ r = [type |-> AnswerType(Head(up[w]).type), id |-> id, ok |-> ok]
                /\ OneLink(w, proc[w], link[w], Tail(up[w]),
                           IF Running(w) THEN Append(down[w], r) ELSE down[w])
<1> DEFINE r == [type |-> AnswerType(Head(up[w]).type), id |-> id, ok |-> ok]
<1>1. /\ up' = [up EXCEPT ![w] = Tail(up[w])]
      /\ down' = IF Running(w) THEN [down EXCEPT ![w] = Append(down[w], r)] ELSE down
  BY Zenon DEF Reply
<1> HIDE DEF r
<1>2. OneLink(w, proc[w], link[w], Tail(up[w]), IF Running(w) THEN Append(down[w], r) ELSE down[w])
  BY <1>1 DEF OneLink, Keyed
<1> QED
  BY <1>2, Zenon DEF r

\* dispatch(): what is served is a frame of Coordinator, or a question that changes nothing.
LEMMA ServeIsFrame ==
  ASSUME LinkInv, NEW w \in Conns, Serve(w)
  PROVE  /\ link[w] = "open" /\ conn[w].boot = w /\ up[w] # <<>>
         /\ Frame(w) \/ UNCHANGED coordVars
         /\ \E id : \E ok \in BOOLEAN : Reply(w, id, ok)
<1> DEFINE f == Head(up[w])
<1>1. conn[w].pc = "serving" /\ up[w] # <<>>
  BY DEF Serve
<1>2. link[w] = "open" /\ conn[w].boot = w
  BY <1>1 DEF LinkInv, Session, Open
<1>3. f \in Question \cup {Boot(w)}
  <2>1. up[w] \in Seq(Question \cup {Boot(w)})
    BY DEF LinkInv, Orderly
  <2> QED
    BY <1>1, <2>1, HeadTailProperties
<1>4. /\ f.type = "RESERVE" => decode_reserve(f.n) \in Requests
      /\ f.type \in {"COMMIT", "RELEASE"} => f.n \in 1..MaxReservations
  BY <1>3 DEF Question, Boot, Ask
<1> DEFINE Goal == /\ Frame(w) \/ UNCHANGED coordVars
                   /\ \E id : \E ok \in BOOLEAN : Reply(w, id, ok)
<1> SUFFICES Goal
  BY <1>1, <1>2, Zenon
<1>5. CASE ServeDevice(w)
  <2>1. publish_device(w, decode_device(Base(w))) /\ Reply(w, 0, TRUE)
    BY <1>2, <1>5, Zenon DEF ServeDevice
  <2> QED
    BY <2>1, JobAssumption, Zenon DEF Frame
<1>6. CASE ServePool(w)
  BY <1>6, JobAssumption, Zenon DEF Frame, ServePool
<1>7. CASE ServeRegion(w)
  BY <1>7, JobAssumption, Zenon DEF Frame, ServeRegion
<1>8. CASE ServeQuery(w)
  BY <1>8, Zenon DEF ServeQuery
<1>9. CASE f.type = "RESERVE" /\ ServeReserve(w, f.n)
  <2>1. Frame(w)
    BY <1>4, <1>9, Zenon DEF Frame, ServeReserve
  <2>2. \E id : Reply(w, id, sequence' # sequence)
    BY <1>9, Zenon DEF ServeReserve
  <2>3. (sequence' # sequence) \in BOOLEAN
    OBVIOUS
  <2> QED
    BY <2>1, <2>2, <2>3, Zenon
<1>10. CASE f.type = "COMMIT" /\ ServeCommit(w, f.n)
  <2>1. Frame(w)
    BY <1>4, <1>10, Zenon DEF Frame, ServeCommit
  <2>2. \E id : Reply(w, id, commit_reason(f.n, ContextOf(w)) = "OK")
    BY <1>10, Zenon DEF ServeCommit
  <2>3. (commit_reason(f.n, ContextOf(w)) = "OK") \in BOOLEAN
    BY Zenon
  <2> QED
    BY <2>1, <2>2, <2>3, Zenon
<1>11. CASE f.type = "RELEASE" /\ ServeRelease(w, f.n)
  <2>1. Frame(w)
    BY <1>4, <1>11, Zenon DEF Frame, ServeRelease
  <2>2. \E id : Reply(w, id, release_reason(f.n, ContextOf(w)) = "OK")
    BY <1>11, Zenon DEF ServeRelease
  <2>3. (release_reason(f.n, ContextOf(w)) = "OK") \in BOOLEAN
    OBVIOUS
  <2> QED
    BY <2>1, <2>2, <2>3, Zenon
<1> QED
  BY <1>5, <1>6, <1>7, <1>8, <1>9, <1>10, <1>11, Zenon DEF Serve

\* handle(): the frame read is a WORKER_BOOT, with the identity of the worker.
LEMMA AcceptIsConnect ==
  ASSUME LinkInv, NEW w \in Conns, Accept(w)
  PROVE  Connect(w, w) /\ w \in BootId \ {0}
<1>1. PICK b \in BootId : Head(up[w]) = Ask("WORKER_BOOT", b) /\ Connect(w, b)
  BY Zenon DEF Accept
<1>2. Head(up[w]) = Boot(w)
  BY AcceptOrderly DEF Accept, LinkInv
<1>3. b = w
  BY <1>1, <1>2 DEF Boot, Ask
<1> QED
  BY <1>1, <1>3, ClusterAssumption

\* The threads of the coordinator accept, serve, fence and close.
LEMMA ThreadLinks ==
  ASSUME LinkInv, NEW w \in Conns, ThreadStep(w)
  PROVE  LinkInv'
<1> DEFINE p == proc[w]
           l == link[w]
           u == up[w]
           d == down[w]
           Sessions == \A x \in Conns : Session(x)
<1>0. Keyed /\ ConnOK /\ AllOrderly /\ Sessions /\ Orderly(w, p, l, u, d)
  BY DEF LinkInv, AllOrderly
<1>1. ASSUME Keyed', AllOrderly', ConnOK', Sessions' PROVE LinkInv'
  BY <1>1 DEF LinkInv, AllOrderly
<1>2. ASSUME Frame(w) \/ Export(w) \/ Write(w) \/ Disconnect(w) \/ Fencing(w), UNCHANGED link
      PROVE  ConnOK' /\ Sessions'
  <2>1. ConnOK' /\ \A x \in Conns : conn'[x].boot = conn[x].boot /\ (Open(x) <=> Open(x)')
    BY <1>0, <1>2, StaysOpen
  <2> QED
    BY <1>0, <1>2, <2>1 DEF Session
<1>3. ASSUME NEW y, IsConn(y), Becomes(w, y), \A x \in Conns \ {w} : link'[x] = link[x],
             y.pc # "closed" => link'[w] = "open" /\ y.boot = w
      PROVE  ConnOK' /\ Sessions'
  <2>1. ConnOK' /\ conn'[w] = y /\ \A x \in Conns \ {w} : conn'[x] = conn[x]
    BY <1>0, <1>3, OneMoves
  <2>2. Session(w)'
    BY <1>3, <2>1 DEF Session, Open
  <2>3. \A x \in Conns \ {w} : Session(x)'
    BY <1>0, <1>3, <2>1 DEF Session, Open
  <2> QED
    BY <2>1, <2>2, <2>3
<1> HIDE DEF Sessions
<1>4. CASE Accept(w)
  <2>1. /\ l = "queued" /\ u # <<>> /\ link' = [link EXCEPT ![w] = "open"]
        /\ up' = [up EXCEPT ![w] = Tail(u)] /\ UNCHANGED <<proc, down>>
    BY <1>4, Zenon DEF Accept
  <2>2. OneLink(w, p, "open", Tail(u), d)
    BY <1>0, <2>1 DEF OneLink, Keyed
  <2>3. Orderly(w, p, "open", Tail(u), d)
    BY <1>0, <2>1, AcceptOrderly
  <2>4. Keyed' /\ AllOrderly'
    BY <1>0, <2>2, <2>3, OthersOrderly
  <2>5. Becomes(w, Connected(w))
    BY <1>4, AcceptIsConnect, ConnectIs
  <2>6. IsConn(Connected(w)) /\ Connected(w).boot = w
    BY ConnectedIs
  <2>7. ConnOK' /\ Sessions'
    BY <1>3, <2>2, <2>5, <2>6, Zenon DEF OneLink
  <2> QED
    BY <1>1, <2>4, <2>7
<1>5. CASE AcceptFails(w)
  <2>1. l = "queued" /\ OneLink(w, p, "closed", u, d) /\ UNCHANGED conn
    BY <1>0, <1>5 DEF AcceptFails, OneLink, Keyed, coordVars, threads
  <2>2. Orderly(w, p, "closed", u, d)
    BY <1>0, ClosedOrderly, Zenon
  <2>3. Keyed' /\ AllOrderly'
    BY <1>0, <2>1, <2>2, OthersOrderly, Zenon
  <2>4. ~Open(w)
    BY <1>0, <2>1, Zenon DEF Session, Sessions
  <2>5. ConnOK' /\ Sessions'
    BY <1>0, <2>1, <2>4, SessionsStay, Zenon DEF OneLink, Sessions
  <2> QED
    BY <1>1, <2>3, <2>5
<1>6. CASE Serve(w)
  <2>1. l = "open" /\ u # <<>> /\ (Frame(w) \/ UNCHANGED coordVars) /\ UNCHANGED <<proc, link>>
    BY <1>6, ServeIsFrame DEF Serve
  <2>2. PICK id : \E ok \in BOOLEAN : Reply(w, id, ok)
    BY <1>6, ServeIsFrame, Zenon
  <2>3. PICK ok \in BOOLEAN : Reply(w, id, ok)
    BY <2>2
  <2>4. PICK r : /\ r = [type |-> AnswerType(Head(u).type), id |-> id, ok |-> ok]
                 /\ OneLink(w, p, l, Tail(u), IF Running(w) THEN Append(d, r) ELSE d)
    BY <1>0, <2>1, <2>3, Replied, Zenon
  <2> DEFINE e == IF p.pc = "running" THEN Append(d, r) ELSE d
  <2>5. r.type = AnswerType(Head(u).type)
    BY <2>4
  <2>6. OneLink(w, p, "open", Tail(u), e)
    BY <2>1, <2>4, Zenon DEF Running
  <2>7. Orderly(w, p, "open", Tail(u), e)
    BY <1>0, <2>1, <2>5, ServeOrderly, Zenon
  <2> HIDE DEF e
  <2>8. Keyed' /\ AllOrderly'
    BY <1>0, <2>6, <2>7, OthersOrderly, Zenon
  <2>9. CASE Frame(w)
    BY <1>1, <1>2, <2>1, <2>8, <2>9, Zenon
  <2>10. CASE UNCHANGED coordVars
    <3>1. UNCHANGED conn
      BY <2>10 DEF coordVars, threads
    <3>2. ConnOK' /\ Sessions'
      BY <1>0, <2>1, <3>1, SessionsStay, Zenon DEF Sessions
    <3> QED
      BY <1>1, <2>8, <3>2
  <2> QED
    BY <2>1, <2>9, <2>10, Zenon
<1>7. CASE Inside(w) \/ Hangup(w)
  <2>1. Export(w) \/ Write(w) \/ Disconnect(w) \/ Fencing(w)
    BY <1>7, Zenon DEF Inside, Hangup
  <2>2. UNCHANGED <<proc, link, up, down>>
    BY <1>7, Zenon DEF Inside, Hangup, net
  <2>3. Keyed' /\ AllOrderly'
    BY <1>0, <2>2, Zenon DEF Keyed, AllOrderly
  <2> QED
    BY <1>1, <1>2, <2>1, <2>2, <2>3, Zenon
<1>8. CASE Close(w)
  <2>1. OneLink(w, p, "closed", <<>>, d)
    BY <1>0, <1>8 DEF Close, OneLink, Keyed
  <2>2. Orderly(w, p, "closed", <<>>, d)
    BY <1>0, ClosedOrderly, Zenon
  <2>3. Keyed' /\ AllOrderly'
    BY <1>0, <2>1, <2>2, OthersOrderly, Zenon
  <2>4. Becomes(w, Closed)
    BY <1>8, EraseIs, Zenon DEF Close
  <2>5. ConnOK' /\ Sessions'
    <3>1. IsConn(Closed) /\ Closed.pc = "closed"
      BY ClosedIs
    <3> QED
      BY <1>3, <2>1, <2>4, <3>1, Zenon DEF OneLink
  <2> QED
    BY <1>1, <2>3, <2>5
<1> QED
  BY <1>4, <1>5, <1>6, <1>7, <1>8, Zenon DEF ThreadStep

\* A new coordinator has no connections; some answers are still on their way.
LEMMA RestartLinks ==
  ASSUME LinkInv, NEW e, NEW lost, Restart(e, lost)
  PROVE  LinkInv'
<1>1. /\ link' = [w \in Conns |-> "closed"] /\ up' = [w \in Conns |-> <<>>]
      /\ down' = IF lost THEN [w \in Conns |-> <<>>] ELSE down
      /\ UNCHANGED proc /\ conn' = [c \in Conns |-> Closed]
  BY Zenon DEF Restart, Crash, Stop, Start
<1>2. Keyed'
  BY <1>1 DEF LinkInv, Keyed
<1>3. ConnOK' /\ \A x \in Conns : Session(x)'
  BY <1>1, NewProcess, ClosedIs, Zenon DEF Session, Open
<1>4. ASSUME NEW w \in Conns PROVE Orderly(w, proc[w], link[w], up[w], down[w])'
  <2>1. Orderly(w, proc[w], link[w], up[w], down[w])
    BY DEF LinkInv
  <2>2. link'[w] = "closed" /\ up'[w] = <<>> /\ proc'[w] = proc[w] /\ (down'[w] = <<>> \/ down'[w] = down[w])
    <3>1. link'[w] = "closed" /\ proc'[w] = proc[w]
      BY <1>1
    <3>2. up'[w] = <<>>
      BY <1>1, Zenon
    <3>3. down'[w] = <<>> \/ down'[w] = down[w]
      BY <1>1, Zenon
    <3> QED
      BY <3>1, <3>2, <3>3, Zenon
  <2>3. Orderly(w, proc[w], "closed", up'[w], down'[w])
    <3> DEFINE p == proc[w]
               l == link[w]
               u == up[w]
               d == down[w]
               v == up'[w]
               x == down'[w]
    <3>1. Orderly(w, p, l, u, d) /\ (v = u \/ v = <<>>) /\ (x = d \/ x = <<>>)
      BY <2>1, <2>2
    <3> HIDE DEF p, l, u, d, v, x
    <3>2. Orderly(w, p, "closed", v, x)
      BY <3>1, ClosedOrderly
    <3> QED
      BY <3>2 DEF p, v, x
  <2> QED
    BY <2>2, <2>3, Zenon
<1> QED
  BY <1>2, <1>3, <1>4 DEF LinkInv

\* The connections are in order at first and after every step.
LEMMA LinkStep ==
  /\ ClusterInit => LinkInv
  /\ LinkInv /\ [ClusterNext]_clusterVars => LinkInv'
<1>1. ASSUME ClusterInit PROVE LinkInv
  <2>1. /\ proc = [w \in Conns |-> New] /\ link = [w \in Conns |-> "closed"]
        /\ up = [w \in Conns |-> <<>>] /\ down = [w \in Conns |-> <<>>]
        /\ conn = [w \in Conns |-> Closed]
    BY <1>1, Zenon DEF ClusterInit, CoordInit
  <2>2. Keyed /\ ConnOK /\ \A w \in Conns : Session(w)
    BY <2>1, ClosedIs DEF Keyed, ConnOK, Session, Open
  <2>3. ASSUME NEW w \in Conns PROVE Orderly(w, New, "closed", <<>>, <<>>)
    BY NewIs, EmptySeq DEF Orderly
  <2> HIDE DEF New
  <2> QED
    BY <2>1, <2>2, <2>3 DEF LinkInv
<1>2. ASSUME LinkInv, [ClusterNext]_clusterVars PROVE LinkInv'
  <2>1. ASSUME NEW w \in Conns,
               (\E job \in Jobs[w] : Launch(w, job)) \/ WorkerStep(w) \/ Kill(w) \/ ThreadStep(w)
        PROVE  LinkInv'
    BY <1>2, <2>1, WorkerLinks, ThreadLinks, Zenon
  <2>2. ASSUME NEW e, NEW lost, Restart(e, lost) PROVE LinkInv'
    BY <1>2, <2>2, RestartLinks
  <2>3. CASE UNCHANGED clusterVars
    <3>1. UNCHANGED <<conn, proc, link, up, down>>
      BY <2>3, Zenon DEF clusterVars, coordVars, threads, net
    <3> QED
      BY <1>2, <3>1, Zenon DEF LinkInv, Keyed, ConnOK, Session, Open
  <2> QED
    BY <1>2, <2>1, <2>2, <2>3, Zenon DEF ClusterNext
<1> QED
  BY <1>1, <1>2

\* The answer on the wire is the answer to the request its worker waits for.
LEMMA LinksMatch ==
  ASSUME LinkInv
  PROVE  AnswersMatch
<1> SUFFICES ASSUME NEW w \in Conns, Running(w)
             PROVE  /\ Len(down[w]) <= 1
                    /\ down[w] # <<>> => /\ proc[w].awaiting
                                         /\ Head(down[w]).type = AnswerType(Head(proc[w].script).type)
  BY Zenon DEF AnswersMatch
<1>1. Orderly(w, proc[w], link[w], up[w], down[w]) /\ proc[w].pc = "running"
  BY DEF LinkInv, Running
<1>2. CASE down[w] = <<>>
  <2>1. Len(<<>>) = 0
    OBVIOUS
  <2>2. Len(down[w]) = 0
    BY <1>2, <2>1, Zenon
  <2> QED
    BY <1>2, <2>2
<1>3. CASE down[w] # <<>>
  <2>1. /\ proc[w].awaiting /\ Len(down[w]) = 1
        /\ Head(down[w]).type = AnswerType(Head(proc[w].script).type)
    BY <1>1, <1>3, OneAnswer
  <2> QED
    BY <2>1
<1> QED
  BY <1>2, <1>3

\* An answer that reaches a worker is the answer to the request it waits for, and there is
\* never more than one, however workers and coordinator are killed and started: main() of
\* worker_main.cpp may tell answers apart by their order alone.
THEOREM AnswersAlwaysMatch == ClusterSpec => []AnswersMatch
BY LinkStep, LinksMatch, PTL DEF ClusterSpec

\* The cluster uses the coordinator as Coordinator says: every step of a worker, of a
\* connection or of a thread is a step of Coordinator or changes nothing of it.
LEMMA ClusterIsCoordinator ==
  /\ ClusterInit => CoordInit
  /\ LinkInv /\ [ClusterNext]_clusterVars => [CoordNext]_coordVars
<1>1. ClusterInit => CoordInit
  BY DEF ClusterInit
<1>2. ASSUME LinkInv, [ClusterNext]_clusterVars PROVE [CoordNext]_coordVars
  <2>1. ASSUME NEW w \in Conns,
               (\E job \in Jobs[w] : Launch(w, job)) \/ WorkerStep(w) \/ Kill(w) \/ AcceptFails(w)
        PROVE  UNCHANGED coordVars
    BY <2>1, Zenon DEF Launch, WorkerStep, Send, Receive, ReceiveFails, Exit, Kill, AcceptFails
  <2>2. ASSUME NEW w \in Conns, Accept(w) PROVE CoordNext
    BY <1>2, <2>2, AcceptIsConnect, Zenon DEF CoordNext
  <2>3. ASSUME NEW w \in Conns, Serve(w) PROVE CoordNext \/ UNCHANGED coordVars
    BY <1>2, <2>3, ServeIsFrame, Zenon DEF CoordNext
  <2>4. ASSUME NEW w \in Conns, Inside(w) \/ Hangup(w) \/ Close(w) PROVE CoordNext
    BY <2>4, Zenon DEF Inside, Hangup, Close, CoordNext
  <2>5. ASSUME NEW e \in Epochs, NEW lost \in BOOLEAN, Restart(e, lost) PROVE CoordNext
    BY <2>5, Zenon DEF Restart, CoordNext
  <2>6. CASE UNCHANGED clusterVars
    BY <2>6, Zenon DEF clusterVars
  <2> QED
    BY <1>2, <2>1, <2>2, <2>3, <2>4, <2>5, <2>6, Zenon DEF ClusterNext, ThreadStep
<1> QED
  BY <1>1, <1>2, Zenon

\* The cluster implements Coordinator, whatever the workers are started with: the
\* identities and frames they send are ones the coordinator's own proofs allow for.
THEOREM ClusterRefinesCoordinator == ClusterSpec => ImplementsCoordinator
BY LinkStep, ClusterIsCoordinator, PTL DEF ClusterSpec, ImplementsCoordinator, CoordSpec

----------------------------------------------------------------------------
(* What a worker is told of its reservations *)

\* Who has fewer reservations knows of them all the same.
LEMMA ToldLess ==
  ASSUME NEW p, NEW d, NEW held, NEW less \in SUBSET held, Told(p, d, held)
  PROVE  Told(p, d, less)
BY DEF Told

\* A worker that is over knows nothing and needs to know nothing.
LEMMA OffTold ==
  ASSUME NEW d, NEW held
  PROVE  Told(Off, d, held)
BY OffIs DEF Told

\* A worker that starts has no reservations.
LEMMA LaunchTold ==
  ASSUME NEW s, NEW st
  PROVE  Told(Launched(s, st), <<>>, {})
<1> DEFINE q == Launched(s, st)
<1>1. q.pc = "running" /\ q.granted = {} /\ q.committed = {}
  BY LaunchedIs
<1> HIDE DEF q
<1>2. Told(q, <<>>, {})
  BY <1>1 DEF Told
<1> QED
  BY <1>2 DEF q

\* A worker sends, or goes on without an answer to anything but a reservation.
LEMMA QuietTold ==
  ASSUME NEW p, NEW q, NEW d, NEW held, Told(p, d, held), p.pc = "running", q.pc = "running",
         d = <<>> \/ Head(p.script).type # "RESERVE",
         q.granted = p.granted, q.committed = p.committed
  PROVE  Told(q, <<>>, held)
<1>1. \A i \in held : i \in p.granted
  BY DEF Told, Promised
<1> QED
  BY <1>1 DEF Told

\* A worker learns that it has a reservation.
LEMMA GrantTold ==
  ASSUME NEW p, NEW q, NEW d, NEW held, Told(p, d, held), p.pc = "running", q.pc = "running",
         d # <<>>, q.granted = p.granted \cup {Head(d).id}, q.committed = p.committed
  PROVE  Told(q, <<>>, held)
<1>1. \A i \in held : i \in q.granted
  BY DEF Told, Promised
<1>2. q.committed \subseteq q.granted
  BY DEF Told
<1> QED
  BY <1>1, <1>2 DEF Told

\* A worker learns that its commit succeeded.
LEMMA CommitTold ==
  ASSUME NEW p, NEW q, NEW d, NEW held, Told(p, d, held), p.pc = "running", q.pc = "running",
         d # <<>>, Head(p.script).type = "COMMIT", Head(d).ok,
         q.committed = p.committed \cup {Head(d).id}, q.granted = p.granted
  PROVE  Told(q, <<>>, held)
<1>1. \A i \in held : i \in q.granted
  BY DEF Told, Promised
<1>2. q.committed \subseteq q.granted
  BY DEF Told
<1> QED
  BY <1>1, <1>2 DEF Told

\* A worker learns that it has no reservation.
LEMMA RefusalTold ==
  ASSUME NEW p, NEW q, NEW d, NEW held, Told(p, d, held), p.pc = "running", q.pc = "running",
         d # <<>>, Head(p.script).type # "RESERVE" \/ ~Head(d).ok,
         q.committed = p.committed, q.granted = p.granted
  PROVE  Told(q, <<>>, held)
<1>1. \A i \in held : i \in q.granted
  BY DEF Told, Promised
<1> QED
  BY <1>1 DEF Told

\* Take(): whatever the answer, the worker knows of its reservations.
LEMMA TakenTold ==
  ASSUME NEW w, NEW l, NEW u, NEW d, NEW held, Orderly(w, proc[w], l, u, d),
         Told(proc[w], d, held), proc[w].pc = "running", d # <<>>
  PROVE  Told(Take(w, Head(proc[w].script), Head(d)), <<>>, held)
<1> DEFINE p == proc[w]
           f == Head(p.script)
           r == Head(d)
           a == Answered(w)
           g == AtGranted(a, p.granted \cup {r.id})
           m == AtCommitted(a, p.committed \cup {r.id})
           t == Take(w, f, r)
<1>1. IsWorker(p) /\ r.type = AnswerType(f.type)
  BY OneAnswer DEF Orderly
<1>2. f.type = "RESERVE" => r.type = "RESERVE_RESULT"
  BY <1>1 DEF AnswerType
<1>3. IsWorker(a) /\ a.pc = "running" /\ a.granted = p.granted /\ a.committed = p.committed
  BY <1>1, AnsweredIs
<1>4. \/ t = Off
      \/ t = g
      \/ t = m /\ f.type = "COMMIT" /\ r.ok
      \/ t = a /\ (f.type # "RESERVE" \/ ~r.ok)
  BY <1>2, Zenon DEF Take, AtGranted, AtCommitted
<1> HIDE DEF a
<1>5. g.pc = "running" /\ g.granted = p.granted \cup {r.id} /\ g.committed = p.committed
  BY <1>3, GrantsMove
<1>6. m.pc = "running" /\ m.committed = p.committed \cup {r.id} /\ m.granted = p.granted
  BY <1>3, CommitsMove
<1>7. Told(p, d, held) /\ p.pc = "running"
  OBVIOUS
<1> HIDE DEF p, g, m, t
<1>8. Told(Off, <<>>, held)
  BY OffTold
<1>9. Told(g, <<>>, held)
  BY <1>5, <1>7, GrantTold, Zenon
<1>10. f.type = "COMMIT" /\ r.ok => Told(m, <<>>, held)
  BY <1>6, <1>7, CommitTold, Zenon
<1>11. f.type # "RESERVE" \/ ~r.ok => Told(a, <<>>, held)
  BY <1>3, <1>7, RefusalTold
<1>12. Told(t, <<>>, held)
  BY <1>4, <1>8, <1>9, <1>10, <1>11, Zenon
<1> QED
  BY <1>12 DEF t, p

\* dispatch(): an answer to a running worker that waits for it.
LEMMA AnswerTold ==
  ASSUME NEW p, NEW r, NEW held, NEW more, Told(p, <<>>, held), p.pc = "running",
         \A i \in more : i \in held \/ (Head(p.script).type = "RESERVE" /\ r.ok /\ r.id = i),
         Head(p.script).type = "COMMIT" /\ r.ok => r.id \in held
  PROVE  Told(p, <<r>>, more)
<1>1. \A i \in held : i \in p.granted
  BY DEF Told, Promised
<1>2. <<r>> # <<>> /\ Head(<<r>>) = r
  BY TupleFacts
<1> DEFINE d == <<r>>
<1>3. d # <<>> /\ Head(d) = r
  BY <1>2
<1> HIDE DEF d
<1>4. Told(p, d, more)
  BY <1>1, <1>3 DEF Told, Promised
<1> QED
  BY <1>4 DEF d

----------------------------------------------------------------------------
(* Whose the reservations are *)

\* No reservation is made, and none changes hands.
Kept == Owned' /\ UNCHANGED sequence /\ \A x : Holds(x)' \subseteq Holds(x)

\* The map of reservations is left alone.
LEMMA UntouchedKept ==
  ASSUME Owned, UNCHANGED <<reservations, sequence>>
  PROVE  Kept
BY DEF Kept, Owned, Holds

\* A reservation changes its state.
LEMMA StateKept ==
  ASSUME Owned, UNCHANGED sequence, NEW id, NEW s,
         reservations' = [reservations EXCEPT ![id] = [@ EXCEPT !.state = s]]
  PROVE  Kept
<1>1. DOMAIN reservations' = DOMAIN reservations
  OBVIOUS
<1>2. ASSUME NEW i \in DOMAIN reservations
      PROVE  /\ "worker_boot_id" \in DOMAIN reservations'[i]
             /\ reservations'[i].worker_boot_id = reservations[i].worker_boot_id
  <2>1. "worker_boot_id" \in DOMAIN reservations[i]
    BY DEF Owned
  <2>2. CASE i = id
    <3> DEFINE r == reservations[i]
    <3>1. reservations'[i] = [r EXCEPT !.state = s]
      BY <2>2
    <3> HIDE DEF r
    <3>2. LET q == [r EXCEPT !.state = s]
          IN  DOMAIN q = DOMAIN r /\ ("worker_boot_id" \in DOMAIN r => q.worker_boot_id = r.worker_boot_id)
      OBVIOUS
    <3>3. "worker_boot_id" \in DOMAIN r
      BY <2>1 DEF r
    <3>4. "worker_boot_id" \in DOMAIN reservations'[i] /\ reservations'[i].worker_boot_id = r.worker_boot_id
      BY <3>1, <3>2, <3>3
    <3> QED
      BY <3>4 DEF r
  <2>3. CASE i # id
    <3>1. reservations'[i] = reservations[i]
      BY <2>3
    <3> QED
      BY <2>1, <3>1
  <2> QED
    BY <2>2, <2>3
<1> QED
  BY <1>1, <1>2 DEF Kept, Owned, Holds

\* The frames about devices, pools and regions, and all that threads do without a frame.
LEMMA ThreadsKeep ==
  ASSUME Owned, NEW w, NEW x,
         \/ publish_device(w, x) \/ publish_pool(w, x) \/ publish_region(w, x)
         \/ Connect(w, x) \/ Export(w) \/ Write(w) \/ Disconnect(w) \/ Fencing(w) \/ Erase(w)
         \/ UNCHANGED coordVars
  PROVE  Kept
<1>1. CASE publish_device(w, x)
  BY <1>1, UntouchedKept, Zenon DEF publish_device, register_device, grants, vars
<1>2. CASE publish_pool(w, x)
  BY <1>2, UntouchedKept DEF publish_pool, create_pool, revalidate_pool, grants
<1>3. CASE publish_region(w, x)
  BY <1>3, UntouchedKept DEF publish_region, create_region, revalidate_region, grants
<1>4. CASE Connect(w, x) \/ Export(w) \/ Write(w) \/ Disconnect(w) \/ Erase(w)
  <2>1. UNCHANGED vars
    BY <1>4, Zenon DEF Connect, Export, Write, Disconnect, Erase
  <2> QED
    BY <2>1, UntouchedKept DEF vars
<1>5. CASE Fencing(w)
  <2>1. CASE Fenced(w)
    BY <2>1, UntouchedKept DEF Fenced, vars
  <2>2. ASSUME NEW d, Fence(w, d) PROVE Kept
    BY <2>2, UntouchedKept DEF Fence, mark_device_revalidation, MarkDevice, grants, vars
  <2> QED
    BY <1>5, <2>1, <2>2, Zenon DEF Fencing
<1>6. CASE UNCHANGED coordVars
  BY <1>6, UntouchedKept DEF coordVars, vars
<1> QED
  BY <1>1, <1>2, <1>3, <1>4, <1>5, <1>6, Zenon

\* commit() and release() change the state of a reservation, or nothing.
LEMMA FramesKeep ==
  ASSUME Owned, NEW w, NEW id, commit_frame(w, id) \/ release_frame(w, id)
  PROVE  Kept
<1>1. CASE UNCHANGED vars
  BY <1>1, UntouchedKept DEF vars
<1>2. ASSUME NEW ctx, commit(id, ctx) PROVE Kept
  <2>1. UNCHANGED sequence /\ reservations' = [reservations EXCEPT ![id] = [@ EXCEPT !.state = "COMMITTED"]]
    BY <1>2, Zenon DEF commit
  <2> QED
    BY <2>1, StateKept, Zenon
<1>3. ASSUME NEW ctx, release(id, ctx) PROVE Kept
  <2>1. /\ UNCHANGED sequence
        /\ \/ UNCHANGED reservations
           \/ reservations' = [reservations EXCEPT ![id] = [@ EXCEPT !.state = "RELEASED"]]
    BY <1>3, Zenon DEF release
  <2>2. CASE UNCHANGED reservations
    BY <2>1, <2>2, UntouchedKept
  <2>3. CASE reservations' = [reservations EXCEPT ![id] = [@ EXCEPT !.state = "RELEASED"]]
    BY <2>1, <2>3, StateKept, Zenon
  <2> QED
    BY <2>1, <2>2, <2>3
<1> QED
  BY <1>1, <1>2, <1>3, Zenon DEF commit_frame, release_frame

\* A thread calls the engine under the boot identity of its connection.
LEMMA ContextBoot ==
  ASSUME NEW w
  PROVE  ContextOf(w).worker_boot_id = conn[w].boot
BY DEF ContextOf

\* reserve() makes one reservation, for the worker that asks, or changes nothing.
LEMMA ReserveMakes ==
  ASSUME Owned, sequence \in Nat, NEW w, NEW b, b = conn[w].boot, NEW req,
         reserve_frame(w, req)
  PROVE  \/ Kept
         \/ /\ Owned' /\ sequence' = sequence + 1
            /\ Holds(b)' \subseteq Holds(b) \cup {sequence'}
            /\ \A x : x # b => Holds(x)' \subseteq Holds(x)
<1>1. CASE UNCHANGED vars
  BY <1>1, UntouchedKept DEF vars
<1>2. CASE reserve(req, ContextOf(w))
  <2>1. PICK c : ReserveOn(c, req, ContextOf(w))
    BY <1>2, Zenon DEF reserve
  <2>2. ContextOf(w).worker_boot_id = b
    BY ContextBoot, Zenon
  <2> DEFINE n == sequence + 1
  <2>3. PICK r : /\ "worker_boot_id" \in DOMAIN r /\ r.worker_boot_id = b
                 /\ reservations' = Put(reservations, n, r) /\ sequence' = n
    BY <2>1, <2>2 DEF ReserveOn
  <2> HIDE DEF n
  <2>4. /\ DOMAIN reservations' = DOMAIN reservations \cup {n} /\ reservations'[n] = r
        /\ \A i \in DOMAIN reservations : i # n => reservations'[i] = reservations[i]
    BY <2>3 DEF Put
  <2>5. Owned'
    BY <2>3, <2>4 DEF Owned
  <2>6. Holds(b)' \subseteq Holds(b) \cup {n}
    BY <2>4 DEF Holds
  <2>7. \A x : x # b => Holds(x)' \subseteq Holds(x)
    BY <2>3, <2>4 DEF Holds
  <2> QED
    BY <2>3, <2>5, <2>6, <2>7, Zenon DEF n
<1> QED
  BY <1>1, <1>2, Zenon DEF reserve_frame

\* commit() succeeds only for the worker the reservation was made for.
LEMMA CommitIsOwn ==
  ASSUME NEW w, conn[w].boot = w, w # 0, NEW id, commit_reason(id, ContextOf(w)) = "OK"
  PROVE  id \in Holds(w)
<1>1. ContextOf(w).worker_boot_id = w
  BY DEF ContextOf
<1>2. id \in DOMAIN reservations /\ ~CommitStale(reservations[id], ContextOf(w))
  BY DEF commit_reason
<1>3. reservations[id].worker_boot_id = w
  BY <1>1, <1>2 DEF CommitStale
<1> QED
  BY <1>2, <1>3 DEF Holds

----------------------------------------------------------------------------
(* The steps of the cluster *)

\* The process of w and the answers to it change, and none of the others.
OneWorker(w, p, d) ==
  proc'[w] = p /\ down'[w] = d /\ \A x \in Conns \ {w} : proc'[x] = proc[x] /\ down'[x] = down[x]

\* If the worker that changes knows of its reservations, all do.
LEMMA OthersTold ==
  ASSUME AllTold, NEW w \in Conns, NEW p, NEW d, OneWorker(w, p, d), NEW held,
         Told(p, d, held), Holds(w)' \subseteq held,
         \A x \in Conns \ {w} : Holds(x)' \subseteq Holds(x)
  PROVE  AllTold'
<1>1. Told(proc'[w], down'[w], Holds(w)')
  BY ToldLess DEF OneWorker
<1>2. ASSUME NEW x \in Conns \ {w} PROVE Told(proc'[x], down'[x], Holds(x)')
  <2>1. Told(proc[x], down[x], Holds(x))
    BY DEF AllTold
  <2>2. Told(proc[x], down[x], Holds(x)')
    BY <2>1, ToldLess
  <2> QED
    BY <2>2 DEF OneWorker
<1>3. \A x \in Conns : Told(proc'[x], down'[x], Holds(x)')
  BY <1>1, <1>2
<1> QED
  BY <1>3, Zenon DEF AllTold

\* Worker processes start, send, receive and end.
LEMMA WorkerTold ==
  ASSUME LinkInv, GrantInv, NEW w \in Conns,
         (\E job \in Jobs[w] : Launch(w, job)) \/ WorkerStep(w) \/ Kill(w)
  PROVE  GrantInv'
<1> DEFINE p == proc[w]
           d == down[w]
           held == Holds(w)
<1>0. /\ Keyed /\ Orderly(w, p, link[w], up[w], d) /\ Told(p, d, held)
      /\ sequence \in Nat /\ Owned /\ AllTold
  BY DEF LinkInv, GrantInv, AllTold
<1>1. UNCHANGED coordVars
  BY Zenon DEF Launch, WorkerStep, Send, Receive, ReceiveFails, Exit, Kill
<1>2. Kept
  BY <1>0, <1>1, ThreadsKeep, Zenon
<1>3. ASSUME NEW q, NEW e, OneWorker(w, q, e), Told(q, e, held) PROVE GrantInv'
  <2>1. AllTold'
    BY <1>0, <1>2, <1>3, OthersTold, Zenon DEF Kept
  <2> QED
    BY <1>0, <1>2, <2>1 DEF GrantInv, Kept
<1>4. CASE \E job \in Jobs[w] : Launch(w, job)
  <2>1. PICK job \in Jobs[w] : Launch(w, job)
    BY <1>4, Zenon
  <2> DEFINE q == Launched(Script(job, w), job.stay)
  <2>2. p.pc = "new" /\ proc' = [proc EXCEPT ![w] = q] /\ UNCHANGED down
    BY <2>1, Zenon DEF Launch, Launched
  <2>3. d = <<>> /\ held = {}
    BY <1>0, <2>2, Zenon DEF Orderly, Told
  <2>4. Told(q, <<>>, {})
    BY LaunchTold
  <2> HIDE DEF q
  <2>5. OneWorker(w, q, <<>>)
    BY <1>0, <2>2, <2>3 DEF OneWorker, Keyed
  <2> QED
    BY <1>3, <2>3, <2>4, <2>5, Zenon
<1>5. CASE Send(w)
  <2> DEFINE q == IF Head(p.script).type = "WORKER_BOOT" THEN AtScript(p, Tail(p.script))
                  ELSE AtAwaiting(p, TRUE)
  <2>1. p.pc = "running" /\ ~p.awaiting /\ proc' = [proc EXCEPT ![w] = q] /\ UNCHANGED down
    BY <1>5, Zenon DEF Send, Running, AtScript, AtAwaiting
  <2>2. d = <<>>
    BY <1>0, <2>1, OneAnswer
  <2>3. IsWorker(p)
    BY <1>0, Zenon DEF Orderly
  <2>4. q.pc = p.pc /\ q.granted = p.granted /\ q.committed = p.committed
    <3>1. LET s == AtScript(p, Tail(p.script))
          IN  s.pc = p.pc /\ s.granted = p.granted /\ s.committed = p.committed
      BY <2>3, ScriptMoves
    <3>2. LET s == AtAwaiting(p, TRUE)
          IN  s.pc = p.pc /\ s.granted = p.granted /\ s.committed = p.committed
      BY <2>3, WaitMoves, Zenon
    <3> QED
      BY <3>1, <3>2, Zenon
  <2> HIDE DEF q
  <2>5. OneWorker(w, q, <<>>)
    BY <1>0, <2>1, <2>2, Zenon DEF OneWorker, Keyed
  <2>6. Told(q, <<>>, held)
    BY <1>0, <2>1, <2>2, <2>4, QuietTold, Zenon
  <2> QED
    BY <1>3, <2>5, <2>6
<1>6. CASE Receive(w)
  <2> DEFINE q == Take(w, Head(p.script), Head(d))
  <2>1. /\ p.pc = "running" /\ d # <<>> /\ proc' = [proc EXCEPT ![w] = q]
        /\ down' = [down EXCEPT ![w] = Tail(d)]
    BY <1>6, Zenon DEF Receive, Running
  <2>2. Tail(d) = <<>>
    BY <1>0, <2>1, NoneLeft, Zenon
  <2>3. Told(q, <<>>, held)
    BY <1>0, <2>1, TakenTold, Zenon
  <2> HIDE DEF q
  <2>4. OneWorker(w, q, <<>>)
    BY <1>0, <2>1, <2>2, Zenon DEF OneWorker, Keyed
  <2> QED
    BY <1>3, <2>3, <2>4
<1>7. CASE ReceiveFails(w)
  <2> DEFINE q == IF Head(p.script).type \in {"PUBLISH_DEVICE", "RESERVE"} THEN Off ELSE Answered(w)
             e == Only(d # <<>>, Tail(d))
  <2>1. p.pc = "running" /\ proc' = [proc EXCEPT ![w] = q] /\ down' = [down EXCEPT ![w] = e]
    BY <1>7, Zenon DEF ReceiveFails, Running
  <2>2. e = <<>>
    BY <1>0, <2>1, NoneLeft, Zenon
  <2>3. IsWorker(p)
    BY <1>0, Zenon DEF Orderly
  <2>4. Told(q, <<>>, held)
    <3>1. CASE Head(p.script).type \in {"PUBLISH_DEVICE", "RESERVE"}
      BY <3>1, OffTold, Zenon
    <3>2. CASE Head(p.script).type \notin {"PUBLISH_DEVICE", "RESERVE"}
      <4>1. /\ Answered(w).pc = "running" /\ Answered(w).granted = p.granted
            /\ Answered(w).committed = p.committed
        BY <2>1, <2>3, AnsweredIs, Zenon
      <4>2. Told(Answered(w), <<>>, held)
        BY <1>0, <2>1, <3>2, <4>1, QuietTold, Zenon
      <4> QED
        BY <3>2, <4>2, Zenon
    <3> QED
      BY <3>1, <3>2, Zenon
  <2> HIDE DEF q, e
  <2>5. OneWorker(w, q, <<>>)
    BY <1>0, <2>1, <2>2, Zenon DEF OneWorker, Keyed
  <2> QED
    BY <1>3, <2>4, <2>5
<1>8. CASE Exit(w) \/ Kill(w)
  <2> DEFINE e == down'[w]
  <2>1. OneWorker(w, Off, e)
    BY <1>0, <1>8 DEF Exit, Kill, OneWorker, Keyed, net
  <2>2. Told(Off, e, held)
    BY OffTold
  <2> HIDE DEF e
  <2> QED
    BY <1>3, <2>1, <2>2, Zenon
<1> QED
  BY <1>4, <1>5, <1>6, <1>7, <1>8, Zenon DEF WorkerStep

\* A running worker whose request is still to be served has no answer on its way, and the
\* request is the one it waits for.
LEMMA WaitsAlone ==
  ASSUME NEW w, NEW p, NEW u, NEW d, Orderly(w, p, "open", u, d), u # <<>>, p.pc = "running"
  PROVE  d = <<>> /\ Head(u) = Head(p.script)
<1>1. Talking(w, p, "open", u, d)
  BY DEF Orderly, Silent
<1>2. d = <<>> /\ u = <<Head(p.script)>>
  BY <1>1 DEF Talking
<1> QED
  BY <1>2, TupleFacts, Zenon

\* dispatch(): the answer says what became of the reservation.
LEMMA ServeTold ==
  ASSUME LinkInv, GrantInv, NEW w \in Conns, Serve(w)
  PROVE  GrantInv'
<1> DEFINE p == proc[w]
           u == up[w]
           d == down[w]
           f == Head(u)
           held == Holds(w)
<1>0. /\ Keyed /\ Orderly(w, p, link[w], u, d) /\ Told(p, d, held)
      /\ sequence \in Nat /\ Owned /\ AllTold
  BY DEF LinkInv, GrantInv, AllTold
<1>1. link[w] = "open" /\ conn[w].boot = w /\ u # <<>> /\ UNCHANGED <<proc, link>>
  BY ServeIsFrame DEF Serve
<1>2. w # 0
  BY ClusterAssumption
<1>3. p.pc # "new"
  BY <1>0, <1>1, Zenon DEF Orderly
<1>4. p.pc = "running" => d = <<>> /\ f = Head(p.script)
  BY <1>0, <1>1, WaitsAlone
\* An answer r, when w is left with the reservations in more.
<1>5. ASSUME NEW r, NEW more,
             OneLink(w, p, link[w], Tail(u), IF Running(w) THEN Append(d, r) ELSE d),
             Owned', sequence' \in Nat, Holds(w)' \subseteq more,
             \A x \in Conns \ {w} : Holds(x)' \subseteq Holds(x),
             \A i \in more : i \in held \/ (f.type = "RESERVE" /\ r.ok /\ r.id = i),
             f.type = "COMMIT" /\ r.ok => r.id \in held
      PROVE  GrantInv'
  <2>1. CASE p.pc = "running"
    <3>1. OneWorker(w, p, Append(d, r))
      BY <1>5, <2>1 DEF OneLink, OneWorker, Running
    <3>2. Append(d, r) = <<r>>
      BY <1>4, <2>1, TupleFacts, Zenon
    <3>3. Told(p, <<>>, held)
      BY <1>0, <1>4, <2>1, Zenon
    <3>4. Told(p, <<r>>, more)
      BY <1>4, <1>5, <2>1, <3>3, AnswerTold, Zenon
    <3>5. OneWorker(w, p, <<r>>)
      BY <3>1, <3>2, Zenon
    <3>6. AllTold'
      BY <1>0, <1>5, <3>4, <3>5, OthersTold, Zenon
    <3> QED
      BY <1>5, <3>6, Zenon DEF GrantInv
  <2>2. CASE p.pc # "running"
    <3>1. OneWorker(w, p, d)
      BY <1>5, <2>2, Zenon DEF OneLink, OneWorker, Running
    <3>2. Told(p, d, more)
      BY <1>0, <1>3, <2>2, Zenon DEF Told
    <3>3. AllTold'
      BY <1>0, <1>5, <3>1, <3>2, OthersTold, Zenon
    <3> QED
      BY <1>5, <3>3 DEF GrantInv
  <2> QED
    BY <2>1, <2>2
<1>6. ASSUME Kept, NEW id, NEW ok \in BOOLEAN, Reply(w, id, ok), f.type = "COMMIT" /\ ok => id \in held
      PROVE  GrantInv'
  <2>1. PICK r : /\ r = [type |-> AnswerType(f.type), id |-> id, ok |-> ok]
                 /\ OneLink(w, p, link[w], Tail(u), IF Running(w) THEN Append(d, r) ELSE d)
    BY <1>0, <1>1, <1>6, Replied, Zenon
  <2>2. r.id = id /\ (r.ok <=> ok)
    BY <2>1
  <2>3. /\ Owned' /\ sequence' \in Nat /\ Holds(w)' \subseteq held
        /\ \A x \in Conns \ {w} : Holds(x)' \subseteq Holds(x)
    BY <1>0, <1>6 DEF Kept
  <2>4. f.type = "COMMIT" /\ r.ok => r.id \in held
    BY <1>6, <2>2
  <2> HIDE DEF f, held
  <2> QED
    BY <1>5, <2>1, <2>3, <2>4, Zenon
<1>7. CASE f.type \notin {"RESERVE", "COMMIT", "RELEASE"}
  <2>1. /\ \E x : publish_device(w, x) \/ publish_pool(w, x) \/ publish_region(w, x) \/ UNCHANGED coordVars
        /\ Reply(w, 0, TRUE)
    BY <1>7, Zenon DEF Serve, ServeDevice, ServePool, ServeRegion, ServeQuery
  <2>2. Kept
    BY <1>0, <2>1, ThreadsKeep, Zenon
  <2> QED
    BY <1>6, <1>7, <2>1, <2>2, Zenon
<1>8. CASE f.type = "COMMIT"
  <2> DEFINE ok == commit_reason(f.n, ContextOf(w)) = "OK"
  <2>1. commit_frame(w, f.n) /\ Reply(w, f.n, ok)
    BY <1>8 DEF Serve, ServeCommit
  <2>2. Kept
    BY <1>0, <2>1, FramesKeep, Zenon
  <2>3. ok => f.n \in held
    BY <1>1, <1>2, CommitIsOwn, Zenon
  <2>4. ok \in BOOLEAN
    OBVIOUS
  <2> HIDE DEF ok
  <2> QED
    BY <1>6, <2>1, <2>2, <2>3, <2>4, Zenon
<1>9. CASE f.type = "RELEASE"
  <2> DEFINE ok == release_reason(f.n, ContextOf(w)) = "OK"
  <2>1. release_frame(w, f.n) /\ Reply(w, f.n, ok)
    BY <1>9 DEF Serve, ServeRelease
  <2>2. Kept
    BY <1>0, <2>1, FramesKeep, Zenon
  <2>3. ok \in BOOLEAN
    OBVIOUS
  <2> HIDE DEF ok
  <2> QED
    BY <1>6, <1>9, <2>1, <2>2, <2>3, Zenon
<1>10. CASE f.type = "RESERVE"
  <2> DEFINE ok == sequence' # sequence
             id == IF ok THEN sequence' ELSE 0
  <2>1. reserve_frame(w, decode_reserve(f.n)) /\ Reply(w, id, ok)
    BY <1>10 DEF Serve, ServeReserve
  <2>2. ok \in BOOLEAN
    OBVIOUS
  <2>3. CASE Kept
    <3> HIDE DEF id, ok
    <3> QED
      BY <1>6, <1>10, <2>1, <2>2, <2>3, Zenon
  <2>4. CASE /\ Owned' /\ sequence' = sequence + 1 /\ Holds(w)' \subseteq held \cup {sequence'}
             /\ \A x : x # w => Holds(x)' \subseteq Holds(x)
    <3>1. ok /\ id = sequence' /\ sequence' \in Nat
      BY <1>0, <2>4
    <3> HIDE DEF id, ok
    <3>2. PICK r : /\ r = [type |-> AnswerType(f.type), id |-> id, ok |-> ok]
                   /\ OneLink(w, p, link[w], Tail(u), IF Running(w) THEN Append(d, r) ELSE d)
      BY <1>0, <1>1, <2>1, <2>2, Replied, Zenon
    <3>3. r.id = id /\ r.ok
      BY <3>1, <3>2, Zenon
    <3> DEFINE more == held \cup {sequence'}
    <3>4. \A i \in more : i \in held \/ (f.type = "RESERVE" /\ r.ok /\ r.id = i)
      BY <1>10, <3>1, <3>3, Zenon
    <3>5. Holds(w)' \subseteq more /\ \A x \in Conns \ {w} : Holds(x)' \subseteq Holds(x)
      BY <2>4
    <3>6. Owned' /\ sequence' \in Nat /\ f.type # "COMMIT"
      BY <1>10, <2>4, <3>1
    <3> HIDE DEF more, held, f
    <3> QED
      BY <1>5, <3>2, <3>4, <3>5, <3>6, Zenon
  <2> QED
    BY <1>0, <1>1, <2>1, <2>3, <2>4, ReserveMakes, Zenon
<1> QED
  BY <1>7, <1>8, <1>9, <1>10, Zenon

\* The other steps of the threads make no reservation and send nothing.
LEMMA ThreadTold ==
  ASSUME LinkInv, GrantInv, NEW w \in Conns, ThreadStep(w)
  PROVE  GrantInv'
<1>1. CASE Serve(w)
  BY <1>1, ServeTold
<1>2. CASE Accept(w) \/ AcceptFails(w) \/ Inside(w) \/ Hangup(w) \/ Close(w)
  <2>1. UNCHANGED <<proc, down>>
    BY <1>2, Zenon DEF Accept, AcceptFails, Inside, Hangup, Close, net
  <2>2. \E x : \/ Connect(w, x) \/ Export(w) \/ Write(w) \/ Disconnect(w) \/ Fencing(w) \/ Erase(w)
               \/ UNCHANGED coordVars
    BY <1>2, Zenon DEF Accept, AcceptFails, Inside, Hangup, Close
  <2>3. Kept
    BY <2>2, ThreadsKeep, Zenon DEF GrantInv
  <2>4. ASSUME NEW x \in Conns PROVE Told(proc'[x], down'[x], Holds(x)')
    <3>1. Told(proc[x], down[x], Holds(x)) /\ Holds(x)' \subseteq Holds(x)
      BY <2>3 DEF GrantInv, AllTold, Kept
    <3>2. Told(proc[x], down[x], Holds(x)')
      BY <3>1, ToldLess
    <3> QED
      BY <2>1, <3>2, Zenon
  <2>5. AllTold'
    BY <2>4, Zenon DEF AllTold
  <2> QED
    BY <2>3, <2>5 DEF GrantInv, Kept
<1> QED
  BY <1>1, <1>2, Zenon DEF ThreadStep

\* A new coordinator has no reservations.
LEMMA RestartTold ==
  ASSUME GrantInv, NEW e, NEW lost, Restart(e, lost)
  PROVE  GrantInv'
<1>1. /\ reservations' = EmptyMap /\ sequence' = 0 /\ UNCHANGED proc
      /\ down' = IF lost THEN [w \in Conns |-> <<>>] ELSE down
  BY Zenon DEF Restart, Crash, Stop, Start, StartFabric, import_persisted
<1>2. Owned' /\ \A x : Holds(x)' = {}
  BY <1>1 DEF EmptyMap, Owned, Holds
<1>3. ASSUME NEW x \in Conns PROVE Told(proc'[x], down'[x], Holds(x)')
  <2>1. Told(proc[x], down[x], Holds(x))
    BY DEF GrantInv, AllTold
  <2>2. Told(proc[x], down[x], {}) /\ Told(proc[x], <<>>, {})
    BY <2>1 DEF Told
  <2>3. proc'[x] = proc[x] /\ (down'[x] = <<>> \/ down'[x] = down[x])
    BY <1>1, Zenon
  <2> QED
    BY <1>2, <2>2, <2>3, Zenon
<1>4. AllTold'
  BY <1>3, Zenon DEF AllTold
<1> QED
  BY <1>1, <1>2, <1>4 DEF GrantInv

\* Workers know of their reservations at first and after every step.
LEMMA GrantStep ==
  /\ ClusterInit => GrantInv
  /\ LinkInv /\ GrantInv /\ [ClusterNext]_clusterVars => GrantInv'
<1>1. ASSUME ClusterInit PROVE GrantInv
  <2>1. /\ reservations = EmptyMap /\ sequence = 0
        /\ proc = [w \in Conns |-> New] /\ down = [w \in Conns |-> <<>>]
    BY <1>1, Zenon DEF ClusterInit, CoordInit, Init
  <2>2. sequence \in Nat /\ Owned /\ \A x : Holds(x) = {}
    BY <2>1 DEF EmptyMap, Owned, Holds
  <2>3. Told(New, <<>>, {})
    BY NewIs DEF Told
  <2> HIDE DEF New
  <2>4. AllTold
    BY <2>1, <2>2, <2>3 DEF AllTold
  <2> QED
    BY <2>2, <2>4 DEF GrantInv
<1>2. ASSUME LinkInv, GrantInv, [ClusterNext]_clusterVars PROVE GrantInv'
  <2>1. ASSUME NEW w \in Conns,
               (\E job \in Jobs[w] : Launch(w, job)) \/ WorkerStep(w) \/ Kill(w) \/ ThreadStep(w)
        PROVE  GrantInv'
    BY <1>2, <2>1, WorkerTold, ThreadTold, Zenon
  <2>2. ASSUME NEW e, NEW lost, Restart(e, lost) PROVE GrantInv'
    BY <1>2, <2>2, RestartTold
  <2>3. CASE UNCHANGED clusterVars
    <3>1. UNCHANGED <<reservations, sequence, proc, down>>
      BY <2>3, Zenon DEF clusterVars, coordVars, vars, net
    <3> QED
      BY <1>2, <3>1, Zenon DEF GrantInv, Owned, AllTold, Holds
  <2> QED
    BY <1>2, <2>1, <2>2, <2>3, Zenon DEF ClusterNext
<1> QED
  BY <1>1, <1>2

\* A worker that is told its commit succeeded was told before, by the same coordinator, that
\* this reservation is its own: commit() never hands it the reservation of another worker,
\* although every coordinator numbers its reservations from 1.
THEOREM CommitsOwnGrants == ClusterSpec => []CommitsOwnGrant
<1>1. GrantInv => CommitsOwnGrant
  BY DEF GrantInv, AllTold, Told, CommitsOwnGrant
<1> QED
  BY <1>1, LinkStep, GrantStep, PTL DEF ClusterSpec

=============================================================================
