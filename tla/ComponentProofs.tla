--------------------------- MODULE ComponentProofs ---------------------------
(***************************************************************************)
(* Proofs about the three components that stand beside the engine and do   *)
(* not read its state: CapacityLine, PersistFile and Framing.              *)
(***************************************************************************)
EXTENDS CapacityLine, PersistFile, Framing, SequenceTheorems, WellFoundedInduction, TLAPS

----------------------------------------------------------------------------
(***************************************************************************)
(* Proofs about CapacityLine, for lines of any size and any byte width.    *)
(* UseWithinOnline together with the types is inductive; it also keeps     *)
(* every sum of the line below MaxBytes, so that no addition wraps and     *)
(* the last check of commit() never fails.                                 *)
(***************************************************************************)

LineInv == TypeOK /\ UseWithinOnline

\* Sums of the line do not wrap: free is what its definition says on the integers.
LEMMA NoWrap ==
  ASSUME LineInv
  PROVE  /\ Used = unavailable + reserved + committed + draining
         /\ free \in Nat
         /\ Used < online => free = online - Used
         /\ Used >= online => free = 0
<1>1. online + DrainBound <= MaxBytes
  BY SizesAssumption DEF LineInv, TypeOK
<1>2. online \in Nat /\ MaxBytes \in Nat /\ DrainBound \in Nat
  BY SizesAssumption, MaxBytesAssumption, DrainAssumption DEF LineInv, TypeOK
<1>3. Used = unavailable + reserved + committed + draining
  BY <1>1, <1>2 DEF LineInv, TypeOK, UseWithinOnline, Used, Plus
<1> QED
  BY <1>2, <1>3 DEF LineInv, TypeOK, free

\* No operation of a line breaks the invariant.
LEMMA LineStep ==
  ASSUME LineInv, [Next]_vars
  PROVE  LineInv'
<1>1. /\ online \in Nat /\ MaxBytes \in Nat /\ DrainBound \in Nat
      /\ online + DrainBound <= MaxBytes
  BY SizesAssumption, MaxBytesAssumption, DrainAssumption DEF LineInv, TypeOK
<1>2. CASE UNCHANGED vars
  BY <1>2 DEF LineInv, TypeOK, UseWithinOnline, vars, line, observed
<1>3. ASSUME NEW n \in Amounts, reserve(n) PROVE LineInv'
  <2>1. n \in Nat
    BY AmountsAssumption, MaxBytesAssumption
  <2>2. /\ ok' \in BOOLEAN
        /\ ok' => n <= free /\ reserved' = Plus(reserved, n)
        /\ ~ok' => reserved' = reserved
        /\ UNCHANGED <<observed, committed, draining>>
    BY <1>3, Zenon DEF reserve
  <2>3. CASE ok'
    <3>1. reserved + n + unavailable + committed <= online
      BY <1>1, <2>1, <2>2, <2>3, NoWrap DEF LineInv, TypeOK, UseWithinOnline
    <3>2. Plus(reserved, n) = reserved + n
      BY <1>1, <2>1, <3>1 DEF Plus, LineInv, TypeOK
    <3> QED
      BY <1>1, <2>1, <2>2, <2>3, <3>1, <3>2 DEF LineInv, TypeOK, UseWithinOnline, observed
  <2>4. CASE ~ok'
    BY <2>2, <2>4 DEF LineInv, TypeOK, UseWithinOnline, observed
  <2> QED
    BY <2>3, <2>4
<1>4. ASSUME NEW n \in Amounts, commit(n) PROVE LineInv'
  <2>1. n \in Nat
    BY AmountsAssumption, MaxBytesAssumption
  <2>2. /\ ok' \in BOOLEAN
        /\ ok' => n <= reserved /\ reserved' = reserved - n /\ committed' = committed + n
        /\ ~ok' => /\ reserved' = IF n # 0 /\ n <= reserved THEN reserved - n ELSE reserved
                   /\ committed' = committed
        /\ UNCHANGED <<observed, draining>>
    BY <1>4, Zenon DEF commit
  <2>3. CASE ok'
    BY <1>1, <2>1, <2>2, <2>3 DEF LineInv, TypeOK, UseWithinOnline, observed
  <2>4. CASE ~ok'
    BY <1>1, <2>1, <2>2, <2>4 DEF LineInv, TypeOK, UseWithinOnline, observed
  <2> QED
    BY <2>3, <2>4
<1>5. ASSUME NEW n \in Amounts, release(n) PROVE LineInv'
  <2> DEFINE take == IF n < committed THEN n ELSE committed
  <2>1. n \in Nat
    BY AmountsAssumption, MaxBytesAssumption
  <2>2. ok' \in BOOLEAN
    BY <1>5, SMT DEF release
  <2>3. /\ ok' => /\ n - take <= reserved
                  /\ committed' = committed - take /\ reserved' = reserved - (n - take)
        /\ ~ok' => committed' = committed /\ reserved' = reserved
        /\ UNCHANGED <<observed, draining>>
    BY <1>5, Zenon DEF release
  <2>4. CASE ok'
    BY <1>1, <2>1, <2>3, <2>4, <2>2 DEF LineInv, TypeOK, UseWithinOnline, observed
  <2>5. CASE ~ok'
    BY <2>3, <2>5, <2>2 DEF LineInv, TypeOK, UseWithinOnline, observed
  <2> QED
    BY <2>4, <2>5
<1>6. ASSUME NEW n \in Amounts, fence_drain(n) PROVE LineInv'
  <2>1. n \in Nat
    BY AmountsAssumption, MaxBytesAssumption
  <2>2. ok' \in BOOLEAN
    BY <1>6, SMT DEF fence_drain
  <2>3. /\ draining + n <= DrainBound
        /\ ok' => draining' = Plus(draining, n)
        /\ ~ok' => draining' = draining
        /\ UNCHANGED <<observed, reserved, committed>>
    BY <1>6, Zenon DEF fence_drain
  <2>4. Plus(draining, n) = draining + n
    BY <1>1, <2>1, <2>3 DEF Plus, LineInv, TypeOK
  <2>5. draining' \in 0..DrainBound
    <3>1. CASE ok'
      BY <1>1, <2>1, <2>3, <2>4, <3>1 DEF LineInv, TypeOK
    <3>2. CASE ~ok'
      BY <2>3, <3>2 DEF LineInv, TypeOK
    <3> QED
      BY <3>1, <3>2
  <2> QED
    BY <2>3, <2>5, <2>2 DEF LineInv, TypeOK, UseWithinOnline, observed
<1> QED
  BY <1>2, <1>3, <1>4, <1>5, <1>6 DEF Next

\* Every reachable line is well typed and has no more in use than is online.
THEOREM LineSafe == Spec => []LineInv
<1>1. Init => LineInv
  BY SizesAssumption, DrainAssumption DEF Init, LineInv, TypeOK, UseWithinOnline
<1> QED
  BY <1>1, LineStep, PTL DEF Spec

\* What is reserved and committed never exceeds what is online, for every line.
THEOREM LineWithinOnline == Spec => []UseWithinOnline
BY LineSafe, PTL DEF LineInv

\* No counter of a line becomes negative, and no operation changes its size.
THEOREM LineTypes == Spec => []TypeOK
BY LineSafe, PTL DEF LineInv

\* A refused operation leaves the line as it was: when commit() has taken the reserved
\* bytes, their addition to the committed ones always succeeds.
THEOREM LineRefusal == Spec => RefusalChangesNothing
<1>1. ASSUME LineInv, [Next]_vars PROVE [~ok' => UNCHANGED line]_vars
  <2>1. /\ online \in Nat /\ MaxBytes \in Nat /\ DrainBound \in Nat
        /\ online + DrainBound <= MaxBytes
    BY <1>1, SizesAssumption, MaxBytesAssumption, DrainAssumption DEF LineInv, TypeOK
  <2>2. ASSUME NEW n \in Amounts, ~ok', commit(n) PROVE UNCHANGED line
    <3>1. n \in Nat
      BY AmountsAssumption, MaxBytesAssumption
    <3>2. n <= reserved => add_checked(committed, n)
      BY <1>1, <2>1, <3>1 DEF add_checked, LineInv, TypeOK, UseWithinOnline
    <3> QED
      BY <2>2, <3>2 DEF commit, line, observed
  <2>3. ASSUME NEW n \in Amounts, ~ok', reserve(n) \/ release(n) \/ fence_drain(n)
        PROVE  UNCHANGED line
    BY <2>3 DEF reserve, release, fence_drain, line, observed
  <2> QED
    BY <1>1, <2>2, <2>3 DEF Next
<1> QED
  BY <1>1, LineSafe, PTL DEF Spec, RefusalChangesNothing

----------------------------------------------------------------------------
(***************************************************************************)
(* Proofs about PersistFile for a process in which one thread at a time    *)
(* saves its state: the file is always whole, saving never brings the      *)
(* process down, and seen from outside the file is a DurableCell.  The     *)
(* run claim_file shows that one writer is needed.  What is left with any  *)
(* number of writers is at the end.                                        *)
(***************************************************************************)

\* The first n cells of a file are all of state v.
Holds(cells, v, n) == Len(cells) = n /\ \A i \in 1..n : cells[i] = v

\* The types of the variables; names refer to files that exist.
FileTypes ==
  /\ length \in Seq(1..MaxCells)
  /\ files \in Seq(Seq(Nat))
  /\ names \in [path : Nat, tmp : Nat]
  /\ names.path <= Len(files) /\ names.tmp <= Len(files)
  /\ writer \in [Writers -> [version : Nat, file : Nat, at : Nat]]

\* The file of the durable name is not the temporary one, and it holds a state whole.
PathInv ==
  names.path # 0 =>
    /\ names.path # names.tmp
    /\ \E v \in 1..Len(length) : Holds(files[names.path], v, 1 + length[v])

\* A thread writes the temporary file, and has written its state as far as it came.
WriterInv ==
  \A w \in Writers : writer[w] # NoWriter =>
    /\ names.tmp # 0 /\ writer[w].file = names.tmp
    /\ writer[w].version \in 1..Len(length)
    /\ writer[w].at \in 1..(2 + length[writer[w].version])
    /\ Holds(files[names.tmp], writer[w].version, writer[w].at - 1)

\* The inductive invariant.
FileInv == FileTypes /\ PathInv /\ WriterInv /\ ~terminated

----------------------------------------------------------------------------
\* The payload of a state that was to be written has a length.
LEMMA LengthIsNat ==
  ASSUME length \in Seq(1..MaxCells)
  PROVE  \A v \in 1..Len(length) : length[v] \in Nat
BY PersistAssumption

\* A file that holds a state whole is accepted by read_persisted(), and as that state.
LEMMA HoldsIsAccepted ==
  ASSUME NEW cells \in Seq(Nat), length \in Seq(1..MaxCells),
         NEW v \in 1..Len(length), Holds(cells, v, 1 + length[v])
  PROVE  Accepted(cells) /\ Head(cells) = v
<1>1. length[v] \in Nat
  BY LengthIsNat
<1>2. Len(cells) = 1 + length[v] /\ \A i \in 1..(1 + length[v]) : cells[i] = v
  BY DEF Holds
<1>3. cells # <<>> /\ Head(cells) = cells[1] /\ cells[1] = v
  BY <1>1, <1>2
<1>. QED
  BY <1>1, <1>2, <1>3 DEF Accepted

\* The file of the durable name has a state, or there is no such file.
PathHolds(v) ==
  IF v = 0 THEN names.path = 0
  ELSE v \in 1..Len(length) /\ names.path # 0 /\ Holds(files[names.path], v, 1 + length[v])

\* The state read_persisted() would return is the one the file of the durable name holds.
LEMMA StoredIs ==
  FileTypes => \A v \in Nat : PathHolds(v) => Stored = v
<1>. SUFFICES ASSUME FileTypes, NEW v \in Nat, PathHolds(v) PROVE Stored = v
  OBVIOUS
<1>1. CASE v = 0
  BY <1>1 DEF Stored, PathHolds
<1>2. CASE v # 0
  <2>1. files[names.path] \in Seq(Nat)
    BY <1>2 DEF FileTypes, PathHolds
  <2>2. Accepted(files[names.path]) /\ Head(files[names.path]) = v
    BY <1>2, <2>1, HoldsIsAccepted DEF FileTypes, PathHolds
  <2>. QED
    BY <1>2, <2>2 DEF Stored, PathHolds
<1>. QED
  BY <1>1, <1>2

\* The same after a step.
LEMMA StoredNext ==
  (FileTypes => \A v \in Nat : PathHolds(v) => Stored = v)'
BY StoredIs, PTL

\* The invariant says that the file of the durable name has a state, if there is one.
LEMMA PathHas ==
  ASSUME FileTypes, PathInv
  PROVE  \E v \in Nat : PathHolds(v)
<1>1. CASE names.path = 0
  BY <1>1 DEF PathHolds
<1>2. CASE names.path # 0
  <2>1. PICK v \in 1..Len(length) : Holds(files[names.path], v, 1 + length[v])
    BY <1>2 DEF PathInv
  <2>2. v \in Nat /\ v # 0
    BY DEF FileTypes
  <2>. QED
    BY <1>2, <2>1, <2>2 DEF PathHolds
<1>. QED
  BY <1>1, <1>2

\* A file of the durable name is one read_persisted() accepts.
LEMMA InvAccepted == FileInv => FileAccepted
<1>. SUFFICES ASSUME FileInv, names.path # 0 PROVE Accepted(files[names.path])
  BY DEF FileAccepted
<1>1. PICK v \in 1..Len(length) : Holds(files[names.path], v, 1 + length[v])
  BY DEF FileInv, PathInv
<1>2. files[names.path] \in Seq(Nat) /\ length \in Seq(1..MaxCells)
  BY DEF FileInv, FileTypes
<1>. QED
  BY <1>1, <1>2, HoldsIsAccepted

\* Initially nothing is written and nothing is being written.
LEMMA FileInitInv == FileInit => FileInv
<1>. SUFFICES ASSUME FileInit PROVE FileInv
  OBVIOUS
<1>1. FileTypes
  BY DEF FileInit, FileTypes, NoWriter
<1>. QED
  BY <1>1 DEF FileInit, FileInv, PathInv, WriterInv

\* Only one thread of the process saves its state.
Solo == \A v, w \in Writers : v = w

\* A step that keeps what the file of the durable name holds keeps what would be read.
LEMMA SameStored ==
  ASSUME FileInv, FileTypes', \A v \in Nat : PathHolds(v) => PathHolds(v)'
  PROVE  Stored' = Stored
<1>1. PICK v \in Nat : PathHolds(v)
  BY PathHas DEF FileInv
<1>. QED
  BY <1>1, StoredIs, StoredNext DEF FileInv

\* Opening the temporary file begins a save.
LEMMA OpenStep ==
  ASSUME Solo, FileInv, NEW w \in Writers, NEW n \in 1..MaxCells, Open(w, n)
  PROVE  FileInv' /\ Cell!Begin(w)
<1>. USE PersistAssumption
<1>1. /\ length \in Seq(1..MaxCells) /\ files \in Seq(Seq(Nat))
      /\ names \in [path : Nat, tmp : Nat]
      /\ names.path <= Len(files) /\ names.tmp <= Len(files)
      /\ writer \in [Writers -> [version : Nat, file : Nat, at : Nat]]
  BY DEF FileInv, FileTypes
<1>2. /\ files' \in Seq(Seq(Nat)) /\ names' \in [path : Nat, tmp : Nat]
      /\ names.path' <= Len(files') /\ names.tmp' <= Len(files')
      /\ names.path' = names.path /\ names.tmp' # 0 /\ files'[names.tmp'] = <<>>
      /\ names.path # 0 => names.path # names.tmp' /\ files'[names.path] = files[names.path]
  <2>1. CASE names.tmp = 0
    <3>1. /\ files' = Append(files, <<>>) /\ <<>> \in Seq(Nat)
          /\ names' = [names EXCEPT !.tmp = Len(files) + 1]
      BY <2>1 DEF Open
    <3>2. names.path' = names.path /\ names.tmp' = Len(files) + 1
      BY <1>1, <3>1
    <3>3. /\ files' \in Seq(Seq(Nat)) /\ Len(files') = Len(files) + 1
          /\ files'[Len(files) + 1] = <<>>
          /\ \A i \in 1..Len(files) : files'[i] = files[i]
      BY <1>1, <3>1
    <3>4. names.path \in 0..Len(files) /\ Len(files) \in Nat
      BY <1>1
    <3>5. names' \in [path : Nat, tmp : Nat]
      <4>1. Len(files) + 1 \in Nat
        BY <3>4
      <4>. QED
        BY <1>1, <3>1, <4>1
    <3>. QED
      BY <3>2, <3>3, <3>4, <3>5
  <2>2. CASE names.tmp # 0
    <3>1. names.path # 0 => names.path # names.tmp
      BY DEF FileInv, PathInv
    <3>2. /\ files' = [files EXCEPT ![names.tmp] = <<>>] /\ <<>> \in Seq(Nat)
          /\ names' = names
      BY <2>2 DEF Open
    <3>3. names.path \in 0..Len(files) /\ names.tmp \in 1..Len(files)
      BY <1>1, <2>2
    <3>4. files' \in Seq(Seq(Nat)) /\ Len(files') = Len(files)
      BY <1>1, <3>2, <3>3, ExceptSeq
    <3>5. /\ files'[names.tmp] = <<>>
          /\ names.path # 0 => files'[names.path] = files[names.path]
      BY <1>1, <3>1, <3>2, <3>3
    <3>. QED
      BY <1>1, <2>2, <3>1, <3>2, <3>4, <3>5
  <2>. QED
    BY <2>1, <2>2
<1>3. /\ length' \in Seq(1..MaxCells) /\ Len(length') = Len(length) + 1
      /\ \A v \in 1..Len(length) : length'[v] = length[v]
      /\ length'[Len(length) + 1] = n
  BY <1>1 DEF Open
<1>4. /\ writer' = [writer EXCEPT ![w] = [version |-> Len(length) + 1, file |-> names.tmp',
                                          at |-> 1]]
      /\ writer[w] = NoWriter /\ ~terminated /\ terminated' = terminated
  BY DEF Open
<1>5. FileTypes'
  <2>1. names.tmp' \in Nat /\ Len(length) \in Nat
    BY <1>1, <1>2
  <2>2. writer' \in [Writers -> [version : Nat, file : Nat, at : Nat]]
    BY <1>1, <1>4, <2>1
  <2>. QED
    BY <1>2, <1>3, <2>2 DEF FileTypes
<1>6. \A v \in Nat : PathHolds(v) => PathHolds(v)'
  <2>. SUFFICES ASSUME NEW v \in Nat, PathHolds(v) PROVE PathHolds(v)'
    OBVIOUS
  <2>1. CASE v = 0
    BY <2>1, <1>2 DEF PathHolds
  <2>2. CASE v # 0
    <3>1. v \in 1..Len(length) /\ names.path # 0 /\ Holds(files[names.path], v, 1 + length[v])
      BY <2>2 DEF PathHolds
    <3>2. v \in 1..Len(length') /\ length'[v] = length[v]
      BY <1>1, <1>3, <3>1
    <3>. QED
      BY <1>2, <2>2, <3>1, <3>2 DEF PathHolds, Holds
  <2>. QED
    BY <2>1, <2>2
<1>7. PathInv'
  <2>. SUFFICES ASSUME names.path # 0
                PROVE  \E v \in 1..Len(length') : Holds(files'[names.path'], v, 1 + length'[v])
    BY <1>2 DEF PathInv, Holds
  <2>1. PICK v \in 1..Len(length) : Holds(files[names.path], v, 1 + length[v])
    BY DEF FileInv, PathInv
  <2>2. v \in 1..Len(length') /\ length'[v] = length[v]
    BY <1>1, <1>3
  <2>. QED
    BY <1>2, <2>1, <2>2
<1>8. WriterInv'
  <2>. SUFFICES ASSUME NEW v \in Writers
                PROVE  /\ writer'[v].file = names.tmp'
                       /\ writer'[v].version \in 1..Len(length')
                       /\ writer'[v].at \in 1..(2 + length'[writer'[v].version])
                       /\ Holds(files'[names.tmp'], writer'[v].version, writer'[v].at - 1)
    BY <1>2 DEF WriterInv
  <2>1. v = w
    BY DEF Solo
  <2>2. writer'[v] = [version |-> Len(length) + 1, file |-> names.tmp', at |-> 1]
    BY <1>1, <1>4, <2>1
  <2>3. Holds(files'[names.tmp'], Len(length) + 1, 0)
    BY <1>2 DEF Holds
  <2>4. 1 \in 1..(2 + n) /\ Len(length) + 1 \in 1..Len(length') /\ 1 - 1 = 0
    BY <1>1, <1>3
  <2>. QED
    BY <2>2, <2>3, <2>4, <1>3
<1>9. Stored' = Stored
  BY <1>5, <1>6, SameStored
<1>10. [v \in Writers |-> writer[v].version]'
         = [[v \in Writers |-> writer[v].version] EXCEPT ![w] = Len(length')]
  BY <1>1, <1>3, <1>4
<1>11. [v \in Writers |-> writer[v].version][w] = 0
  BY <1>4 DEF NoWriter
<1>12. Cell!Begin(w)
  BY <1>3, <1>9, <1>10, <1>11 DEF Cell!Begin
<1>. QED
  BY <1>4, <1>5, <1>7, <1>8, <1>12 DEF FileInv

\* A thread knows its place: a cell is added to what it wrote of the temporary file, and
\* what would be read stays the same.
LEMMA WriteStep ==
  ASSUME Solo, FileInv, NEW w \in Writers, WriteCell(w)
  PROVE  /\ FileInv' /\ Stored' = Stored /\ length' = length
         /\ [v \in Writers |-> writer[v].version]' = [v \in Writers |-> writer[v].version]
<1>. DEFINE v == writer[w].version
            k == writer[w].at
            cells == files[names.tmp]
            more == PutCell(cells, k, v)
<1>1. /\ length \in Seq(1..MaxCells) /\ files \in Seq(Seq(Nat))
      /\ names \in [path : Nat, tmp : Nat]
      /\ names.path <= Len(files) /\ names.tmp <= Len(files)
      /\ writer \in [Writers -> [version : Nat, file : Nat, at : Nat]]
  BY DEF FileInv, FileTypes
<1>2. /\ names.tmp # 0 /\ writer[w].file = names.tmp /\ v \in 1..Len(length)
      /\ k \in 1..(2 + length[v]) /\ Holds(cells, v, k - 1) /\ k # 2 + length[v]
  BY DEF FileInv, WriterInv, WriteCell, Written
<1>3. length[v] \in Nat /\ k \in Nat /\ v \in Nat /\ k \in 1..(1 + length[v])
  <2>1. writer[w] \in [version : Nat, file : Nat, at : Nat]
    BY <1>1
  <2>2. v \in Nat /\ k \in Nat
    BY <2>1
  <2>. HIDE DEF v, k
  <2>3. length[v] \in Nat
    BY <1>1, <1>2, LengthIsNat
  <2>. QED
    BY <1>2, <2>2, <2>3
<1>4. names.tmp \in 1..Len(files) /\ cells \in Seq(Nat)
  BY <1>1, <1>2
<1>5. Len(cells) = k - 1 /\ \A i \in 1..(k - 1) : cells[i] = v
  BY <1>2 DEF Holds
<1>6. more \in Seq(Nat) /\ Holds(more, v, k)
  <2>1. more = [j \in 1..k |-> IF j = k THEN v ELSE IF j <= Len(cells) THEN cells[j] ELSE 0]
    BY <1>3, <1>5 DEF PutCell
  <2>2. \A j \in 1..k : more[j] = v
    BY <1>3, <1>5, <2>1
  <2>3. more = [j \in 1..k |-> v]
    BY <2>1, <2>2
  <2>. HIDE DEF more
  <2>. QED
    BY <1>3, <2>3 DEF Holds
<1>7. files' = [files EXCEPT ![names.tmp] = more]
  BY <1>2 DEF WriteCell
<1>8. /\ writer' = [writer EXCEPT ![w] = [writer[w] EXCEPT !.at = k + 1]]
      /\ UNCHANGED <<length, names, terminated>>
  BY DEF WriteCell
<1>. HIDE DEF more
<1>9. /\ files' \in Seq(Seq(Nat)) /\ Len(files') = Len(files) /\ files'[names.tmp] = more
      /\ \A j \in 1..Len(files) : j # names.tmp => files'[j] = files[j]
  BY <1>1, <1>4, <1>6, <1>7, ExceptSeq
<1>10. names.path # 0 => names.path # names.tmp /\ files'[names.path] = files[names.path]
  <2>1. names.path # 0 => names.path # names.tmp /\ names.path \in 1..Len(files)
    BY <1>1 DEF FileInv, PathInv
  <2>. QED
    BY <1>9, <2>1
<1>11. writer' \in [Writers -> [version : Nat, file : Nat, at : Nat]]
  <2>1. writer[w] \in [version : Nat, file : Nat, at : Nat]
    BY <1>1
  <2>2. k + 1 \in Nat
    BY <1>3
  <2>. HIDE DEF k
  <2>3. [writer[w] EXCEPT !.at = k + 1] \in [version : Nat, file : Nat, at : Nat]
    BY <2>1, <2>2
  <2>. QED
    BY <1>1, <1>8, <2>3
<1>12. writer'[w].version = v /\ writer'[w].file = names.tmp /\ writer'[w].at = k + 1
  BY <1>1, <1>2, <1>8
<1>. HIDE DEF v, k
<1>13. FileTypes'
  BY <1>1, <1>8, <1>9, <1>11 DEF FileTypes
<1>14. PathInv'
  BY <1>8, <1>10 DEF FileInv, PathInv, Holds
<1>15. WriterInv'
  <2>. SUFFICES ASSUME NEW x \in Writers
                PROVE  /\ writer'[x].file = names.tmp'
                       /\ writer'[x].version \in 1..Len(length')
                       /\ writer'[x].at \in 1..(2 + length'[writer'[x].version])
                       /\ Holds(files'[names.tmp'], writer'[x].version, writer'[x].at - 1)
    BY <1>2, <1>8 DEF WriterInv
  <2>1. x = w
    BY DEF Solo
  <2>2. k + 1 \in 1..(2 + length[v]) /\ (k + 1) - 1 = k
    BY <1>3
  <2>. QED
    BY <2>1, <2>2, <1>2, <1>6, <1>8, <1>9, <1>12
<1>16. \A u \in Nat : PathHolds(u) => PathHolds(u)'
  BY <1>8, <1>10 DEF PathHolds, Holds
<1>17. Stored' = Stored
  BY <1>13, <1>16, SameStored
<1>18. \A x \in Writers : writer'[x].version = writer[x].version
  BY <1>12 DEF Solo, v
<1>. QED
  BY <1>8, <1>13, <1>14, <1>15, <1>17, <1>18 DEF FileInv

\* A thread that gives up, or whose process is killed, takes nothing from the file.
LEMMA ForgetStep ==
  ASSUME FileInv, writer' \in [Writers -> [version : Nat, file : Nat, at : Nat]],
         \A w \in Writers : writer'[w] # NoWriter => writer'[w] = writer[w],
         ~terminated', UNCHANGED <<length, files, names>>
  PROVE  FileInv' /\ Stored' = Stored
<1>1. FileTypes'
  BY DEF FileInv, FileTypes
<1>2. PathInv'
  BY DEF FileInv, PathInv, Holds
<1>3. WriterInv'
  BY DEF FileInv, WriterInv, Holds
<1>4. \A v \in Nat : PathHolds(v) => PathHolds(v)'
  BY DEF PathHolds, Holds
<1>. QED
  BY <1>1, <1>2, <1>3, <1>4, SameStored DEF FileInv

\* Giving up abandons the save.
LEMMA GiveUpStep ==
  ASSUME FileInv, NEW w \in Writers, GiveUp(w)
  PROVE  FileInv' /\ Cell!Abandon(w)
<1>1. writer \in [Writers -> [version : Nat, file : Nat, at : Nat]]
  BY DEF FileInv, FileTypes
<1>2. /\ writer' = [writer EXCEPT ![w] = NoWriter]
      /\ NoWriter \in [version : Nat, file : Nat, at : Nat] /\ NoWriter.version = 0
  BY DEF GiveUp, NoWriter
<1>3. FileInv' /\ Stored' = Stored
  <2>1. /\ writer' \in [Writers -> [version : Nat, file : Nat, at : Nat]]
        /\ \A x \in Writers : writer'[x] # NoWriter => writer'[x] = writer[x]
    BY <1>1, <1>2
  <2>. QED
    BY <2>1, ForgetStep DEF GiveUp
<1>4. [x \in Writers |-> writer[x].version]'
        = [[x \in Writers |-> writer[x].version] EXCEPT ![w] = 0]
  BY <1>1, <1>2
<1>. QED
  BY <1>3, <1>4 DEF GiveUp, Cell!Abandon

\* The death of the process abandons every save.
LEMMA RestartStep ==
  ASSUME FileInv, Restart
  PROVE  FileInv' /\ Cell!Killed
<1>1. /\ writer' = [w \in Writers |-> NoWriter]
      /\ NoWriter \in [version : Nat, file : Nat, at : Nat] /\ NoWriter.version = 0
  BY DEF Restart, NoWriter
<1>2. FileInv' /\ Stored' = Stored
  <2>1. /\ writer' \in [Writers -> [version : Nat, file : Nat, at : Nat]]
        /\ \A x \in Writers : writer'[x] # NoWriter => writer'[x] = writer[x]
    BY <1>1
  <2>. QED
    BY <2>1, ForgetStep DEF Restart
<1>3. [w \in Writers |-> writer[w].version]' = [w \in Writers |-> 0]
  BY <1>1
<1>. QED
  BY <1>2, <1>3 DEF Restart, Cell!Killed

\* The rename puts the whole state of the thread into the file, and finds it there.
LEMMA RenameStep ==
  ASSUME Solo, FileInv, NEW w \in Writers, Rename(w)
  PROVE  FileInv' /\ Cell!Finish(w)
<1>1. /\ length \in Seq(1..MaxCells) /\ files \in Seq(Seq(Nat))
      /\ names \in [path : Nat, tmp : Nat]
      /\ names.path <= Len(files) /\ names.tmp <= Len(files)
      /\ writer \in [Writers -> [version : Nat, file : Nat, at : Nat]]
  BY DEF FileInv, FileTypes
<1>. PICK v \in Nat : v = writer[w].version
  BY <1>1
<1>2. /\ names.tmp # 0 /\ v \in 1..Len(length)
      /\ Holds(files[names.tmp], v, (2 + length[v]) - 1)
  BY DEF FileInv, WriterInv, Rename, Written
<1>3. Holds(files[names.tmp], v, 1 + length[v]) /\ v \in Nat /\ v # 0
  <2>1. length[v] \in Nat
    BY <1>1, <1>2, LengthIsNat
  <2>2. (2 + length[v]) - 1 = 1 + length[v]
    BY <2>1
  <2>. QED
    BY <1>1, <1>2, <2>2
<1>4. /\ names' = [path |-> names.tmp, tmp |-> 0] /\ ~terminated /\ terminated' = terminated
      /\ writer' = [writer EXCEPT ![w] = NoWriter] /\ UNCHANGED <<length, files>>
  BY <1>2 DEF Rename
<1>5. names.path' = names.tmp /\ names.tmp' = 0
  BY <1>4
<1>6. \A x \in Writers : writer'[x] = NoWriter
  BY <1>1, <1>4 DEF Solo
<1>7. NoWriter \in [version : Nat, file : Nat, at : Nat] /\ NoWriter.version = 0
  BY DEF NoWriter
<1>8. FileTypes'
  BY <1>1, <1>4, <1>5, <1>7 DEF FileTypes
<1>9. PathInv'
  BY <1>2, <1>3, <1>4, <1>5 DEF PathInv, Holds
<1>10. WriterInv'
  BY <1>6 DEF WriterInv
<1>11. PathHolds(v)'
  BY <1>2, <1>3, <1>4, <1>5 DEF PathHolds, Holds
<1>12. Stored' = v
  BY <1>3, <1>8, <1>11, StoredNext
<1>13. [x \in Writers |-> writer[x].version]'
         = [[x \in Writers |-> writer[x].version] EXCEPT ![w] = 0]
  BY <1>1, <1>4, <1>7
<1>14. Cell!Finish(w)
  BY <1>3, <1>4, <1>12, <1>13 DEF Cell!Finish
<1>. QED
  BY <1>4, <1>8, <1>9, <1>10, <1>14 DEF FileInv

----------------------------------------------------------------------------
\* Every step keeps the invariant and is a step of the cell, or none.
LEMMA FileStep ==
  ASSUME Solo, FileInv, [FileNext]_fileVars
  PROVE  /\ FileInv'
         /\ [Cell!CellNext]_<<Stored, Len(length), [w \in Writers |-> writer[w].version]>>
<1>1. ASSUME NEW w \in Writers, NEW n \in 1..MaxCells, Open(w, n)
      PROVE  FileInv' /\ Cell!CellNext
  BY <1>1, OpenStep DEF Cell!CellNext
<1>2. ASSUME NEW w \in Writers, WriteCell(w)
      PROVE  /\ FileInv'
             /\ UNCHANGED <<Stored, Len(length), [x \in Writers |-> writer[x].version]>>
  BY <1>2, WriteStep
<1>3. ASSUME NEW w \in Writers, GiveUp(w)
      PROVE  FileInv' /\ Cell!CellNext
  BY <1>3, GiveUpStep DEF Cell!CellNext
<1>4. ASSUME NEW w \in Writers, Rename(w)
      PROVE  FileInv' /\ Cell!CellNext
  BY <1>4, RenameStep DEF Cell!CellNext
<1>5. ASSUME Restart
      PROVE  FileInv' /\ Cell!CellNext
  BY <1>5, RestartStep DEF Cell!CellNext
<1>6. ASSUME UNCHANGED fileVars
      PROVE  /\ FileInv'
             /\ UNCHANGED <<Stored, Len(length), [x \in Writers |-> writer[x].version]>>
  BY <1>6 DEF fileVars, FileInv, FileTypes, PathInv, WriterInv, Holds, Stored, Accepted
<1>. QED
  BY <1>1, <1>2, <1>3, <1>4, <1>5, <1>6 DEF FileNext

\* The initial file is an empty cell.
LEMMA FileInitCell == FileInit => Cell!CellInit
BY DEF FileInit, Cell!CellInit, Stored, NoWriter

\* With one writer the state file is replaced atomically: wherever write_persisted() fails
\* or is killed, read_persisted() finds no file or a whole one.
THEOREM FileAlwaysAccepted ==
  ASSUME Solo
  PROVE  FileSpec => []FileAccepted
BY FileInitInv, FileStep, InvAccepted, PTL DEF FileSpec

\* With one writer the rename never fails for want of the temporary file, so saving never
\* brings the process down.
THEOREM SavingNeverTerminates ==
  ASSUME Solo
  PROVE  FileSpec => []NeverTerminated
<1>1. FileInv => NeverTerminated
  BY DEF FileInv, NeverTerminated
<1>. QED
  BY <1>1, FileInitInv, FileStep, PTL DEF FileSpec

\* With one writer write_persisted() implements a durable cell: each save takes effect at
\* one instant, the rename, or never.
THEOREM FileImplementsCell ==
  ASSUME Solo
  PROVE  FileSpec => ImplementsCell
BY FileInitInv, FileStep, FileInitCell, PTL DEF FileSpec, ImplementsCell, Cell!CellSpec

----------------------------------------------------------------------------
(* Any number of writers *)

\* A writer that is at work is within the file and the state it writes.
AtWork(w) ==
  /\ writer[w].version \in 1..Len(length) /\ writer[w].file \in 1..Len(files)
  /\ writer[w].at \in 1..(2 + length[writer[w].version])

\* The invariant of several writers that save at once.
SharedInv == FileTypeOK /\ writer \in [Writers -> [version : Nat, file : Nat, at : Nat]]

\* The writers that a step leaves alone stay within their files.
LEMMA StaysAtWork ==
  ASSUME SharedInv, NEW w \in Writers, writer[w] # NoWriter, writer'[w] = writer[w],
         \A v \in 1..Len(length) : v \in 1..Len(length') /\ length'[v] = length[v],
         1..Len(files) \subseteq 1..Len(files')
  PROVE  AtWork(w)'
BY DEF SharedInv, FileTypeOK, AtWork

\* What SharedInv says of the next state, from what a step makes of each variable.
LEMMA SharedNext ==
  ASSUME length' \in Seq(1..MaxCells), Len(length') <= MaxWrites,
         files' \in Seq(Seq(0..Len(length'))),
         names' \in [path : 0..Len(files'), tmp : 0..Len(files')],
         writer' \in [Writers -> [version : Nat, file : Nat, at : Nat]],
         \A w \in Writers : writer'[w] # NoWriter => AtWork(w)',
         terminated' \in BOOLEAN
  PROVE  SharedInv'
BY DEF SharedInv, FileTypeOK, AtWork

\* A second writer may empty the file that another is writing; it leaves every thread
\* a file to write to.
LEMMA SharedOpen ==
  ASSUME SharedInv, NEW w \in Writers, NEW n \in 1..MaxCells, Open(w, n)
  PROVE  SharedInv'
<1>. DEFINE old == Seq(0..Len(length))
            now == Seq(0..(Len(length) + 1))
<1>1. /\ length \in Seq(1..MaxCells) /\ Len(length) \in Nat /\ Len(files) \in Nat
      /\ files \in Seq(old) /\ names \in [path : 0..Len(files), tmp : 0..Len(files)]
      /\ writer \in [Writers -> [version : Nat, file : Nat, at : Nat]]
      /\ terminated \in BOOLEAN
  BY DEF SharedInv, FileTypeOK
<1>2. /\ length' \in Seq(1..MaxCells) /\ Len(length') = Len(length) + 1
      /\ Len(length') <= MaxWrites
      /\ \A v \in 1..Len(length) : v \in 1..Len(length') /\ length'[v] = length[v]
      /\ length'[Len(length) + 1] = n
  <2>1. length' = Append(length, n) /\ Len(length) < MaxWrites /\ MaxWrites \in Nat
    BY PersistAssumption DEF Open
  <2>. QED
    BY <1>1, <2>1
<1>3. files \in Seq(now) /\ <<>> \in now
  <2>1. 0..Len(length) \subseteq 0..(Len(length) + 1)
    BY <1>1
  <2>2. old \subseteq now
    BY <2>1, SeqMonotonic
  <2>3. <<>> \in now
    OBVIOUS
  <2>. HIDE DEF old, now
  <2>. QED
    BY <1>1, <2>2, <2>3, SeqMonotonic
<1>. HIDE DEF old, now
<1>4. /\ files' \in Seq(now) /\ Len(files') \in Nat /\ Len(files) <= Len(files')
      /\ names' \in [path : 0..Len(files'), tmp : 0..Len(files')]
      /\ names'.tmp \in 1..Len(files')
  <2>1. CASE names.tmp = 0
    <3>1. files' = Append(files, <<>>) /\ names' = [names EXCEPT !.tmp = Len(files) + 1]
      BY <2>1 DEF Open
    <3>2. files' \in Seq(now) /\ Len(files') = Len(files) + 1
      BY <1>3, <3>1
    <3>3. names.path \in 0..Len(files') /\ Len(files) + 1 \in 1..Len(files')
      BY <1>1, <3>2
    <3>4. names' = [path |-> names.path, tmp |-> Len(files) + 1]
      BY <1>1, <3>1
    <3>. QED
      BY <1>1, <3>2, <3>3, <3>4
  <2>2. CASE names.tmp # 0
    <3>1. files' = [files EXCEPT ![names.tmp] = <<>>] /\ names' = names
      BY <2>2 DEF Open
    <3>2. names.tmp \in 1..Len(files)
      BY <1>1, <2>2
    <3>3. files' \in Seq(now) /\ Len(files') = Len(files)
      BY <1>3, <3>1, <3>2, ExceptSeq
    <3>. QED
      BY <1>1, <3>1, <3>2, <3>3
  <2>. QED
    BY <2>1, <2>2
<1>5. /\ writer' = [writer EXCEPT ![w] = [version |-> Len(length) + 1, file |-> names'.tmp, at |-> 1]]
      /\ terminated' = terminated
  BY DEF Open
<1>6. writer' \in [Writers -> [version : Nat, file : Nat, at : Nat]]
  BY <1>1, <1>4, <1>5
<1>7. ASSUME NEW x \in Writers, writer'[x] # NoWriter PROVE AtWork(x)'
  <2>1. CASE x = w
    <3>1. /\ writer'[x].version = Len(length) + 1 /\ writer'[x].file = names'.tmp
          /\ writer'[x].at = 1
      BY <1>1, <1>5, <2>1
    <3>2. Len(length) + 1 \in 1..Len(length') /\ 1 \in 1..(2 + n)
      BY <1>1, <1>2
    <3>. QED
      BY <1>2, <1>4, <3>1, <3>2 DEF AtWork
  <2>2. CASE x # w
    <3>1. writer'[x] = writer[x]
      BY <1>1, <1>5, <2>2
    <3>2. 1..Len(files) \subseteq 1..Len(files')
      BY <1>1, <1>4
    <3>. QED
      BY <1>2, <1>7, <3>1, <3>2, StaysAtWork
  <2>. QED
    BY <2>1, <2>2
<1>8. files' \in Seq(Seq(0..Len(length')))
  BY <1>2, <1>4 DEF now
<1>. QED
  BY <1>1, <1>2, <1>4, <1>5, <1>6, <1>7, <1>8, SharedNext

\* A cell goes into the file that was opened, be it the durable one by now.
LEMMA SharedWrite ==
  ASSUME SharedInv, NEW w \in Writers, WriteCell(w)
  PROVE  SharedInv'
<1>. DEFINE v == writer[w].version
            k == writer[w].at
            f == writer[w].file
            cell == 0..Len(length)
<1>1. /\ length \in Seq(1..MaxCells) /\ Len(length) \in Nat /\ Len(length) <= MaxWrites
      /\ files \in Seq(Seq(cell)) /\ names \in [path : 0..Len(files), tmp : 0..Len(files)]
      /\ writer \in [Writers -> [version : Nat, file : Nat, at : Nat]]
      /\ terminated \in BOOLEAN
  BY DEF SharedInv, FileTypeOK
<1>2. v \in 1..Len(length) /\ f \in 1..Len(files) /\ k \in 1..(2 + length[v]) /\ k # 2 + length[v]
  BY DEF SharedInv, FileTypeOK, WriteCell, Written
<1>3. /\ files' = [files EXCEPT ![f] = PutCell(files[f], k, v)]
      /\ writer' = [writer EXCEPT ![w] = [writer[w] EXCEPT !.at = k + 1]]
      /\ UNCHANGED <<length, names, terminated>>
  BY DEF WriteCell
<1>4. writer[w] \in [version : Nat, file : Nat, at : Nat]
  BY <1>1
<1>5. length[v] \in Nat /\ k \in Nat
  <2>1. k \in Nat
    BY <1>4
  <2>. HIDE DEF v
  <2>. QED
    BY <1>1, <1>2, <2>1, LengthIsNat
<1>6. PutCell(files[f], k, v) \in Seq(cell)
  <2>. DEFINE cells == files[f]
              m == IF k > Len(cells) THEN k ELSE Len(cells)
  <2>1. cells \in Seq(cell)
    BY <1>1, <1>2
  <2>2. v \in cell /\ 0 \in cell
    BY <1>1, <1>2
  <2>. HIDE DEF cells, cell, v, k
  <2>3. Len(cells) \in Nat /\ m \in Nat /\ \A j \in 1..Len(cells) : cells[j] \in cell
    BY <1>5, <2>1
  <2>4. PutCell(cells, k, v)
          = [j \in 1..m |-> IF j = k THEN v ELSE IF j <= Len(cells) THEN cells[j] ELSE 0]
    BY DEF PutCell
  <2>. HIDE DEF m
  <2>5. \A j \in 1..m : (IF j = k THEN v ELSE IF j <= Len(cells) THEN cells[j] ELSE 0) \in cell
    BY <2>2, <2>3
  <2>6. PutCell(cells, k, v) \in [1..m -> cell]
    BY <2>4, <2>5
  <2>7. PutCell(cells, k, v) \in Seq(cell)
    BY <2>3, <2>6, SeqDef
  <2>. QED
    BY <2>7 DEF cells
<1>7. files' \in Seq(Seq(cell)) /\ Len(files') = Len(files)
  <2>. HIDE DEF f, k, v, cell
  <2>. QED
    BY <1>1, <1>2, <1>3, <1>6, ExceptSeq
<1>8. /\ writer' \in [Writers -> [version : Nat, file : Nat, at : Nat]]
      /\ writer'[w].version = v /\ writer'[w].file = f /\ writer'[w].at = k + 1
  <2>1. k + 1 \in Nat
    BY <1>5
  <2>2. /\ [writer[w] EXCEPT !.at = k + 1] \in [version : Nat, file : Nat, at : Nat]
        /\ [writer[w] EXCEPT !.at = k + 1].version = v
        /\ [writer[w] EXCEPT !.at = k + 1].file = f
        /\ [writer[w] EXCEPT !.at = k + 1].at = k + 1
    BY <1>4, <2>1
  <2>. HIDE DEF k, v, f
  <2>. QED
    BY <1>1, <1>3, <2>2
<1>9. ASSUME NEW x \in Writers, writer'[x] # NoWriter PROVE AtWork(x)'
  <2>1. CASE x = w
    <3>. HIDE DEF k, v, f
    <3>1. k + 1 \in 1..(2 + length[v])
      BY <1>2, <1>5
    <3>. QED
      BY <1>2, <1>3, <1>7, <1>8, <2>1, <3>1 DEF AtWork
  <2>2. CASE x # w
    <3>1. writer'[x] = writer[x]
      BY <1>1, <1>3, <2>2
    <3>. QED
      BY <1>3, <1>7, <1>9, <3>1, StaysAtWork
  <2>. QED
    BY <2>1, <2>2
<1>. QED
  BY <1>1, <1>3, <1>7, <1>8, <1>9, SharedNext

\* A writer that ends, by a rename, an exception or a failure, or with the process, leaves
\* the others to what they are writing.
LEMMA SharedEnd ==
  ASSUME SharedInv, UNCHANGED <<length, files>>,
         writer' \in [Writers -> [version : Nat, file : Nat, at : Nat]],
         \A x \in Writers : writer'[x] \in {writer[x], NoWriter},
         names' \in {names, [path |-> names.tmp, tmp |-> 0]}, terminated' \in BOOLEAN
  PROVE  SharedInv'
<1>1. /\ length \in Seq(1..MaxCells) /\ Len(length) <= MaxWrites
      /\ files \in Seq(Seq(0..Len(length)))
      /\ names \in [path : 0..Len(files), tmp : 0..Len(files)] /\ Len(files) \in Nat
  BY DEF SharedInv, FileTypeOK
<1>2. ASSUME NEW x \in Writers, writer'[x] # NoWriter PROVE AtWork(x)'
  <2>1. writer'[x] = writer[x]
    BY <1>2
  <2>. QED
    BY <1>2, <2>1, StaysAtWork
<1>3. names' \in [path : 0..Len(files), tmp : 0..Len(files)]
  BY <1>1
<1>. QED
  BY <1>1, <1>2, <1>3, SharedNext

\* No step of several writers breaks the invariant.
LEMMA SharedStep ==
  ASSUME SharedInv, [FileNext]_fileVars
  PROVE  SharedInv'
<1>1. /\ writer \in [Writers -> [version : Nat, file : Nat, at : Nat]]
      /\ terminated \in BOOLEAN /\ NoWriter \in [version : Nat, file : Nat, at : Nat]
  BY DEF SharedInv, FileTypeOK, NoWriter
<1>2. ASSUME NEW w \in Writers, GiveUp(w) \/ Rename(w) PROVE SharedInv'
  <2>1. /\ UNCHANGED <<length, files>> /\ writer' = [writer EXCEPT ![w] = NoWriter]
        /\ names' \in {names, [path |-> names.tmp, tmp |-> 0]}
        /\ terminated' = terminated \/ terminated' = TRUE
    BY <1>2 DEF GiveUp, Rename
  <2>2. /\ writer' \in [Writers -> [version : Nat, file : Nat, at : Nat]]
        /\ \A x \in Writers : writer'[x] \in {writer[x], NoWriter}
    BY <1>1, <2>1
  <2>. QED
    BY <1>1, <2>1, <2>2, SharedEnd
<1>3. ASSUME Restart PROVE SharedInv'
  <2>1. /\ UNCHANGED <<length, files, names>> /\ terminated' = FALSE
        /\ writer' = [x \in Writers |-> NoWriter]
    BY <1>3 DEF Restart
  <2>2. /\ writer' \in [Writers -> [version : Nat, file : Nat, at : Nat]]
        /\ \A x \in Writers : writer'[x] \in {writer[x], NoWriter}
    BY <1>1, <2>1
  <2>. QED
    BY <2>1, <2>2, SharedEnd
<1>4. ASSUME UNCHANGED fileVars PROVE SharedInv'
  <2>1. UNCHANGED <<length, files, names, writer, terminated>>
    BY <1>4 DEF fileVars
  <2>. QED
    BY <1>1, <2>1, SharedEnd
<1>. QED
  BY <1>2, <1>3, <1>4, SharedOpen, SharedWrite DEF FileNext

\* However many threads save at once, where one empties, renames or goes on writing the
\* file of another: both names and every thread refer to files that exist, and no thread
\* writes beyond its state.
THEOREM FilesExist == FileSpec => []FileTypeOK
<1>1. FileInit => SharedInv
  <2>. SUFFICES ASSUME FileInit PROVE SharedInv
    OBVIOUS
  <2>1. /\ length = <<>> /\ files = <<>> /\ names = [path |-> 0, tmp |-> 0]
        /\ writer = [w \in Writers |-> NoWriter] /\ terminated = FALSE
    BY DEF FileInit
  <2>2. length \in Seq(1..MaxCells) /\ Len(length) <= MaxWrites /\ Len(files) = 0
    BY <2>1, PersistAssumption
  <2>3. files \in Seq(Seq(0..Len(length)))
    BY <2>1
  <2>4. writer \in [Writers -> [version : Nat, file : Nat, at : Nat]]
    BY <2>1 DEF NoWriter
  <2>5. \A w \in Writers : writer[w] = NoWriter
    BY <2>1
  <2>6. names \in [path : 0..Len(files), tmp : 0..Len(files)]
    BY <2>1, <2>2
  <2>. QED
    BY <2>1, <2>2, <2>3, <2>4, <2>5, <2>6 DEF SharedInv, FileTypeOK
<1>2. SharedInv => FileTypeOK
  BY DEF SharedInv
<1>. QED
  BY <1>1, <1>2, SharedStep, PTL DEF FileSpec

----------------------------------------------------------------------------
(***************************************************************************)
(* Proofs about Framing, for payloads of any length and any number of      *)
(* frames: frames over a stream implement the queue of FrameChannel, and a *)
(* frame is refused only for a reason.  The invariant gives every frame    *)
(* its place in the stream: while the receiver goes on, the frames it has  *)
(* not taken lie one after the other in what it has read, what the system  *)
(* holds and what the sender has not sent.                                 *)
(***************************************************************************)

----------------------------------------------------------------------------
(* The checksum.  crc32() is a recursive function; facts about it are proved
   by looking at the first place that would refute them. *)

\* g is the function sum of crc32(), on the first n cells of f.
IsSum(f, g, n) ==
  g = [m \in 0..n |-> IF m = 0 THEN 0 ELSE Base * g[m - 1] + f[m] + 1]

\* crc32() in the words of this module.
LEMMA CrcIsSum ==
  ASSUME NEW f
  PROVE  crc32(f) = (CHOOSE g : IsSum(f, g, Len(f)))[Len(f)] + Base
BY DEF crc32, IsSum

\* A set of numbers that is not empty has a first one.
LEMMA First ==
  ASSUME NEW T, T \subseteq Nat, T # {}
  PROVE  \E n \in T : \A m \in T : ~(m < n)
<1>1. PICK n \in T : \A m \in T : ~(<<m, n>> \in OpToRel(<, Nat))
  BY NatLessThanWellFounded, WFMin
<1> QED
  BY <1>1 DEF OpToRel

\* The recursion has a solution.
LEMMA SumExists ==
  ASSUME NEW f, NEW n \in Nat
  PROVE  \E g : IsSum(f, g, n)
<1> DEFINE T == {k \in Nat : ~ \E g : IsSum(f, g, k)}
<1> SUFFICES ASSUME T # {} PROVE FALSE
  OBVIOUS
<1>1. PICK k \in T : \A m \in T : ~(m < k)
  BY First
<1>2. k # 0
  <2>1. IsSum(f, [m \in 0..0 |-> 0], 0)
    BY DEF IsSum
  <2> QED
    BY <2>1
<1>3. k \in Nat /\ k - 1 \in Nat /\ k - 1 < k
  BY <1>2
<1>4. PICK g : IsSum(f, g, k - 1)
  BY <1>1, <1>3
<1> DEFINE h == [m \in 0..k |-> IF m = k THEN Base * g[k - 1] + f[k] + 1 ELSE g[m]]
<1>5. ASSUME NEW m \in 0..k
      PROVE  h[m] = IF m = 0 THEN 0 ELSE Base * h[m - 1] + f[m] + 1
  <2>1. CASE m = k
    BY <1>2, <1>3, <2>1
  <2>2. CASE m # k
    <3>1. m \in 0..(k - 1) /\ (m # 0 => m - 1 \in 0..k /\ m - 1 # k)
      BY <1>3, <2>2
    <3>2. g[m] = IF m = 0 THEN 0 ELSE Base * g[m - 1] + f[m] + 1
      BY <1>4, <3>1 DEF IsSum
    <3> QED
      BY <2>2, <3>1, <3>2
  <2> QED
    BY <2>1, <2>2
<1>6. IsSum(f, h, k)
  <2>1. h = [m \in 0..k |-> h[m]]
    OBVIOUS
  <2> HIDE DEF h
  <2> QED
    BY <1>5, <2>1, Zenon DEF IsSum
<1> QED
  BY <1>6

\* The recursion computes a number.
LEMMA SumNat ==
  ASSUME NEW f \in Seq(Nat), NEW g, IsSum(f, g, Len(f))
  PROVE  g[Len(f)] \in Nat
<1> DEFINE T == {k \in 0..Len(f) : g[k] \notin Nat}
<1>a. Len(f) \in Nat /\ T \subseteq Nat
  OBVIOUS
<1> SUFFICES ASSUME T # {} PROVE FALSE
  BY <1>a
<1>1. PICK k \in T : \A m \in T : ~(m < k)
  <2> HIDE DEF T
  <2> QED
    BY <1>a, First
<1>2. k \in 0..Len(f) /\ k \in Nat /\ g[k] \notin Nat
  BY <1>a
<1>3. g[k] = IF k = 0 THEN 0 ELSE Base * g[k - 1] + f[k] + 1
  BY <1>2 DEF IsSum
<1>4. k # 0
  BY <1>2, <1>3
<1>5. k - 1 \in 0..Len(f) /\ k - 1 < k /\ k \in 1..Len(f)
  BY <1>2, <1>4
<1>6. g[k - 1] \in Nat
  BY <1>1, <1>5
<1>7. f[k] \in Nat
  BY <1>5
<1>8. Base * g[k - 1] + f[k] + 1 \in Nat
  <2> DEFINE a == g[k - 1]
             c == f[k]
  <2>1. a \in Nat /\ c \in Nat
    BY <1>6, <1>7
  <2> HIDE DEF a, c
  <2>2. Base * a + c + 1 \in Nat
    BY <2>1 DEF Base
  <2> QED
    BY <2>2 DEF a, c
<1> QED
  BY <1>2, <1>3, <1>4, <1>8

\* A checksum is a number and is never 0; because of the latter the header of a
\* frame that was too long, which has 0 in its place, never passes.
LEMMA CrcPositive ==
  ASSUME NEW f \in Seq(Nat)
  PROVE  crc32(f) \in Nat \ {0}
<1> DEFINE g == CHOOSE g : IsSum(f, g, Len(f))
<1>a. Len(f) \in Nat
  OBVIOUS
<1>b. \E x : IsSum(f, x, Len(f))
  BY <1>a, SumExists, Zenon
<1>1. IsSum(f, g, Len(f))
  BY <1>b, Zenon
<1> HIDE DEF g
<1>2. g[Len(f)] \in Nat
  BY <1>1, SumNat
<1>3. crc32(f) = g[Len(f)] + Base
  BY CrcIsSum DEF g
<1> QED
  BY <1>2, <1>3 DEF Base

----------------------------------------------------------------------------
(* The stream.  Frame i ends at place off[i]; the receiver is at off[taken]. *)

\* The cells encode_frame() makes of a frame.
Size(f) == IF Len(f.payload) > MaxPayload THEN HeaderSize ELSE HeaderSize + Len(f.payload)

\* Cell k of frame i may be c.
IsCell(i, k, c) ==
  LET f == sent[i]
      long == Len(f.payload) > MaxPayload
  IN  /\ k = 1 => c = Magic
      /\ k = 2 => c = f.type
      /\ k = 3 => c = IF long THEN 0 ELSE Len(f.payload)
      /\ k = 4 => IF long THEN c = 0 ELSE c = crc32(Body(f)) \/ i \in damaged
      /\ k > 4 => c = f.payload[k - 4]

\* The cells on their way, from the receiver to the sender.
Held == Len(buf) + Len(wire) + Len(out)
At(k) ==
  IF k <= Len(buf) THEN buf[k]
  ELSE IF k <= Len(buf) + Len(wire) THEN wire[k - Len(buf)]
  ELSE out[k - Len(buf) - Len(wire)]

Places(off) ==
  /\ off \in [0..Len(sent) -> Nat]
  /\ \A i \in 1..Len(sent) : off[i] = off[i - 1] + Size(sent[i])
  /\ \A i, j \in 0..Len(sent) : i <= j => off[i] <= off[j]

\* What is held reaches as far as what was sent, or less once the sender is gone.
Extent(off) ==
  /\ Held <= off[Len(sent)] - off[taken]
  /\ writing => Held = off[Len(sent)] - off[taken]

Contents(off) ==
  \A i \in (taken + 1)..Len(sent) : \A k \in 1..Size(sent[i]), p \in 1..Held :
    off[taken] + p = off[i - 1] + k => IsCell(i, k, At(p))

\* While the receiver goes on, the frames it has not taken lie one after the other in
\* what is held.
StreamInv == reading => \E off : Places(off) /\ Extent(off) /\ Contents(off)

FrameTypes ==
  /\ sent \in Seq(Frames) /\ damaged \subseteq Nat
  /\ out \in Seq(Nat) /\ wire \in Seq(Nat) /\ buf \in Seq(Nat)
  /\ writing \in BOOLEAN /\ reading \in BOOLEAN
  /\ taken \in 0..Len(sent) /\ refused \subseteq 1..taken

\* The inductive invariant.
FramingInv == FrameTypes /\ StreamInv /\ RefusedForCause

\* A payload is a sequence of cells.
LEMMA PayloadIsSeq ==
  ASSUME NEW p \in Payloads
  PROVE  p \in Seq(Nat)
<1>1. Data \subseteq Nat
  BY FramingAssumption
<1>2. PICK m \in 0..(MaxPayload + 1) : p \in [1..m -> Data]
  BY DEF Payloads
<1>3. m \in Nat
  BY FramingAssumption
<1>4. p \in Seq(Data)
  BY <1>2, <1>3, SeqDef
<1> QED
  BY <1>1, <1>4, SeqMonotonic

\* What a frame consists of.
LEMMA FramesAre ==
  ASSUME NEW f \in Frames
  PROVE  /\ f.type \in 1..LastType /\ f.type \in Nat /\ f.payload \in Seq(Nat)
         /\ Len(f.payload) \in Nat /\ Size(f) \in Nat /\ Size(f) >= HeaderSize
<1>1. f.type \in Types
  BY DEF Frames
<1>2. f.payload \in Payloads
  BY DEF Frames
<1>3. f.type \in 1..LastType /\ f.type \in Nat
  <2>1. Types \subseteq 1..LastType
    BY FramingAssumption
  <2>2. f.type \in 1..LastType
    BY <1>1, <2>1
  <2> QED
    BY <2>2 DEF LastType
<1>4. MaxPayload \in Nat /\ MaxPayload + 1 \in Nat
  BY FramingAssumption
<1>5. f.payload \in Seq(Nat)
  BY <1>2, <1>4, PayloadIsSeq
<1>6. Len(f.payload) \in Nat
  BY <1>5
<1>7. Size(f) \in Nat /\ Size(f) >= HeaderSize
  BY <1>4, <1>6 DEF Size, HeaderSize
<1> QED
  BY <1>3, <1>5, <1>6, <1>7

\* Cells followed by cells.
LEMMA Joined ==
  ASSUME NEW h \in Seq(Nat), NEW p \in Seq(Nat)
  PROVE  /\ h \o p \in Seq(Nat) /\ Len(h \o p) = Len(h) + Len(p)
         /\ \A k \in 1..Len(h) : (h \o p)[k] = h[k]
         /\ \A k \in 1..Len(p) : (h \o p)[Len(h) + k] = p[k]
OBVIOUS

\* Three cells and a payload.
LEMMA AfterThree ==
  ASSUME NEW a \in Nat, NEW b \in Nat, NEW c \in Nat, NEW p \in Seq(Nat)
  PROVE  LET s == <<a, b, c>> \o p
         IN  /\ s \in Seq(Nat) /\ Len(s) = 3 + Len(p)
             /\ s[1] = a /\ s[2] = b /\ s[3] = c
             /\ \A k \in 1..Len(p) : s[3 + k] = p[k]
<1> DEFINE h == <<a, b, c>>
           s == h \o p
<1>1. h \in Seq(Nat) /\ Len(h) = 3 /\ h[1] = a /\ h[2] = b /\ h[3] = c
  OBVIOUS
<1> HIDE DEF h
<1>2. /\ s \in Seq(Nat) /\ Len(s) = 3 + Len(p) /\ \A k \in 1..3 : s[k] = h[k]
      /\ \A k \in 1..Len(p) : s[3 + k] = p[k]
  <2>1. /\ s \in Seq(Nat) /\ Len(s) = Len(h) + Len(p)
        /\ \A k \in 1..Len(h) : s[k] = h[k]
        /\ \A k \in 1..Len(p) : s[Len(h) + k] = p[k]
    BY <1>1, Joined, Zenon
  <2> HIDE DEF s
  <2> QED
    BY <1>1, <2>1, Zenon
<1>3. s[1] = a /\ s[2] = b /\ s[3] = c
  <2>1. 1 \in 1..3 /\ 2 \in 1..3 /\ 3 \in 1..3
    OBVIOUS
  <2> HIDE DEF s
  <2> QED
    BY <1>1, <1>2, <2>1, Zenon
<1> QED
  BY <1>2, <1>3 DEF h

\* s is a header of four cells and a payload.
IsWhole(s, a, b, c, d, p) ==
  /\ s \in Seq(Nat) /\ Len(s) = 4 + Len(p)
  /\ s[1] = a /\ s[2] = b /\ s[3] = c /\ s[4] = d
  /\ \A k \in 1..Len(p) : s[4 + k] = p[k]

\* Four cells and a payload.
LEMMA AfterFour ==
  ASSUME NEW a \in Nat, NEW b \in Nat, NEW c \in Nat, NEW d \in Nat, NEW p \in Seq(Nat)
  PROVE  IsWhole(<<a, b, c, d>> \o p, a, b, c, d, p)
<1> DEFINE h == <<a, b, c, d>>
           s == h \o p
<1>1. h \in Seq(Nat) /\ Len(h) = 4 /\ h[1] = a /\ h[2] = b /\ h[3] = c /\ h[4] = d
  OBVIOUS
<1> HIDE DEF h
<1>2. /\ s \in Seq(Nat) /\ Len(s) = 4 + Len(p) /\ \A k \in 1..4 : s[k] = h[k]
      /\ \A k \in 1..Len(p) : s[4 + k] = p[k]
  <2>1. /\ s \in Seq(Nat) /\ Len(s) = Len(h) + Len(p)
        /\ \A k \in 1..Len(h) : s[k] = h[k]
        /\ \A k \in 1..Len(p) : s[Len(h) + k] = p[k]
    BY <1>1, Joined, Zenon
  <2> HIDE DEF s
  <2> QED
    BY <1>1, <2>1, Zenon
<1>3. s[1] = a /\ s[2] = b /\ s[3] = c /\ s[4] = d
  <2>1. 1 \in 1..4 /\ 2 \in 1..4 /\ 3 \in 1..4 /\ 4 \in 1..4
    OBVIOUS
  <2> HIDE DEF s
  <2> QED
    BY <1>1, <1>2, <2>1, Zenon
<1>4. IsWhole(s, a, b, c, d, p)
  <2> HIDE DEF s
  <2> QED
    BY <1>2, <1>3 DEF IsWhole
<1> QED
  BY <1>4 DEF h

\* The body of a frame.
LEMMA BodyIs ==
  ASSUME NEW f \in Frames
  PROVE  /\ Body(f) \in Seq(Nat) /\ Len(Body(f)) = 3 + Len(f.payload)
         /\ Body(f)[1] = Magic /\ Body(f)[2] = f.type /\ Body(f)[3] = Len(f.payload)
         /\ \A k \in 1..Len(f.payload) : Body(f)[3 + k] = f.payload[k]
<1>1. f.type \in Nat /\ f.payload \in Seq(Nat) /\ Len(f.payload) \in Nat /\ Magic \in Nat
  BY FramesAre DEF Magic
<1> QED
  BY <1>1, AfterThree, SMTT(30) DEF Body

\* What encode_frame() returns for a sum.
LEMMA EncodedIs ==
  ASSUME NEW f \in Frames, NEW sum \in Nat
  PROVE  LET e == encode_frame(f, sum)
         IN  /\ e \in Seq(Nat) /\ Len(e) = Size(f)
             /\ e[1] = Magic /\ e[2] = f.type
             /\ e[3] = IF Len(f.payload) > MaxPayload THEN 0 ELSE Len(f.payload)
             /\ e[4] = IF Len(f.payload) > MaxPayload THEN 0 ELSE sum
             /\ \A k \in 5..Size(f) : e[k] = f.payload[k - 4]
<1> DEFINE e == encode_frame(f, sum)
<1>1. f.type \in Nat /\ f.payload \in Seq(Nat) /\ Len(f.payload) \in Nat /\ Magic \in Nat
  BY FramesAre DEF Magic
<1>2. CASE Len(f.payload) > MaxPayload
  BY <1>1, <1>2 DEF encode_frame, Size, HeaderSize, Magic
<1>3. CASE ~(Len(f.payload) > MaxPayload)
  <2>1. e = <<Magic, f.type, Len(f.payload), sum>> \o f.payload
    BY <1>3 DEF encode_frame
  <2>2. Size(f) = 4 + Len(f.payload)
    BY <1>3 DEF Size, HeaderSize
  <2>3. /\ e \in Seq(Nat) /\ Len(e) = 4 + Len(f.payload)
        /\ e[1] = Magic /\ e[2] = f.type /\ e[3] = Len(f.payload) /\ e[4] = sum
        /\ \A k \in 1..Len(f.payload) : e[4 + k] = f.payload[k]
    <3>1. IsWhole(<<Magic, f.type, Len(f.payload), sum>> \o f.payload,
                  Magic, f.type, Len(f.payload), sum, f.payload)
      BY <1>1, AfterFour, Zenon
    <3>2. IsWhole(e, Magic, f.type, Len(f.payload), sum, f.payload)
      <4> HIDE DEF e
      <4> QED
        BY <2>1, <3>1, Zenon
    <3> HIDE DEF e
    <3> QED
      BY <3>2, Zenon DEF IsWhole
  <2> HIDE DEF e
  <2>4. ASSUME NEW k \in 5..Size(f) PROVE e[k] = f.payload[k - 4]
    <3>1. k - 4 \in 1..Len(f.payload) /\ 4 + (k - 4) = k
      BY <1>1, <2>2
    <3> QED
      BY <2>3, <3>1
  <2> QED
    BY <1>3, <2>2, <2>3, <2>4 DEF e
<1> QED
  BY <1>2, <1>3

\* A step that takes nothing off the front of what is held, adds nothing to it, and
\* sends no frame keeps the stream in order.
LEMMA StreamKept ==
  ASSUME FrameTypes, StreamInv, FrameTypes', UNCHANGED <<sent, damaged, taken>>,
         reading, Held' <= Held, writing' => writing /\ Held' = Held,
         \A k \in 1..Held' : At(k)' = At(k)
  PROVE  StreamInv'
<1>1. PICK off : Places(off) /\ Extent(off) /\ Contents(off)
  BY DEF StreamInv
<1>2. Held \in Nat /\ Held' \in Nat /\ taken \in 0..Len(sent) /\ Len(sent) \in Nat
  BY DEF Held, FrameTypes
<1>3. Places(off)'
  BY <1>1 DEF Places
<1>4. off \in [0..Len(sent) -> Nat]
  BY <1>1 DEF Places
<1>5. Extent(off)'
  BY <1>1, <1>2, <1>4 DEF Extent
<1>6. Contents(off)'
  <2> SUFFICES ASSUME NEW i \in (taken + 1)..Len(sent), NEW k \in 1..Size(sent[i]),
                      NEW p \in 1..Held', off[taken] + p = off[i - 1] + k
               PROVE  IsCell(i, k, At(p))'
    BY DEF Contents
  <2>1. p \in 1..Held
    BY <1>2
  <2>2. IsCell(i, k, At(p))
    BY <1>1, <2>1 DEF Contents
  <2>3. At(p)' = At(p)
    OBVIOUS
  <2> QED
    BY <2>2, <2>3 DEF IsCell
<1> QED
  BY <1>3, <1>5, <1>6 DEF StreamInv

\* The first n cells of a sequence, and the others.
LEMMA Split ==
  ASSUME NEW s \in Seq(Nat), NEW n \in Nat, n <= Len(s)
  PROVE  LET h == SubSeq(s, 1, n)
             r == SubSeq(s, n + 1, Len(s))
         IN  /\ h \in Seq(Nat) /\ Len(h) = n /\ \A k \in 1..n : h[k] = s[k]
             /\ r \in Seq(Nat) /\ Len(r) = Len(s) - n
             /\ \A k \in 1..Len(r) : r[k] = s[n + k]
<1> DEFINE h == SubSeq(s, 1, n)
           r == SubSeq(s, n + 1, Len(s))
<1>1. Len(s) \in Nat /\ \A k \in 1..Len(s) : s[k] \in Nat
  OBVIOUS
<1>2. h \in Seq(Nat) /\ Len(h) = n /\ \A k \in 1..n : h[k] = s[k]
  <2>1. \A k \in 1..n : s[k] \in Nat
    BY <1>1
  <2>2. /\ h \in Seq(Nat) /\ Len(h) = IF 1 <= n THEN n - 1 + 1 ELSE 0
        /\ \A k \in 1..(n - 1 + 1) : h[k] = s[1 + k - 1]
    BY <2>1, SubSeqProperties
  <2> HIDE DEF h
  <2>3. n - 1 + 1 = n /\ \A k \in 1..n : 1 + k - 1 = k
    OBVIOUS
  <2> QED
    BY <2>2, <2>3
<1>3. r \in Seq(Nat) /\ Len(r) = Len(s) - n /\ \A k \in 1..Len(r) : r[k] = s[n + k]
  <2>1. \A k \in (n + 1)..Len(s) : s[k] \in Nat
    BY <1>1
  <2>2. /\ r \in Seq(Nat) /\ Len(r) = IF n + 1 <= Len(s) THEN Len(s) - (n + 1) + 1 ELSE 0
        /\ \A k \in 1..(Len(s) - (n + 1) + 1) : r[k] = s[n + 1 + k - 1]
    BY <1>1, <2>1, SubSeqProperties, SMTT(30)
  <2> HIDE DEF r
  <2>3. Len(s) - (n + 1) + 1 = Len(s) - n /\ \A k \in Nat : n + 1 + k - 1 = n + k
    BY <1>1
  <2>4. Len(r) = Len(s) - n
    BY <1>1, <2>2
  <2>5. Len(r) \in Nat /\ 1..Len(r) \subseteq Nat
    BY <1>1, <2>4
  <2>6. \A k \in 1..Len(r) : r[k] = s[n + 1 + k - 1]
    BY <2>2, <2>3, <2>4, Zenon
  <2>7. \A k \in 1..Len(r) : n + 1 + k - 1 = n + k
    BY <2>3, <2>5, Zenon
  <2>8. \A k \in 1..Len(r) : r[k] = s[n + k]
    BY <2>6, <2>7, Zenon
  <2> QED
    BY <2>2, <2>4, <2>8, Zenon
<1> QED
  BY <1>2, <1>3

\* The cells after the header are the payload.
LEMMA PayloadIs ==
  ASSUME NEW f \in Frames, NEW b \in Seq(Nat), Len(f.payload) <= MaxPayload,
         Len(b) = Size(f), \A k \in 5..Size(f) : b[k] = f.payload[k - 4]
  PROVE  SubSeq(b, 5, Len(b)) = f.payload
<1> DEFINE p == f.payload
           q == SubSeq(b, 5, Len(b))
<1>1. p \in Seq(Nat) /\ Len(p) \in Nat
  BY FramesAre
<1>2. Len(b) = 4 + Len(p) /\ Len(b) \in Nat
  BY <1>1, FramingAssumption DEF Size, HeaderSize
<1>4. q \in Seq(Nat) /\ Len(q) = Len(b) - 4 /\ \A i \in 1..Len(q) : q[i] = b[4 + i]
  <2> DEFINE r == SubSeq(b, 4 + 1, Len(b))
  <2>1. 4 \in Nat /\ 4 <= Len(b)
    BY <1>1, <1>2
  <2>2. r \in Seq(Nat) /\ Len(r) = Len(b) - 4 /\ \A i \in 1..Len(r) : r[i] = b[4 + i]
    BY <2>1, Split, Zenon
  <2>3. q = r
    OBVIOUS
  <2> HIDE DEF q, r
  <2> QED
    BY <2>2, <2>3
<1>5. Len(q) = Len(p)
  BY <1>1, <1>2, <1>4
<1>6. \A i \in 1..Len(p) : q[i] = p[i]
  <2> TAKE i \in 1..Len(p)
  <2>1. i \in 1..Len(q) /\ 4 + i \in 5..Size(f) /\ (4 + i) - 4 = i
    <3> DEFINE n == Len(p)
               l == Len(q)
               z == Size(f)
    <3>1. n \in Nat /\ l = n /\ z = 4 + n
      BY <1>1, <1>2, <1>5, Zenon
    <3>2. i \in 1..n
      OBVIOUS
    <3> HIDE DEF n, l, z
    <3>3. i \in 1..l /\ 4 + i \in 5..z /\ (4 + i) - 4 = i
      BY <3>1, <3>2
    <3> QED
      BY <3>3, Zenon DEF l, z
  <2> HIDE DEF q
  <2>2. q[i] = b[4 + i]
    BY <1>4, <2>1, Zenon
  <2>3. b[4 + i] = f.payload[(4 + i) - 4]
    BY <2>1, Zenon
  <2> QED
    BY <2>1, <2>2, <2>3
<1> HIDE DEF q, p
<1> QED
  BY <1>1, <1>4, <1>5, <1>6, SeqEqual DEF q, p

\* The first three cells.
LEMMA FirstThree ==
  ASSUME NEW b \in Seq(Nat), Len(b) >= 3
  PROVE  SubSeq(b, 1, 3) \in Seq(Nat) /\ SubSeq(b, 1, 3) = <<b[1], b[2], b[3]>>
<1> DEFINE q == SubSeq(b, 1, 3)
           t == <<b[1], b[2], b[3]>>
<1>1. \A i \in 1..3 : b[i] \in Nat
  OBVIOUS
<1>2. q \in Seq(Nat) /\ Len(q) = 3 /\ \A i \in 1..3 : q[i] = b[i]
  BY <1>1, SubSeqProperties
<1>3. t \in Seq(Nat) /\ Len(t) = 3 /\ t[1] = b[1] /\ t[2] = b[2] /\ t[3] = b[3]
  BY <1>1
<1> HIDE DEF q, t
<1>4. \A i \in 1..3 : q[i] = t[i]
  BY <1>2, <1>3
<1>5. q = t
  BY <1>2, <1>3, <1>4, SeqEqual
<1> QED
  BY <1>2, <1>5 DEF q, t

\* The cells decode_frame() computes the checksum of are the body of the frame.
LEMMA SummedIs ==
  ASSUME NEW f \in Frames, NEW b \in Seq(Nat), Len(f.payload) <= MaxPayload,
         Len(b) = Size(f), b[1] = Magic, b[2] = f.type, b[3] = Len(f.payload),
         \A k \in 5..Size(f) : b[k] = f.payload[k - 4]
  PROVE  SubSeq(b, 1, 3) \o SubSeq(b, 5, HeaderSize + b[3]) = Body(f)
<1>1. f.payload \in Seq(Nat) /\ Len(f.payload) \in Nat
  BY FramesAre
<1>2. Len(b) = 4 + Len(f.payload) /\ Len(b) \in Nat /\ HeaderSize + b[3] = Len(b)
  BY <1>1, FramingAssumption DEF Size, HeaderSize
<1>3. SubSeq(b, 1, 3) = <<Magic, f.type, Len(f.payload)>>
  <2>1. SubSeq(b, 1, 3) = <<b[1], b[2], b[3]>>
    BY <1>1, <1>2, FirstThree
  <2> QED
    BY <2>1
<1> QED
  BY <1>2, <1>3, PayloadIs DEF Body

\* The header of a frame that was too long is refused.
LEMMA LongRefused ==
  ASSUME NEW b \in Seq(Nat), NEW intact \in BOOLEAN, Len(b) = 4, b[3] = 0, b[4] = 0
  PROVE  decode_frame(b, intact) # "OK"
<1> DEFINE c == SubSeq(b, 1, 3) \o SubSeq(b, 5, HeaderSize + b[3])
<1>1. SubSeq(b, 5, HeaderSize + b[3]) = <<>>
  BY SubSeqEmpty DEF HeaderSize
<1>2. SubSeq(b, 1, 3) \in Seq(Nat)
  BY 4 >= 3, FirstThree
<1>3. c \in Seq(Nat)
  BY <1>1, <1>2, ConcatEmptySeq
<1> HIDE DEF c
<1>4. crc32(c) # b[4]
  BY <1>3, CrcPositive
<1> QED
  BY <1>4 DEF decode_frame, c

\* What decode_frame() makes of the cells of one frame: the frame, unless its payload was
\* too long or a checksum is wrong.
LEMMA DecodeIs ==
  ASSUME NEW f \in Frames, NEW b \in Seq(Nat), NEW intact \in BOOLEAN,
         Len(b) = Size(f), b[1] = Magic, b[2] = f.type,
         b[3] = IF Len(f.payload) > MaxPayload THEN 0 ELSE Len(f.payload),
         Len(f.payload) > MaxPayload => b[4] = 0,
         \A k \in 5..Size(f) : b[k] = f.payload[k - 4]
  PROVE  /\ decode_frame(b, intact) = "OK" => Decoded(b) = f
         /\ decode_frame(b, intact) # "OK" =>
              Len(f.payload) > MaxPayload \/ ~intact \/ b[4] # crc32(Body(f))
<1>1. /\ f.type \in 1..LastType /\ f.payload \in Seq(Nat) /\ Len(f.payload) \in Nat
      /\ MaxPayload \in Nat /\ Len(b) \in Nat
  BY FramesAre, FramingAssumption
<1>2. CASE Len(f.payload) > MaxPayload
  <2>1. Len(b) = 4 /\ b[3] = 0 /\ b[4] = 0
    BY <1>1, <1>2 DEF Size, HeaderSize
  <2>4. decode_frame(b, intact) # "OK"
    BY <2>1, LongRefused
  <2> QED
    BY <1>2, <2>4
<1>3. CASE ~(Len(f.payload) > MaxPayload)
  <2>1. Len(f.payload) <= MaxPayload /\ b[3] = Len(f.payload)
    BY <1>1, <1>3
  <2>2. Len(b) = HeaderSize + b[3] /\ HeaderSize <= Len(b)
    BY <1>1, <2>1 DEF Size, HeaderSize
  <2>3. SubSeq(b, 1, 3) \o SubSeq(b, 5, HeaderSize + b[3]) = Body(f)
    BY <2>1, SummedIs
  <2>4. Decoded(b) = f
    <3>1. SubSeq(b, HeaderSize + 1, Len(b)) = f.payload
      BY <2>1, PayloadIs DEF HeaderSize
    <3>2. f = [type |-> f.type, payload |-> f.payload]
      BY DEF Frames
    <3> QED
      BY <3>1, <3>2, Zenon DEF Decoded
  <2>5. intact /\ b[4] = crc32(Body(f)) => decode_frame(b, intact) = "OK"
    <3>1. /\ ~(Len(b) < HeaderSize) /\ ~(b[1] # Magic) /\ ~(b[3] > MaxPayload)
          /\ ~(HeaderSize + b[3] > Len(b))
      <4>1. ~(b[3] > MaxPayload)
        BY <1>3, <2>1, Zenon
      <4>2. ~(Len(b) < HeaderSize)
        BY <1>1, <2>2 DEF HeaderSize
      <4>3. ~(HeaderSize + b[3] > Len(b))
        BY <1>1, <2>2
      <4> QED
        BY <4>1, <4>2, <4>3
    <3>2. valid_type(b[2])
      BY <1>1 DEF valid_type
    <3> QED
      BY <2>2, <2>3, <3>1, <3>2, Zenon DEF decode_frame
  <2> QED
    BY <2>4, <2>5
<1> QED
  BY <1>2, <1>3

\* What has been read when recv_frame() returns is the next frame that was sent.
LEMMA NextFrame ==
  ASSUME FramingInv, reading, Len(buf) >= HeaderSize, Oversized \/ Len(buf) = Wanted
  PROVE  /\ taken + 1 \in 1..Len(sent) /\ ~Oversized
         /\ Len(buf) = Size(sent[taken + 1])
         /\ \A k \in 1..Len(buf) : IsCell(taken + 1, k, buf[k])
<1> DEFINE i == taken + 1
<1>1. PICK off : Places(off) /\ Extent(off) /\ Contents(off)
  BY DEF FramingInv, StreamInv
<1>2. /\ Len(buf) \in Nat /\ Len(wire) \in Nat /\ Len(out) \in Nat /\ Len(sent) \in Nat
      /\ taken \in 0..Len(sent)
  BY DEF FramingInv, FrameTypes
<1>3. Held \in Nat /\ Len(buf) <= Held
  BY <1>2 DEF Held
<1>4. taken # Len(sent)
  <2>1. off[taken] \in Nat
    BY <1>1, <1>2 DEF Places
  <2>2. Held <= off[Len(sent)] - off[taken]
    BY <1>1 DEF Extent
  <2>3. Len(buf) > 0
    BY <1>2 DEF HeaderSize
  <2> QED
    BY <1>2, <1>3, <2>1, <2>2, <2>3
<1>5. i \in 1..Len(sent) /\ i \in (taken + 1)..Len(sent) /\ i - 1 = taken
  BY <1>2, <1>4
<1>6. sent[i] \in Frames
  BY <1>5 DEF FramingInv, FrameTypes
<1>7. /\ Size(sent[i]) \in Nat /\ Size(sent[i]) >= HeaderSize
      /\ Len(sent[i].payload) \in Nat /\ MaxPayload \in Nat
  BY <1>6, FramesAre, FramingAssumption
<1>8. off[taken] \in Nat
  BY <1>1, <1>2 DEF Places
<1>9. ASSUME NEW k \in 1..Size(sent[i]), k <= Len(buf) PROVE IsCell(i, k, buf[k])
  <2>1. off[taken] + k = off[i - 1] + k /\ k \in 1..Held
    BY <1>2, <1>3, <1>5, <1>7, <1>8, <1>9
  <2>2. IsCell(i, k, At(k))
    <3> HIDE DEF i
    <3> QED
      BY <1>1, <1>5, <2>1 DEF Contents
  <2>3. At(k) = buf[k]
    BY <1>9 DEF At
  <2> QED
    BY <2>2, <2>3
<1>10. buf[3] = IF Len(sent[i].payload) > MaxPayload THEN 0 ELSE Len(sent[i].payload)
  <2>1. 3 \in 1..Size(sent[i]) /\ 3 <= Len(buf)
    BY <1>2, <1>7 DEF HeaderSize
  <2>2. IsCell(i, 3, buf[3])
    BY <1>9, <2>1
  <2> QED
    BY <2>2 DEF IsCell
<1>11. ~Oversized
  BY <1>7, <1>10 DEF Oversized
<1>12. Len(buf) = Size(sent[i])
  BY <1>2, <1>7, <1>10, <1>11 DEF Wanted, Size, HeaderSize
<1> QED
  BY <1>5, <1>9, <1>11, <1>12

----------------------------------------------------------------------------
(* The steps *)

\* A frame that is sent joins the queue at its end.
LEMMA QueueAppend ==
  ASSUME NEW s \in Seq(Frames), NEW f \in Frames, NEW t \in 0..Len(s)
  PROVE  SubSeq(Append(s, f), t + 1, Len(Append(s, f))) = Append(SubSeq(s, t + 1, Len(s)), f)
<1> DEFINE n == Len(s)
           a == Append(s, f)
           q == SubSeq(a, t + 1, n + 1)
           r == Append(SubSeq(s, t + 1, n), f)
<1>1. /\ n \in Nat /\ t \in Nat /\ t <= n /\ a \in Seq(Frames) /\ Len(a) = n + 1
      /\ \A i \in 1..n : a[i] = s[i] /\ s[i] \in Frames
      /\ a[n + 1] = f
  BY AppendProperties
<1> HIDE DEF a, n
<1>2. \A i \in (t + 1)..(n + 1) : a[i] \in Frames
  BY <1>1
<1>3. /\ q \in Seq(Frames) /\ Len(q) = n - t + 1
      /\ \A i \in 1..(n - t + 1) : q[i] = a[t + i]
  BY <1>1, <1>2, SubSeqProperties
<1>4. \A i \in (t + 1)..n : s[i] \in Frames
  BY <1>1
<1> DEFINE u == SubSeq(s, t + 1, n)
<1>5. /\ u \in Seq(Frames) /\ Len(u) = n - t
      /\ \A i \in 1..(n - t) : u[i] = s[t + i]
  BY <1>1, <1>4, SubSeqProperties
<1> HIDE DEF u, q
<1>6. /\ Append(u, f) \in Seq(Frames) /\ Len(Append(u, f)) = n - t + 1
      /\ \A i \in 1..(n - t) : Append(u, f)[i] = u[i]
      /\ Append(u, f)[n - t + 1] = f
  <2>1. n - t \in Nat
    BY <1>1
  <2> HIDE DEF r
  <2> QED
    BY <1>5, <2>1, AppendProperties
<1>7. ASSUME NEW i \in 1..(n - t + 1) PROVE q[i] = Append(u, f)[i]
  <2>1. CASE i \in 1..(n - t)
    <3>1. q[i] = a[t + i] /\ u[i] = s[t + i] /\ t + i \in 1..n
      BY <1>1, <1>3, <1>5, <2>1
    <3> QED
      BY <1>1, <1>6, <2>1, <3>1
  <2>2. CASE i = n - t + 1
    <3>1. q[i] = a[t + i] /\ t + i = n + 1
      BY <1>1, <1>3, <2>2
    <3> QED
      BY <1>1, <1>6, <2>2, <3>1
  <2>3. n - t \in Nat
    BY <1>1
  <2>4. i \in 1..(n - t) \/ i = n - t + 1
    BY <2>3
  <2> QED
    BY <2>1, <2>2, <2>4
<1>8. q = Append(u, f)
  BY <1>3, <1>6, <1>7, SeqEqual
<1> QED
  BY <1>1, <1>8 DEF q, u, a, n

\* Taking a frame leaves the rest of the queue.
LEMMA QueueTail ==
  ASSUME NEW s \in Seq(Frames), NEW t \in Nat, t + 1 \in 1..Len(s)
  PROVE  LET q == SubSeq(s, t + 1, Len(s))
         IN  q # <<>> /\ Head(q) = s[t + 1] /\ Tail(q) = SubSeq(s, t + 2, Len(s))
<1> DEFINE q == SubSeq(s, t + 1, Len(s))
<1>1. Len(s) \in t + 1..Len(s) /\ (t + 1) + 1 = t + 2
  OBVIOUS
<1>2. Head(q) = s[t + 1] /\ Tail(q) = SubSeq(s, (t + 1) + 1, Len(s))
  BY <1>1, HeadTailOfSubSeq
<1>3. \A i \in (t + 1)..Len(s) : s[i] \in Frames
  OBVIOUS
<1>4. q \in Seq(Frames) /\ Len(q) = IF t + 1 <= Len(s) THEN Len(s) - (t + 1) + 1 ELSE 0
  BY <1>3, SubSeqProperties
<1>5. q # <<>>
  <2>1. Len(q) # 0
    BY <1>1, <1>4
  <2> HIDE DEF q
  <2> QED
    BY <2>1
<1> QED
  BY <1>1, <1>2, <1>5

\* A step that changes neither the history nor the receiver keeps what was refused for
\* a reason, and is no step of the channel.
LEMMA Stutters ==
  ASSUME RefusedForCause, UNCHANGED <<sent, damaged, reading, taken, refused, delivered>>
  PROVE  /\ RefusedForCause'
         /\ UNCHANGED <<SubSeq(sent, taken + 1, Len(sent)), delivered, ~reading>>
BY DEF RefusedForCause

\* send_frame() puts the cells of a frame behind those of the frames before it.
LEMMA SendFrameStep ==
  ASSUME FramingInv, NEW f \in Frames, NEW intact \in BOOLEAN, send_frame(f, intact)
  PROVE  FramingInv' /\ Channel!Put(f)
<1> DEFINE n == Len(sent)
           sum == IF intact THEN crc32(Body(f)) ELSE 0
           long == Len(f.payload) > MaxPayload
<1>1. /\ sent \in Seq(Frames) /\ n \in Nat /\ taken \in 0..n /\ damaged \subseteq Nat
      /\ refused \subseteq 1..taken
      /\ out \in Seq(Nat) /\ wire \in Seq(Nat) /\ buf \in Seq(Nat)
      /\ writing \in BOOLEAN /\ reading \in BOOLEAN
  BY DEF FramingInv, FrameTypes
<1>2. /\ writing /\ out = <<>> /\ sent' = Append(sent, f)
      /\ damaged' = IF intact THEN damaged ELSE damaged \cup {Len(sent')}
      /\ out' = encode_frame(f, sum)
      /\ UNCHANGED <<wire, writing, buf, reading, taken, refused, delivered>>
  BY DEF send_frame
<1>a. n \in Nat /\ taken \in Nat /\ taken <= n
  BY <1>1
<1>b. /\ wire' = wire /\ buf' = buf /\ writing' = writing /\ writing /\ taken' = taken
  BY <1>2
<1>3. /\ sent' \in Seq(Frames) /\ Len(sent') = n + 1 /\ sent'[n + 1] = f
      /\ \A i \in 1..n : sent'[i] = sent[i]
  BY <1>1, <1>2, AppendProperties
<1>4. damaged' \subseteq Nat /\ damaged \subseteq damaged' /\ (~intact => n + 1 \in damaged')
  <2>1. n + 1 \in Nat /\ damaged \subseteq Nat /\ Len(sent') = n + 1
    BY <1>1, <1>3
  <2>2. damaged' = IF intact THEN damaged ELSE damaged \cup {Len(sent')}
    BY <1>2
  <2> HIDE DEF n
  <2> QED
    BY <2>1, <2>2
<1>5. sum \in Nat
  BY BodyIs, CrcPositive
<1> HIDE DEF sum, n, long
<1>6. /\ out' \in Seq(Nat) /\ Len(out') = Size(f) /\ Size(f) \in Nat
      /\ out'[1] = Magic /\ out'[2] = f.type
      /\ out'[3] = IF long THEN 0 ELSE Len(f.payload)
      /\ out'[4] = IF long THEN 0 ELSE sum
      /\ \A k \in 5..Size(f) : out'[k] = f.payload[k - 4]
  BY <1>2, <1>5, EncodedIs, FramesAre DEF long
<1>7. FrameTypes'
  <2>1. taken' = taken /\ taken' \in 0..(n + 1)
    BY <1>a, <1>b
  <2>2. taken' \in 0..Len(sent') /\ refused' \subseteq 1..taken'
    BY <1>1, <1>2, <1>3, <2>1, Zenon
  <2> QED
    BY <1>1, <1>2, <1>3, <1>4, <1>6, <2>2, Zenon DEF FrameTypes
<1>8. StreamInv'
  <2> SUFFICES ASSUME reading PROVE \E off : (Places(off) /\ Extent(off) /\ Contents(off))'
    BY <1>2 DEF StreamInv
  <2>1. PICK old : Places(old) /\ Extent(old) /\ Contents(old)
    BY DEF FramingInv, StreamInv
  <2>2. /\ old \in [0..n -> Nat] /\ \A i \in 1..n : old[i] = old[i - 1] + Size(sent[i])
        /\ \A i, j \in 0..n : i <= j => old[i] <= old[j]
    BY <2>1 DEF Places, n
  <2>3. PICK off : /\ off \in [0..(n + 1) -> Nat] /\ \A i \in 0..n : off[i] = old[i]
                   /\ off[n + 1] = old[n] + Size(f)
    <3> DEFINE new == [i \in 0..(n + 1) |-> IF i <= n THEN old[i] ELSE old[n] + Size(f)]
    <3>1. n \in 0..n /\ n + 1 \in 0..(n + 1) /\ ~(n + 1 <= n)
      BY <1>a
    <3>2. \A i \in 0..(n + 1) : i <= n => i \in 0..n
      BY <1>a
    <3>3. old[n] + Size(f) \in Nat
      BY <1>6, <2>2, <3>1
    <3>4. \A i \in 0..n : i \in 0..(n + 1) /\ i <= n
      BY <1>a
    <3>5. /\ new \in [0..(n + 1) -> Nat] /\ \A i \in 0..n : new[i] = old[i]
          /\ new[n + 1] = old[n] + Size(f)
      BY <2>2, <3>1, <3>2, <3>3, <3>4
    <3> QED
      BY <3>5, Zenon
  <2>4. Len(buf) \in Nat /\ Len(wire) \in Nat /\ Len(out) = 0
    BY <1>1, <1>2
  <2>5. Held = Len(buf) + Len(wire) /\ Held' = Held + Size(f) /\ Held \in Nat
    BY <1>2, <1>6, <2>4 DEF Held
  <2>6. Held = old[n] - old[taken] /\ old[n] \in Nat /\ old[taken] \in Nat
    <3>1. n \in 0..n
      BY <1>1
    <3>2. old[n] \in Nat /\ old[taken] \in Nat
      BY <1>1, <2>2, <3>1
    <3> QED
      BY <1>2, <2>1, <3>2 DEF Extent, n
  <2>7. Places(off)'
    <3>1. ASSUME NEW i \in 1..(n + 1) PROVE off[i] = off[i - 1] + Size(sent'[i])
      <4>1. CASE i \in 1..n
        <5>1. i - 1 \in 0..n /\ i \in 0..n
          BY <1>1, <4>1
        <5> QED
          BY <1>3, <2>2, <2>3, <4>1, <5>1
      <4>2. CASE i = n + 1
        <5>1. (n + 1) - 1 = n /\ n \in 0..n
          BY <1>a
        <5> QED
          BY <1>3, <2>3, <4>2, <5>1
      <4> QED
        BY <1>1, <4>1, <4>2
    <3>2. ASSUME NEW i \in 0..(n + 1), NEW j \in 0..(n + 1), i <= j PROVE off[i] <= off[j]
      <4>1. CASE j \in 0..n
        <5>1. i \in 0..n
          BY <1>1, <3>2, <4>1
        <5> QED
          BY <2>2, <2>3, <3>2, <4>1, <5>1
      <4>2. CASE j = n + 1 /\ i \in 0..n
        <5>1. old[i] <= old[n] /\ old[i] \in Nat
          BY <1>1, <2>2, <4>2
        <5>2. old[i] <= old[n] + Size(f)
          BY <1>6, <2>6, <5>1
        <5>3. off[i] = old[i] /\ off[j] = old[n] + Size(f)
          BY <2>3, <4>2, Zenon
        <5> QED
          BY <5>2, <5>3, Zenon
      <4>3. CASE i = n + 1 /\ j = n + 1
        BY <1>6, <2>3, <2>6, <4>3
      <4> QED
        BY <1>1, <3>2, <4>1, <4>2, <4>3
    <3> QED
      BY <1>3, <2>3, <3>1, <3>2 DEF Places
  <2>8. Extent(off)'
    <3>1. off[taken] = old[taken]
      BY <1>1, <2>3
    <3>2. Held' = off[n + 1] - off[taken]
      <4> DEFINE b == old[taken]
                 c == old[n]
                 h == Held
                 l == Size(f)
      <4>1. h = c - b /\ Held' = h + l /\ off[n + 1] = c + l /\ off[taken] = b
        BY <2>3, <2>5, <2>6, <3>1
      <4>2. b \in Nat /\ c \in Nat /\ h \in Nat /\ l \in Nat
        BY <1>6, <2>5, <2>6
      <4> HIDE DEF b, c, h, l
      <4>3. h + l = (c + l) - b
        BY <4>1, <4>2
      <4> QED
        BY <4>1, <4>3
    <3>3. off[n + 1] - off[taken] \in Int
      BY <1>6, <2>3, <2>6, <3>1
    <3> QED
      BY <1>b, <1>3, <3>2, <3>3 DEF Extent
  <2>9. Contents(off)'
    <3> SUFFICES ASSUME NEW i \in (taken + 1)..(n + 1), NEW k \in 1..Size(sent'[i]),
                        NEW p \in 1..Held', off[taken] + p = off[i - 1] + k
                 PROVE  IsCell(i, k, At(p))'
      BY <1>b, <1>3, Zenon DEF Contents
    <3>1. i \in Nat /\ i - 1 \in 0..n /\ taken \in 0..n /\ taken <= i - 1 /\ p \in Nat /\ 1 <= p
      BY <1>a, <2>5
    <3>2. /\ off[i - 1] = old[i - 1] /\ off[taken] = old[taken]
          /\ old[i - 1] \in Nat /\ old[taken] \in Nat /\ old[taken] <= old[i - 1]
      BY <2>2, <2>3, <3>1
    <3>3. CASE i \in 1..n
      <4>1. sent'[i] = sent[i] /\ sent[i] \in Frames /\ i \in (taken + 1)..n
        <5>1. sent'[i] = sent[i]
          BY <1>3, <3>3, Zenon
        <5>2. sent[i] \in Frames
          BY <1>1, <3>3 DEF n
        <5>3. i \in (taken + 1)..n
          BY <1>a, <3>1, <3>3
        <5> QED
          BY <5>1, <5>2, <5>3
      <4>2. Size(sent[i]) \in Nat /\ k \in 1..Size(sent[i])
        BY <4>1, FramesAre
      <4>3. old[i] = old[i - 1] + Size(sent[i]) /\ old[i] <= old[n] /\ old[i] \in Nat
        <5>1. i \in 0..n /\ n \in 0..n /\ i <= n
          BY <1>a, <3>3
        <5> QED
          BY <2>2, <3>3, <5>1
      <4>4. p <= Held
        BY <2>6, <3>1, <3>2, <4>2, <4>3
      <4>5. IsCell(i, k, At(p))
        <5>1. p \in 1..Held /\ old[taken] + p = old[i - 1] + k
          BY <2>5, <3>1, <3>2, <4>4
        <5> QED
          BY <2>1, <4>1, <4>2, <5>1 DEF Contents, n
      <4>6. At(p)' = At(p)
        BY <1>b, <2>4, <2>5, <3>1, <4>4 DEF At
      <4> QED
        BY <1>4, <4>1, <4>5, <4>6 DEF IsCell
    <3>4. CASE i = n + 1
      <4>1. sent'[i] = f /\ k \in 1..Size(f) /\ k \in Nat /\ 1 <= k
        <5>1. sent'[i] = f
          BY <1>3, <3>4, Zenon
        <5>2. k \in 1..Size(f)
          BY <5>1, Zenon
        <5> DEFINE z == Size(f)
        <5>3. z \in Nat
          BY <1>6
        <5> HIDE DEF z
        <5>4. k \in 1..z
          BY <5>2 DEF z
        <5>5. k \in Nat /\ 1 <= k
          BY <5>3, <5>4
        <5> QED
          BY <5>1, <5>2, <5>5, Zenon
      <4>2. p = Held + k
        <5> DEFINE h == Held
                   b == old[taken]
                   c == old[n]
        <5>1. h = c - b /\ b + p = c + k
          <6>1. i - 1 = n
            BY <1>a, <3>4
          <6> QED
            BY <2>6, <3>2, <6>1
        <5>2. h \in Nat /\ b \in Nat /\ c \in Nat /\ k \in Nat /\ p \in Nat
          BY <2>5, <2>6, <3>1, <4>1
        <5> HIDE DEF h, b, c
        <5>3. p = h + k
          BY <5>1, <5>2
        <5> QED
          BY <5>3 DEF h
      <4>3. At(p)' = out'[k]
        <5>1. /\ ~(p <= Len(buf)) /\ ~(p <= Len(buf) + Len(wire))
              /\ p - Len(buf) - Len(wire) = k
          BY <2>4, <2>5, <4>1, <4>2
        <5> QED
          BY <1>b, <5>1 DEF At
      <4>4. k > 4 => k \in 5..Size(f)
        BY <1>6, <4>1
      <4>5. intact => sum = crc32(Body(f))
        BY DEF sum
      <4> QED
        BY <1>4, <1>6, <3>4, <4>1, <4>3, <4>4, <4>5 DEF IsCell, long
    <3> QED
      BY <1>a, <3>1, <3>3, <3>4
  <2> QED
    BY <2>7, <2>8, <2>9
<1>9. RefusedForCause'
  BY <1>1, <1>2, <1>3, <1>4 DEF FramingInv, RefusedForCause, n
<1>10. Channel!Put(f)
  BY <1>1, <1>2, QueueAppend DEF Channel!Put, n
<1> QED
  BY <1>7, <1>8, <1>9, <1>10 DEF FramingInv

\* n cells went from the front of b to the end of a, and made c and d of them.
IsMove(a, b, n, c, d) ==
  /\ c \in Seq(Nat) /\ Len(c) = Len(a) + n
  /\ d \in Seq(Nat) /\ Len(d) = Len(b) - n
  /\ \A k \in 1..Len(a) : c[k] = a[k]
  /\ \A k \in (Len(a) + 1)..Len(c) : c[k] = b[k - Len(a)]
  /\ \A k \in 1..Len(d) : d[k] = b[n + k]

\* send_all() and recv_exact() do this.
LEMMA Moved ==
  ASSUME NEW a \in Seq(Nat), NEW b \in Seq(Nat), NEW n \in Nat, n <= Len(b)
  PROVE  IsMove(a, b, n, a \o SubSeq(b, 1, n), SubSeq(b, n + 1, Len(b)))
<1> DEFINE h == SubSeq(b, 1, n)
           d == SubSeq(b, n + 1, Len(b))
           c == a \o h
<1>1. /\ h \in Seq(Nat) /\ Len(h) = n /\ \A k \in 1..n : h[k] = b[k]
      /\ d \in Seq(Nat) /\ Len(d) = Len(b) - n /\ \A k \in 1..Len(d) : d[k] = b[n + k]
  BY Split, Zenon
<1> HIDE DEF h, d
<1>2. /\ c \in Seq(Nat) /\ Len(c) = Len(a) + n
      /\ \A k \in 1..Len(a) : c[k] = a[k]
      /\ \A k \in 1..n : c[Len(a) + k] = h[k]
  <2>1. /\ c \in Seq(Nat) /\ Len(c) = Len(a) + Len(h)
        /\ \A k \in 1..Len(a) : c[k] = a[k]
        /\ \A k \in 1..Len(h) : c[Len(a) + k] = h[k]
    BY <1>1, Joined, Zenon
  <2> HIDE DEF c
  <2> QED
    BY <1>1, <2>1, Zenon
<1> HIDE DEF c
<1>3. ASSUME NEW k \in (Len(a) + 1)..Len(c) PROVE c[k] = b[k - Len(a)]
  <2>1. Len(a) \in Nat
    OBVIOUS
  <2>2. k - Len(a) \in 1..n /\ Len(a) + (k - Len(a)) = k
    BY <1>2, <2>1
  <2>3. c[Len(a) + (k - Len(a))] = h[k - Len(a)] /\ h[k - Len(a)] = b[k - Len(a)]
    BY <1>1, <1>2, <2>2, Zenon
  <2> QED
    BY <2>2, <2>3, Zenon
<1>4. IsMove(a, b, n, c, d)
  BY <1>1, <1>2, <1>3 DEF IsMove
<1> QED
  BY <1>4 DEF c, d, h

\* send_all() moves cells to the socket and changes none.
LEMMA SendAllStep ==
  ASSUME FramingInv, NEW n \in Nat, send_all(n)
  PROVE  FramingInv' /\ UNCHANGED <<SubSeq(sent, taken + 1, Len(sent)), delivered, ~reading>>
<1>1. /\ wire \in Seq(Nat) /\ out \in Seq(Nat) /\ buf \in Seq(Nat)
      /\ Len(wire) \in Nat /\ Len(out) \in Nat /\ Len(buf) \in Nat
  BY DEF FramingInv, FrameTypes
<1>2. /\ n <= Len(out) /\ wire' = wire \o SubSeq(out, 1, n)
      /\ out' = SubSeq(out, n + 1, Len(out)) /\ buf' = buf /\ writing' = writing
      /\ UNCHANGED <<sent, damaged, reading, taken, refused, delivered>>
  BY DEF send_all
<1>3. /\ wire' \in Seq(Nat) /\ Len(wire') = Len(wire) + n
      /\ out' \in Seq(Nat) /\ Len(out') = Len(out) - n
      /\ \A k \in 1..Len(wire) : wire'[k] = wire[k]
      /\ \A k \in (Len(wire) + 1)..Len(wire') : wire'[k] = out[k - Len(wire)]
      /\ \A k \in 1..Len(out') : out'[k] = out[n + k]
  <2>1. /\ n <= Len(out) /\ wire' = wire \o SubSeq(out, 1, n)
        /\ out' = SubSeq(out, n + 1, Len(out))
    BY <1>2, Zenon
  <2>2. IsMove(wire, out, n, wire \o SubSeq(out, 1, n), SubSeq(out, n + 1, Len(out)))
    BY <1>1, <2>1, Moved, Zenon
  <2>3. IsMove(wire, out, n, wire', out')
    BY <2>1, <2>2, Zenon
  <2> QED
    BY <2>3, Zenon DEF IsMove
<1>l. /\ Len(wire') = Len(wire) + n /\ Len(out') = Len(out) - n /\ Len(buf') = Len(buf)
      /\ n <= Len(out) /\ Len(wire) \in Nat /\ Len(out) \in Nat /\ Len(buf) \in Nat
  BY <1>1, <1>2, <1>3, Zenon
<1>4. FrameTypes'
  BY <1>2, <1>3 DEF FramingInv, FrameTypes
<1>5. Held' = Held /\ Held \in Nat
  BY <1>l DEF Held
<1>6. ASSUME NEW k \in 1..Held' PROVE At(k)' = At(k)
  <2>1. k \in Nat /\ 1 <= k /\ k <= Len(buf) + Len(wire) + Len(out)
    BY <1>5 DEF Held
  <2>2. CASE k <= Len(buf)
    BY <1>2, <2>2 DEF At
  <2>3. CASE ~(k <= Len(buf)) /\ k <= Len(buf) + Len(wire)
    <3>1. k - Len(buf) \in 1..Len(wire) /\ k <= Len(buf) + Len(wire')
      BY <1>l, <2>1, <2>3
    <3> QED
      BY <1>2, <1>3, <2>3, <3>1 DEF At
  <2>4. CASE ~(k <= Len(buf) + Len(wire)) /\ k <= Len(buf) + Len(wire')
    <3>1. /\ k - Len(buf) \in (Len(wire) + 1)..Len(wire')
          /\ (k - Len(buf)) - Len(wire) = k - Len(buf) - Len(wire) /\ ~(k <= Len(buf))
      BY <1>l, <2>1, <2>4
    <3>2. wire'[k - Len(buf)] = out[k - Len(buf) - Len(wire)]
      BY <1>3, <3>1
    <3> QED
      BY <1>2, <2>4, <3>1, <3>2 DEF At
  <2>5. CASE ~(k <= Len(buf) + Len(wire'))
    <3>1. /\ k - Len(buf) - Len(wire') \in 1..Len(out')
          /\ n + (k - Len(buf) - Len(wire')) = k - Len(buf) - Len(wire)
          /\ ~(k <= Len(buf)) /\ ~(k <= Len(buf) + Len(wire))
      BY <1>l, <2>1, <2>5
    <3>2. out'[k - Len(buf) - Len(wire')] = out[k - Len(buf) - Len(wire)]
      BY <1>3, <3>1
    <3> QED
      BY <1>2, <2>5, <3>1, <3>2 DEF At
  <2> QED
    BY <2>2, <2>3, <2>4, <2>5
<1>7. StreamInv'
  <2>1. CASE reading
    <3>1. Held' <= Held
      BY <1>5
    <3> QED
      BY <1>2, <1>4, <1>5, <1>6, <2>1, <3>1, StreamKept DEF FramingInv
  <2>2. CASE ~reading
    BY <1>2, <2>2 DEF StreamInv
  <2> QED
    BY <2>1, <2>2
<1> QED
  BY <1>2, <1>4, <1>7, Stutters DEF FramingInv

\* recv_exact() moves cells from the socket and changes none.
LEMMA RecvExactStep ==
  ASSUME FramingInv, NEW n \in Nat, recv_exact(n)
  PROVE  FramingInv' /\ UNCHANGED <<SubSeq(sent, taken + 1, Len(sent)), delivered, ~reading>>
<1>1. /\ wire \in Seq(Nat) /\ out \in Seq(Nat) /\ buf \in Seq(Nat)
      /\ Len(wire) \in Nat /\ Len(out) \in Nat /\ Len(buf) \in Nat
  BY DEF FramingInv, FrameTypes
<1>2. /\ n <= Len(wire) /\ buf' = buf \o SubSeq(wire, 1, n)
      /\ wire' = SubSeq(wire, n + 1, Len(wire)) /\ out' = out /\ writing' = writing
      /\ reading /\ UNCHANGED <<sent, damaged, reading, taken, refused, delivered>>
  BY DEF recv_exact
<1>3. /\ buf' \in Seq(Nat) /\ Len(buf') = Len(buf) + n
      /\ wire' \in Seq(Nat) /\ Len(wire') = Len(wire) - n
      /\ \A k \in 1..Len(buf) : buf'[k] = buf[k]
      /\ \A k \in (Len(buf) + 1)..Len(buf') : buf'[k] = wire[k - Len(buf)]
      /\ \A k \in 1..Len(wire') : wire'[k] = wire[n + k]
  <2>1. /\ n <= Len(wire) /\ buf' = buf \o SubSeq(wire, 1, n)
        /\ wire' = SubSeq(wire, n + 1, Len(wire))
    BY <1>2, Zenon
  <2>2. IsMove(buf, wire, n, buf \o SubSeq(wire, 1, n), SubSeq(wire, n + 1, Len(wire)))
    BY <1>1, <2>1, Moved, Zenon
  <2>3. IsMove(buf, wire, n, buf', wire')
    BY <2>1, <2>2, Zenon
  <2> QED
    BY <2>3, Zenon DEF IsMove
<1>l. /\ Len(buf') = Len(buf) + n /\ Len(wire') = Len(wire) - n /\ Len(out') = Len(out)
      /\ n <= Len(wire) /\ Len(wire) \in Nat /\ Len(out) \in Nat /\ Len(buf) \in Nat
  BY <1>1, <1>2, <1>3, Zenon
<1>4. FrameTypes'
  BY <1>2, <1>3 DEF FramingInv, FrameTypes
<1>5. Held' = Held /\ Held \in Nat
  BY <1>l DEF Held
<1>6. ASSUME NEW k \in 1..Held' PROVE At(k)' = At(k)
  <2>1. k \in Nat /\ 1 <= k /\ k <= Len(buf) + Len(wire) + Len(out)
    BY <1>5 DEF Held
  <2>2. CASE k <= Len(buf)
    <3>1. k \in 1..Len(buf) /\ k <= Len(buf')
      BY <1>l, <2>1, <2>2
    <3> QED
      BY <1>3, <2>2, <3>1 DEF At
  <2>3. CASE ~(k <= Len(buf)) /\ k <= Len(buf')
    <3>1. k \in (Len(buf) + 1)..Len(buf') /\ k <= Len(buf) + Len(wire)
      BY <1>l, <2>1, <2>3
    <3> QED
      BY <1>3, <2>3, <3>1 DEF At
  <2>4. CASE ~(k <= Len(buf')) /\ k <= Len(buf) + Len(wire)
    <3>1. /\ k - Len(buf') \in 1..Len(wire') /\ n + (k - Len(buf')) = k - Len(buf)
          /\ ~(k <= Len(buf)) /\ k <= Len(buf') + Len(wire')
      BY <1>l, <2>1, <2>4
    <3>2. wire'[k - Len(buf')] = wire[k - Len(buf)]
      BY <1>3, <3>1
    <3> QED
      BY <2>4, <3>1, <3>2 DEF At
  <2>5. CASE ~(k <= Len(buf')) /\ ~(k <= Len(buf) + Len(wire))
    <3>1. /\ k - Len(buf') - Len(wire') = k - Len(buf) - Len(wire)
          /\ ~(k <= Len(buf)) /\ ~(k <= Len(buf') + Len(wire'))
      BY <1>l, <2>1, <2>5
    <3> QED
      BY <1>2, <2>5, <3>1 DEF At
  <2> QED
    BY <2>2, <2>3, <2>4, <2>5
<1>7. StreamInv'
  <2>1. Held' <= Held
    BY <1>5
  <2> QED
    BY <1>2, <1>4, <1>5, <1>6, <2>1, StreamKept DEF FramingInv
<1> QED
  BY <1>2, <1>4, <1>7, Stutters DEF FramingInv

\* What a sender gives up was not yet sent.
LEMMA SendFailsStep ==
  ASSUME FramingInv, SendFails
  PROVE  FramingInv' /\ UNCHANGED <<SubSeq(sent, taken + 1, Len(sent)), delivered, ~reading>>
<1>1. FrameTypes'
  BY DEF FramingInv, FrameTypes, SendFails
<1>2. StreamInv'
  BY DEF StreamInv, SendFails
<1> QED
  BY <1>1, <1>2, Stutters DEF FramingInv, SendFails

\* What is lost with a sender is the end of the stream.
LEMMA SenderGoneStep ==
  ASSUME FramingInv, NEW reset \in BOOLEAN, SenderGone(reset)
  PROVE  FramingInv' /\ UNCHANGED <<SubSeq(sent, taken + 1, Len(sent)), delivered, ~reading>>
<1>1. FrameTypes'
  <2>1. out' \in Seq(Nat) /\ wire' \in Seq(Nat) /\ writing' \in BOOLEAN
    <3>1. wire \in Seq(Nat) /\ <<>> \in Seq(Nat)
      BY DEF FramingInv, FrameTypes
    <3>2. wire' = <<>> \/ wire' = wire
      BY DEF SenderGone
    <3> QED
      BY <3>1, <3>2 DEF SenderGone
  <2>2. UNCHANGED <<sent, damaged, buf, reading, taken, refused>>
    BY DEF SenderGone
  <2> QED
    BY <2>1, <2>2 DEF FramingInv, FrameTypes
<1>2. /\ Len(wire) \in Nat /\ Len(out) \in Nat /\ Len(buf) \in Nat
      /\ Len(out') = 0 /\ buf' = buf /\ Len(wire') \in {0, Len(wire)} /\ ~writing'
  BY DEF FramingInv, FrameTypes, SenderGone
<1>3. Held' <= Held
  BY <1>2 DEF Held
<1>4. ASSUME NEW k \in 1..Held' PROVE At(k)' = At(k)
  <2>1. CASE Len(wire') = 0
    <3>1. k <= Len(buf)
      BY <1>2, <2>1 DEF Held
    <3> QED
      BY <1>2, <3>1 DEF At
  <2>2. CASE wire' = wire
    <3>1. k <= Len(buf) + Len(wire)
      BY <1>2, <2>2 DEF Held
    <3> QED
      BY <1>2, <2>2, <3>1 DEF At
  <2> QED
    BY <2>1, <2>2 DEF SenderGone
<1>5. StreamInv'
  <2>1. CASE reading
    BY <1>1, <1>2, <1>3, <1>4, <2>1, StreamKept DEF FramingInv, SenderGone
  <2>2. CASE ~reading
    BY <2>2 DEF StreamInv, SenderGone
  <2> QED
    BY <2>1, <2>2
<1> QED
  BY <1>1, <1>5, Stutters DEF FramingInv, SenderGone

\* recv_frame() takes exactly the cells of the next frame.
LEMMA RecvFrameStep ==
  ASSUME FramingInv, NEW intact \in BOOLEAN, NEW goon \in BOOLEAN, recv_frame(intact, goon)
  PROVE  FramingInv' /\ (Channel!Deliver \/ Channel!Refuse)
<1> DEFINE i == taken + 1
           f == sent[i]
<1>1. /\ sent \in Seq(Frames) /\ Len(sent) \in Nat /\ taken \in 0..Len(sent)
      /\ damaged \subseteq Nat /\ refused \subseteq 1..taken
      /\ out \in Seq(Nat) /\ wire \in Seq(Nat) /\ buf \in Seq(Nat)
      /\ Len(out) \in Nat /\ Len(wire) \in Nat /\ Len(buf) \in Nat
      /\ writing \in BOOLEAN /\ reading \in BOOLEAN
  BY DEF FramingInv, FrameTypes
<1>2. /\ reading /\ Len(buf) >= HeaderSize /\ (Oversized \/ Len(buf) = Wanted)
      /\ taken' = i /\ buf' = <<>> /\ UNCHANGED <<sent, out, wire, writing>>
  BY DEF recv_frame
<1>3. /\ i \in 1..Len(sent) /\ ~Oversized /\ Len(buf) = Size(f)
      /\ \A k \in 1..Len(buf) : IsCell(i, k, buf[k])
  BY <1>2, NextFrame
<1>a. taken \in Nat /\ i \in Nat /\ i \in 1..Len(sent) /\ i - 1 = taken
  BY <1>1, <1>3
<1>c. Len(out) \in Nat /\ Len(wire) \in Nat /\ Len(buf) \in Nat
  BY <1>1
<1>4. f \in Frames /\ Size(f) \in Nat /\ Size(f) >= 4
  BY <1>1, <1>3, FramesAre DEF HeaderSize
<1>5. /\ buf[1] = Magic /\ buf[2] = f.type
      /\ buf[3] = IF Len(f.payload) > MaxPayload THEN 0 ELSE Len(f.payload)
      /\ Len(f.payload) > MaxPayload => buf[4] = 0
      /\ buf[4] = crc32(Body(f)) \/ i \in damaged \/ Len(f.payload) > MaxPayload
      /\ \A k \in 5..Size(f) : buf[k] = f.payload[k - 4]
  <2>1. /\ 1 \in 1..Len(buf) /\ 2 \in 1..Len(buf) /\ 3 \in 1..Len(buf) /\ 4 \in 1..Len(buf)
        /\ \A k \in 5..Size(f) : k \in 1..Len(buf) /\ k > 4
    BY <1>3, <1>4
  <2> QED
    BY <1>3, <2>1 DEF IsCell
<1> HIDE DEF i, f
<1>6. /\ decode_frame(buf, intact) = "OK" => Decoded(buf) = f
      /\ decode_frame(buf, intact) # "OK" =>
           Len(f.payload) > MaxPayload \/ ~intact \/ i \in damaged
  BY <1>1, <1>3, <1>4, <1>5, DecodeIs
<1>7. \/ /\ decode_frame(buf, intact) = "OK"
         /\ delivered' = Append(delivered, f)
         /\ UNCHANGED <<refused, reading, damaged>>
      \/ /\ decode_frame(buf, intact) # "OK"
         /\ refused' = refused \cup {i} /\ reading' \in BOOLEAN
         /\ damaged' = IF intact THEN damaged ELSE damaged \cup {i}
         /\ UNCHANGED delivered
  BY <1>2, <1>3, <1>6 DEF recv_frame
<1>8. FrameTypes'
  <2>1. reading' \in BOOLEAN
    BY <1>1, <1>7
  <2>2. damaged' \subseteq Nat
    BY <1>1, <1>a, <1>7
  <2>3. refused' \subseteq refused \cup {i}
    BY <1>7
  <2>4. refused' \subseteq 1..i
    BY <1>1, <1>a, <2>3
  <2>5. taken' \in 0..Len(sent')
    BY <1>1, <1>2, <1>a
  <2>6. buf' \in Seq(Nat)
    BY <1>2
  <2> QED
    BY <1>1, <1>2, <2>1, <2>2, <2>4, <2>5, <2>6 DEF FrameTypes
<1>9. RefusedForCause'
  <2>1. damaged \subseteq damaged'
    BY <1>7
  <2>2. ASSUME NEW j \in refused PROVE Len(sent'[j].payload) > MaxPayload \/ j \in damaged'
    BY <1>2, <2>1, <2>2 DEF FramingInv, RefusedForCause
  <2>3. ASSUME i \in refused' PROVE Len(sent'[i].payload) > MaxPayload \/ i \in damaged'
    <3>1. i \notin refused
      BY <1>1, <1>a DEF i
    <3>2. Len(f.payload) > MaxPayload \/ i \in damaged'
      BY <1>6, <1>7, <2>3, <3>1
    <3> QED
      BY <1>2, <3>2 DEF f
  <2>4. refused' \subseteq refused \cup {i}
    BY <1>7
  <2> QED
    BY <2>2, <2>3, <2>4 DEF RefusedForCause
<1>10. StreamInv'
  <2>1. PICK off : Places(off) /\ Extent(off) /\ Contents(off)
    BY <1>2 DEF FramingInv, StreamInv
  <2>2. /\ off \in [0..Len(sent) -> Nat]
        /\ \A j \in 1..Len(sent) : off[j] = off[j - 1] + Size(sent[j])
    BY <2>1 DEF Places
  <2>3. /\ off[i] = off[taken] + Len(buf) /\ off[i] \in Nat /\ off[taken] \in Nat
        /\ off[Len(sent)] \in Nat
    <3>1. i \in 0..Len(sent) /\ taken \in 0..Len(sent) /\ Len(sent) \in 0..Len(sent)
      BY <1>1, <1>a
    <3>2. off[i] = off[i - 1] + Size(sent[i])
      BY <1>a, <2>2
    <3> QED
      BY <1>3, <1>a, <2>2, <3>1, <3>2 DEF f
  <2>4. /\ Held = Len(buf) + Len(wire) + Len(out) /\ Held' = Len(wire) + Len(out)
        /\ Held \in Nat /\ Held' \in Nat
    BY <1>1, <1>2 DEF Held
  <2>5. Places(off)'
    BY <1>2, <2>1 DEF Places
  <2>6. Extent(off)'
    <3>1. /\ Held <= off[Len(sent)] - off[taken]
          /\ writing => Held = off[Len(sent)] - off[taken]
      BY <2>1 DEF Extent
    <3>2. Held = Held' + Len(buf)
      BY <1>1, <2>4
    <3>3. /\ Held' <= off[Len(sent)] - off[i]
          /\ writing => Held' = off[Len(sent)] - off[i]
      <4>1. /\ off[i] = off[taken] + Len(buf) /\ off[i] \in Nat /\ off[taken] \in Nat
            /\ off[Len(sent)] \in Nat /\ Len(buf) \in Nat /\ Held \in Nat /\ Held' \in Nat
        BY <1>c, <2>3, <2>4, Zenon
      <4>2. /\ (Held <= off[Len(sent)] - off[taken]) <=> (Held' <= off[Len(sent)] - off[i])
            /\ (Held = off[Len(sent)] - off[taken]) <=> (Held' = off[Len(sent)] - off[i])
        <5> DEFINE a == off[Len(sent)]
                   b == off[taken]
                   c == off[i]
                   l == Len(buf)
                   h == Held
                   g == Held'
        <5>1. c = b + l /\ h = g + l
          BY <3>2, <4>1
        <5>2. a \in Nat /\ b \in Nat /\ c \in Nat /\ l \in Nat /\ h \in Nat /\ g \in Nat
          BY <4>1
        <5> HIDE DEF a, b, c, l, h, g
        <5>3. ((h <= a - b) <=> (g <= a - c)) /\ ((h = a - b) <=> (g = a - c))
          BY <5>1, <5>2
        <5> QED
          BY <5>3 DEF a, b, c, l, h, g
      <4> QED
        BY <3>1, <4>2, Zenon
    <3>4. taken' = i /\ sent' = sent /\ writing' = writing
      BY <1>2
    <3> QED
      BY <3>3, <3>4, Zenon DEF Extent
  <2>7. Contents(off)'
    <3> SUFFICES ASSUME NEW j \in (i + 1)..Len(sent), NEW k \in 1..Size(sent[j]),
                        NEW p \in 1..Held', off[i] + p = off[j - 1] + k
                 PROVE  IsCell(j, k, At(p))'
      BY <1>2 DEF Contents
    <3>1. /\ j \in (taken + 1)..Len(sent) /\ j \in 1..Len(sent) /\ j - 1 \in 0..Len(sent)
          /\ p \in Nat /\ 1 <= p
      BY <1>1, <1>a, <2>4
    <3>2. sent[j] \in Frames
      BY <1>1, <3>1
    <3>3. Size(sent[j]) \in Nat
      BY <3>2, FramesAre
    <3>8. off[j - 1] \in Nat /\ k \in Nat /\ p <= Held' /\ Held = Held' + Len(buf)
      <4>1. off[j - 1] \in Nat
        BY <2>2, <3>1
      <4>2. k \in Nat
        BY <3>3
      <4>3. p <= Held' /\ Held = Held' + Len(buf)
        BY <1>c, <2>4
      <4> QED
        BY <4>1, <4>2, <4>3
    <3>4. /\ Len(buf) + p \in 1..Held /\ off[taken] + (Len(buf) + p) = off[j - 1] + k
      <4>1. /\ off[i] = off[taken] + Len(buf) /\ off[i] \in Nat /\ off[taken] \in Nat
            /\ off[Len(sent)] \in Nat /\ Len(buf) \in Nat /\ Held \in Nat /\ Held' \in Nat
        BY <1>c, <2>3, <2>4, Zenon
      <4>2. /\ \A r \in 1..Held' : Len(buf) + r \in 1..Held
            /\ \A r \in 1..Held', q, m \in Nat :
                 (off[i] + r = q + m) => (off[taken] + (Len(buf) + r) = q + m)
        <5> DEFINE b == off[taken]
                   c == off[i]
                   l == Len(buf)
                   h == Held
                   g == Held'
        <5>1. c = b + l /\ h = g + l
          BY <3>8, <4>1
        <5>2. b \in Nat /\ c \in Nat /\ l \in Nat /\ h \in Nat /\ g \in Nat
          BY <4>1
        <5> HIDE DEF b, c, l, h, g
        <5>3. /\ \A r \in 1..g : l + r \in 1..h
              /\ \A r \in 1..g, q, m \in Nat : (c + r = q + m) => (b + (l + r) = q + m)
          BY <5>1, <5>2
        <5> QED
          BY <5>3 DEF b, c, l, h, g
      <4> QED
        BY <3>8, <4>2, Zenon
    <3>5. IsCell(j, k, At(Len(buf) + p))
      BY <2>1, <3>1, <3>4 DEF Contents
    <3>6. At(p)' = At(Len(buf) + p)
      <4>1. /\ ~(Len(buf) + p <= Len(buf)) /\ (Len(buf) + p) - Len(buf) = p
            /\ (Len(buf) + p <= Len(buf) + Len(wire)) <=> (p <= Len(wire))
            /\ ~(p <= 0) /\ p - 0 = p /\ 0 + Len(wire) = Len(wire)
        BY <1>1, <3>1
      <4>2. Len(buf') = 0 /\ wire' = wire /\ out' = out
        BY <1>2
      <4> QED
        BY <4>1, <4>2 DEF At
    <3>7. damaged \subseteq damaged' /\ sent' = sent
      BY <1>2, <1>7
    <3> QED
      BY <3>5, <3>6, <3>7 DEF IsCell
  <2> QED
    BY <2>5, <2>6, <2>7 DEF StreamInv
<1>11. Channel!Deliver \/ Channel!Refuse
  <2>1. LET q == SubSeq(sent, taken + 1, Len(sent))
        IN  q # <<>> /\ Head(q) = sent[taken + 1] /\ Tail(q) = SubSeq(sent, taken + 2, Len(sent))
    <3>1. taken + 1 \in 1..Len(sent)
      BY <1>a DEF i
    <3> QED
      BY <1>1, <1>a, <3>1, QueueTail
  <2>2. SubSeq(sent, taken + 1, Len(sent))' = SubSeq(sent, taken + 2, Len(sent))
    <3>1. i + 1 = taken + 2
      BY <1>a DEF i
    <3> QED
      BY <1>2, <3>1
  <2> QED
    BY <1>2, <1>7, <2>1, <2>2 DEF Channel!Deliver, Channel!Refuse, f, i
<1> QED
  BY <1>8, <1>9, <1>10, <1>11 DEF FramingInv

\* A receiver that stops has no use for the stream.
LEMMA ReaderEndsStep ==
  ASSUME FramingInv, Truncated \/ ReceiverGone
  PROVE  FramingInv' /\ Channel!End
<1>1. /\ reading' = FALSE
      /\ UNCHANGED <<sent, damaged, out, wire, writing, buf, taken, refused, delivered>>
  BY DEF Truncated, ReceiverGone
<1>2. FrameTypes' /\ StreamInv' /\ RefusedForCause'
  BY <1>1 DEF FramingInv, FrameTypes, StreamInv, RefusedForCause
<1>3. Channel!End
  BY <1>1 DEF Channel!End
<1> QED
  BY <1>2, <1>3 DEF FramingInv

\* Before the first frame nothing is held.
LEMMA FramingStarts ==
  ASSUME FramingInit
  PROVE  FramingInv /\ Channel!ChannelInit
<1>1. FrameTypes /\ RefusedForCause
  BY DEF FramingInit, FrameTypes, RefusedForCause
<1>2. StreamInv
  <2> DEFINE off == [i \in 0..0 |-> 0]
  <2>1. Len(sent) = 0 /\ Held = 0 /\ taken = 0
    BY DEF FramingInit, Held
  <2>2. Places(off)
    BY <2>1 DEF Places
  <2>3. Extent(off)
    BY <2>1 DEF Extent
  <2>4. Contents(off)
    BY <2>1 DEF Contents
  <2> QED
    BY <2>2, <2>3, <2>4 DEF StreamInv
<1>3. SubSeq(sent, taken + 1, Len(sent)) = <<>>
  BY DEF FramingInit
<1>4. Channel!ChannelInit
  BY <1>3 DEF FramingInit, Channel!ChannelInit
<1> QED
  BY <1>1, <1>2, <1>4 DEF FramingInv

\* Every step keeps the invariant, and is a step of the channel or none.
LEMMA FramingStep ==
  ASSUME FramingInv, [FramingNext]_framing
  PROVE  /\ FramingInv'
         /\ [Channel!ChannelNext]_<<SubSeq(sent, taken + 1, Len(sent)), delivered, ~reading>>
<1>1. ASSUME NEW f \in Frames, NEW intact \in Computed, send_frame(f, intact)
      PROVE  FramingInv' /\ Channel!ChannelNext
  <2>1. intact \in BOOLEAN
    BY DEF Computed
  <2>2. FramingInv' /\ Channel!Put(f)
    BY <1>1, <2>1, SendFrameStep
  <2> QED
    BY <2>2, Zenon DEF Channel!ChannelNext
<1>2. ASSUME Sending
      PROVE  FramingInv' /\ UNCHANGED <<SubSeq(sent, taken + 1, Len(sent)), delivered, ~reading>>
  <2>1. PICK n \in 1..Room : send_all(n)
    BY <1>2 DEF Sending
  <2>2. n \in Nat
    BY FramingAssumption
  <2> QED
    BY <2>1, <2>2, SendAllStep
<1>3. ASSUME NEW n \in 1..(HeaderSize + MaxPayload), recv_exact(n)
      PROVE  FramingInv' /\ UNCHANGED <<SubSeq(sent, taken + 1, Len(sent)), delivered, ~reading>>
  <2>1. n \in Nat
    BY FramingAssumption DEF HeaderSize
  <2> QED
    BY <1>3, <2>1, RecvExactStep
<1>4. ASSUME NEW intact \in Computed, NEW goon \in BOOLEAN, recv_frame(intact, goon)
      PROVE  FramingInv' /\ Channel!ChannelNext
  <2>1. intact \in BOOLEAN
    BY DEF Computed
  <2>2. FramingInv' /\ (Channel!Deliver \/ Channel!Refuse)
    BY <1>4, <2>1, RecvFrameStep
  <2> QED
    BY <2>2, Zenon DEF Channel!ChannelNext
<1>5. ASSUME Truncated \/ ReceiverGone PROVE FramingInv' /\ Channel!ChannelNext
  BY <1>5, ReaderEndsStep DEF Channel!ChannelNext
<1>6. ASSUME UNCHANGED framing
      PROVE  FramingInv' /\ UNCHANGED <<SubSeq(sent, taken + 1, Len(sent)), delivered, ~reading>>
  <2>1. UNCHANGED <<sent, damaged, out, wire, writing, buf, reading, taken, refused, delivered>>
    BY <1>6 DEF framing
  <2>2. FrameTypes' /\ RefusedForCause'
    BY <2>1 DEF FramingInv, FrameTypes, RefusedForCause
  <2>3. StreamInv'
    <3>1. Held' = Held /\ \A k \in 1..Held' : At(k)' = At(k)
      BY <2>1 DEF Held, At
    <3>2. Held \in Nat
      BY DEF FramingInv, FrameTypes, Held
    <3>3. Held' <= Held
      BY <3>1, <3>2
    <3>4. CASE reading
      BY <2>1, <2>2, <3>1, <3>3, <3>4, StreamKept DEF FramingInv
    <3>5. CASE ~reading
      BY <2>1, <3>5 DEF StreamInv
    <3> QED
      BY <3>4, <3>5
  <2> QED
    BY <2>1, <2>2, <2>3, Stutters DEF FramingInv
<1> QED
  BY <1>1, <1>2, <1>3, <1>4, <1>5, <1>6, SendFailsStep, SenderGoneStep
  DEF FramingNext, Receiving

\* However the stream is cut and whatever crc32() computes, recv_frame() refuses a frame
\* only if encode_frame() left out its payload or its checksum was computed wrong.
THEOREM FramesRefusedForCause == FramingSpec => []RefusedForCause
<1>1. FramingInit => FramingInv
  BY FramingStarts
<1>2. FramingInv /\ [FramingNext]_framing => FramingInv'
  BY FramingStep
<1>3. FramingInv => RefusedForCause
  BY DEF FramingInv
<1> QED
  BY <1>1, <1>2, <1>3, PTL DEF FramingSpec

\* send_frame() and recv_frame() over a stream of cells implement a queue of frames: they
\* arrive whole and in order, and one that is refused takes exactly its own cells away.
THEOREM FramingImplementsChannel == FramingSpec => ImplementsChannel
<1>1. FramingInit => FramingInv /\ Channel!ChannelInit
  BY FramingStarts
<1>2. FramingInv /\ [FramingNext]_framing =>
        /\ FramingInv'
        /\ [Channel!ChannelNext]_<<SubSeq(sent, taken + 1, Len(sent)), delivered, ~reading>>
  BY FramingStep
<1> QED
  BY <1>1, <1>2, PTL DEF FramingSpec, ImplementsChannel, Channel!ChannelSpec

=============================================================================
