----------------------------- MODULE PersistFile -----------------------------
(***************************************************************************)
(* How write_persisted() (src/core/persistence.cpp) puts a state into the  *)
(* file, and what read_persisted() accepts.  Writers are the threads of    *)
(* one process that call persist_now(); they all use the temporary name    *)
(* path.tmp.  Names refer to files that exist apart from their names, as   *)
(* in POSIX: a thread writes the file it opened, wherever that is now.     *)
(*                                                                         *)
(* A file is a sequence of cells.  State v is written as a header cell and *)
(* some payload cells, each of them v; the header has their number and     *)
(* checksum, and cell 0 is a hole.  A stream may hand the cells to the     *)
(* system one at a time.                                                   *)
(***************************************************************************)
EXTENDS Integers, Sequences, FiniteSets

CONSTANTS
  Writers,      \* threads of the process
  MaxCells,     \* bound: payload cells of a state
  MaxWrites     \* bound: states written

ASSUME PersistAssumption == MaxCells \in Nat \ {0} /\ MaxWrites \in Nat

VARIABLES
  length,       \* length[v]: payload cells of the v-th state that was to be written
  files,        \* contents of the files, by number
  names,        \* the file each of the two names refers to, 0 for none
  writer,       \* per thread: the state and the file it writes, and its place in it
  terminated    \* an exception left a thread

fileVars == <<length, files, names, writer, terminated>>

NoWriter == [version |-> 0, file |-> 0, at |-> 0]

FileInit ==
  /\ length = <<>> /\ files = <<>>
  /\ names = [path |-> 0, tmp |-> 0]
  /\ writer = [w \in Writers |-> NoWriter]
  /\ terminated = FALSE

\* read_persisted(): a whole header, the payload of the length it gives, nothing after
\* it, and the checksum of the two.
Accepted(cells) ==
  /\ cells # <<>> /\ Head(cells) # 0
  /\ Len(cells) = 1 + length[Head(cells)]
  /\ \A i \in 1..Len(cells) : cells[i] = Head(cells)

----------------------------------------------------------------------------
(* write_persisted() *)

\* (Mutant: the file is opened by its own name.)
Open_in_place(w, n) ==
  /\ ~terminated /\ writer[w] = NoWriter /\ Len(length) < MaxWrites
  /\ length' = Append(length, n)
  /\ IF names.path = 0
     THEN /\ files' = Append(files, <<>>)
          /\ names' = [names EXCEPT !.path = Len(files) + 1, !.tmp = Len(files) + 1]
     ELSE files' = [files EXCEPT ![names.path] = <<>>] /\ names' = [names EXCEPT !.tmp = names.path]
  /\ writer' = [writer EXCEPT ![w] = [version |-> Len(length) + 1, file |-> names'.path, at |-> 1]]
  /\ UNCHANGED terminated

\* std::ofstream(path.tmp, trunc): the file of that name is emptied, or made.
Open(w, n) ==
  /\ ~terminated /\ writer[w] = NoWriter /\ Len(length) < MaxWrites
  /\ length' = Append(length, n)
  /\ IF names.tmp = 0
     THEN files' = Append(files, <<>>) /\ names' = [names EXCEPT !.tmp = Len(files) + 1]
     ELSE files' = [files EXCEPT ![names.tmp] = <<>>] /\ UNCHANGED names
  /\ writer' = [writer EXCEPT ![w] = [version |-> Len(length) + 1, file |-> names'.tmp, at |-> 1]]
  /\ UNCHANGED terminated

\* Cells up to position i, with a hole before it if the file is shorter than that.
PutCell(cells, i, v) ==
  [j \in 1..(IF i > Len(cells) THEN i ELSE Len(cells)) |->
     IF j = i THEN v ELSE IF j <= Len(cells) THEN cells[j] ELSE 0]

Written(w) == writer[w].at = 2 + length[writer[w].version]

\* (Mutant: the stream writes past the end of the payload.)
WriteCell_past_end(w) ==
  /\ ~terminated /\ writer[w] # NoWriter
  /\ files' = [files EXCEPT ![writer[w].file] = PutCell(@, writer[w].at, writer[w].version)]
  /\ writer' = [writer EXCEPT ![w] = [writer[w] EXCEPT !.at = writer[w].at + 1]]
  /\ UNCHANGED <<length, names, terminated>>

\* ofs.write() and ofs.flush(): the next cell goes to the file that was opened.
WriteCell(w) ==
  /\ ~terminated /\ writer[w] # NoWriter /\ ~Written(w)
  /\ files' = [files EXCEPT ![writer[w].file] = PutCell(@, writer[w].at, writer[w].version)]
  /\ writer' = [writer EXCEPT ![w] = [writer[w] EXCEPT !.at = writer[w].at + 1]]
  /\ UNCHANGED <<length, names, terminated>>

\* The open or the flush fails: the writer gives up and leaves what it wrote.
GiveUp(w) ==
  /\ ~terminated /\ writer[w] # NoWriter
  /\ writer' = [writer EXCEPT ![w] = NoWriter]
  /\ UNCHANGED <<length, files, names, terminated>>

\* (Mutant: the rename does not wait for the payload.)
Rename_early(w) ==
  /\ ~terminated /\ writer[w] # NoWriter
  /\ IF names.tmp = 0
     THEN terminated' = TRUE /\ UNCHANGED names
     ELSE names' = [path |-> names.tmp, tmp |-> 0] /\ UNCHANGED terminated
  /\ writer' = [writer EXCEPT ![w] = NoWriter]
  /\ UNCHANGED <<length, files>>

\* (Mutant: the rename is tried again.)
Rename_again(w) ==
  /\ ~terminated /\ writer[w] # NoWriter /\ Written(w)
  /\ IF names.tmp = 0
     THEN terminated' = TRUE /\ UNCHANGED names
     ELSE names' = [path |-> names.tmp, tmp |-> 0] /\ UNCHANGED terminated
  /\ UNCHANGED <<length, files, writer>>

\* std::filesystem::rename(path.tmp, path): it throws if nothing has that name any more,
\* and nothing catches it before the thread ends.
Rename(w) ==
  /\ ~terminated /\ writer[w] # NoWriter /\ Written(w)
  /\ IF names.tmp = 0
     THEN terminated' = TRUE /\ UNCHANGED names
     ELSE names' = [path |-> names.tmp, tmp |-> 0] /\ UNCHANGED terminated
  /\ writer' = [writer EXCEPT ![w] = NoWriter]
  /\ UNCHANGED <<length, files>>

\* The process is killed and started again; a temporary file may be left behind.
Restart ==
  /\ writer' = [w \in Writers |-> NoWriter]
  /\ terminated' = FALSE
  /\ UNCHANGED <<length, files, names>>

FileNext ==
  \/ \E w \in Writers :
       (\E n \in 1..MaxCells : Open(w, n)) \/ WriteCell(w) \/ GiveUp(w) \/ Rename(w)
  \/ Restart

FileSpec == FileInit /\ [][FileNext]_fileVars

----------------------------------------------------------------------------
(* Properties *)

\* Names and threads refer to files that exist, and a thread is within what it writes.
FileTypeOK ==
  /\ length \in Seq(1..MaxCells) /\ Len(length) <= MaxWrites
  /\ files \in Seq(Seq(0..Len(length)))
  /\ names \in [path : 0..Len(files), tmp : 0..Len(files)]
  /\ \A w \in Writers : writer[w] # NoWriter =>
       /\ writer[w].version \in 1..Len(length) /\ writer[w].file \in 1..Len(files)
       /\ writer[w].at \in 1..(2 + length[writer[w].version])
  /\ terminated \in BOOLEAN

\* Whenever the process is killed, the next one finds a file it accepts, or none if no
\* state was ever written: the file is replaced atomically.
FileAccepted == names.path # 0 => Accepted(files[names.path])

\* The state a new process would read: 0 if there is no file, -1 if it is not accepted.
Stored ==
  IF names.path = 0 THEN 0
  ELSE IF Accepted(files[names.path]) THEN Head(files[names.path]) ELSE -1

Cell == INSTANCE DurableCell WITH
  cell <- Stored, begun <- Len(length), pending <- [w \in Writers |-> writer[w].version]

\* Seen from outside, write_persisted() puts the whole state into the file at one instant,
\* the rename, or not at all, wherever it fails or the process is killed.
ImplementsCell == Cell!CellSpec

\* The process is never brought down by saving its state.
NeverTerminated == ~terminated

=============================================================================
