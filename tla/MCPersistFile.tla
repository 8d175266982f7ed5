---------------------------- MODULE MCPersistFile ----------------------------
(***************************************************************************)
(* Instances of PersistFile for TLC: one writer, and two at a time.        *)
(***************************************************************************)
EXTENDS PersistFile

CONSTANTS w1, w2

OneWriter == {w1}
TwoWriters == {w1, w2}

=============================================================================
