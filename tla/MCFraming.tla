------------------------------ MODULE MCFraming ------------------------------
(***************************************************************************)
(* An instance of Framing for TLC: the payload may be what a header begins *)
(* with.                                                                   *)
(***************************************************************************)
EXTENDS Framing

PayloadCells == {2, Magic}

=============================================================================
