--------------------------- MODULE MCCapacityLine ---------------------------
(***************************************************************************)
(* An instance of CapacityLine for TLC.                                    *)
(***************************************************************************)
EXTENDS CapacityLine

LineSizes == {0, 1, 3, 5}
LineAmounts == 0..6

=============================================================================
