--------------------------- MODULE MCProtectedStore ---------------------------
(***************************************************************************)
(* A small instance of ProtectedStore.  Two processes of the same role are  *)
(* interchangeable.                                                        *)
(***************************************************************************)
EXTENDS ProtectedStore, TLC

ProcSymmetry == Permutations(Procs)
=============================================================================
