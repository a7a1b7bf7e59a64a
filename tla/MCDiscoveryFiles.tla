---------------------------- MODULE MCDiscoveryFiles ----------------------------
(***************************************************************************)
(* A small instance of DiscoveryFiles: one replaceable and one fixed file.   *)
(* What the App publishes is only compared, so contents are interchangeable. *)
(***************************************************************************)
EXTENDS DiscoveryFiles, TLC

ContentSymmetry == Permutations(Contents)
=================================================================================
