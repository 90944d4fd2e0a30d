---------------------------- MODULE MCAttemptLedger -------------------------
(***************************************************************************)
(* Instances of AttemptLedger for TLC.                                     *)
(***************************************************************************)
EXTENDS AttemptLedger, TLC

ClientSymmetry == Permutations(Clients)
=============================================================================
