--------------------------- MODULE MCEnclaveManager ---------------------------
(* Instances of EnclaveManager for TLC.  UUIDs are interchangeable, so      *)
(* safety runs reduce by their permutations; liveness runs do not.          *)
EXTENDS EnclaveManager, TLC

UuidSymmetry == Permutations(Uuid)
=============================================================================
