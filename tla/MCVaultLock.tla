---------------------------- MODULE MCVaultLock ----------------------------
(* Small instances of VaultLock: two processes on two hosts. *)
EXTENDS VaultLock

CONSTANTS p1, p2, here, there

MCHostOf == [p \in Procs |-> IF p = p2 THEN there ELSE here]
=============================================================================
