-------------------------- MODULE MCOperationLedger --------------------------
(***************************************************************************)
(* Small instances of the operation ledger.  Attempts a1 and a2 carry the  *)
(* same content and a3 another one.  The attempts a1 and a2 are            *)
(* interchangeable only where both or neither may lapse.                   *)
(***************************************************************************)
EXTENDS OperationLedgerInv, TLC

CONSTANTS a1, a2, a3, w1, w2, s1, f1, f2

MCFingerprint == [a \in Attempts |-> IF a = a3 THEN f2 ELSE f1]

WorkerSymmetry == Permutations(Workers)

=============================================================================
