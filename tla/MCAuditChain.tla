----------------------------- MODULE MCAuditChain -----------------------------
(* Small instances of AuditChain for TLC. *)
EXTENDS AuditChain, TLC

CONSTANTS w1, w2   \* writers

\* The writers are not told apart.
TwoWriters == Permutations({w1, w2})
===============================================================================
