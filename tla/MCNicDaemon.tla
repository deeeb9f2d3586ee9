----------------------------- MODULE MCNicDaemon -----------------------------
(***************************************************************************)
(* Two tenants and a NIC of three queues: a tenant can be refused, and a   *)
(* range handed back is granted again under another generation.            *)
(***************************************************************************)
EXTENDS NicDaemon, TLC

CONSTANTS t1, t2

MCTenants == {t1, t2}
TenantSymmetry == Permutations(MCTenants)

Spec == NDSpec /\ NDFairness
=============================================================================
