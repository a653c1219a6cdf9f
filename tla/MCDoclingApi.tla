---------------------------- MODULE MCDoclingApi ----------------------------
(***************************************************************************)
(* Instance of DoclingApi for TLC.  Tenants differ in nothing but their    *)
(* names, so one call's may be fixed: what is left is whether the other    *)
(* call is of the same tenant.                                             *)
(***************************************************************************)
EXTENDS DoclingApi

CONSTANTS c1, t1

MCInit == Init /\ call[c1].tenant = t1

MCFairSpec == MCInit /\ [][Next]_vars /\ Fairness
=============================================================================
