----------------------------- MODULE Deployment -----------------------------
(***************************************************************************)
(* The names every component of the processing pipeline shares.            *)
(***************************************************************************)
CONSTANTS Videos,       \* video ids
          Workers,      \* worker processes
          None          \* no video, no worker, no partition

ASSUME NoneAssumption == None \notin Videos /\ None \notin Workers
=============================================================================
