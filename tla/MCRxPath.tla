------------------------------ MODULE MCRxPath ------------------------------
(* RxPath for TLC.  Its run checks liveness, so no symmetry is declared.   *)
EXTENDS RxPath
=============================================================================
