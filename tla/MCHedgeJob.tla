------------------------------ MODULE MCHedgeJob ------------------------------
(***************************************************************************)
(* One settlement and two workers, for TLC.                                *)
(***************************************************************************)
EXTENDS HedgeJob
===============================================================================
