----------------------------- MODULE MCMonitor -----------------------------
(***************************************************************************)
(* Model-checking module of Monitor: requests that report to three of the  *)
(* four channels, one with a time that ReportSuccessAvgTime refuses and a  *)
(* key that does not parse back.                                           *)
(***************************************************************************)
EXTENDS Monitor

CONSTANTS k1, k2

MCRequests ==
    {[outcome |-> "failed", key |-> k1, time |-> 2], [outcome |-> "succ", key |-> k2, time |-> 0]}
=============================================================================
