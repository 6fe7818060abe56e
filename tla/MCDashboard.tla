----------------------------- MODULE MCDashboard -----------------------------
(***************************************************************************)
(* Dashboard with two index jobs, of which the page and others ask for any *)
(* number, and two faults of every kind.                                   *)
(***************************************************************************)
EXTENDS Dashboard
=============================================================================
