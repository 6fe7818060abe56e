-------------------------- MODULE MCRealtimeClient --------------------------
(***************************************************************************)
(* RealtimeClient with two handlers, for one address or for two.  Handlers *)
(* are interchangeable, but a liveness property is checked: no symmetry.   *)
(***************************************************************************)
EXTENDS RealtimeClient
=============================================================================
