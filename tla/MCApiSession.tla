---------------------------- MODULE MCApiSession ----------------------------
(***************************************************************************)
(* ApiSession with two calls besides the sign-in: a write behind the       *)
(* account guard, which is not idempotent, and a scan behind the rate      *)
(* limit, which its caller has declared idempotent.                        *)
(***************************************************************************)
EXTENDS ApiSession
=============================================================================
