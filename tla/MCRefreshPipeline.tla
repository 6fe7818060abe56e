------------------------- MODULE MCRefreshPipeline -------------------------
(***************************************************************************)
(* RefreshPipeline with the positions of a wallet as model values.         *)
(***************************************************************************)
EXTENDS RefreshPipeline
=============================================================================
