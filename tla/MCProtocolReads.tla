--------------------------- MODULE MCProtocolReads ---------------------------
(***************************************************************************)
(* ProtocolReads of a wallet with one STX, share or unit of debt at most.  *)
(***************************************************************************)
EXTENDS ProtocolReads
=============================================================================
