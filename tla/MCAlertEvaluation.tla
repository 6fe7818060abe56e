------------------------- MODULE MCAlertEvaluation -------------------------
(***************************************************************************)
(* One metric, a local rule, and three policies of which the contract      *)
(* refuses one.  Metric values 1 and 2 stand for below and at a threshold. *)
(***************************************************************************)
EXTENDS AlertEvaluation

Health(op, threshold) == [metric |-> "healthFactorE4", operator |-> op, threshold |-> threshold]

OneMetric   == {"healthFactorE4"}
OneRule     == {Health("lte", 1)}
Checks      == {Health("lt", 2), Health("lt", 3), Health("lt", 4)}
OnePerCheck == {{c} : c \in Checks}
=============================================================================
