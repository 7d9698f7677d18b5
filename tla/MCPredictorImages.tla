-------------------------- MODULE MCPredictorImages --------------------------
(* A small instance of PredictorImages: a real and an integer output, and  *)
(* a real and a boolean input.                                             *)
EXTENDS PredictorImages

MCOutputPorts == {<<0, 0>>, <<1, 0>>}
MCInputPorts == {<<0, 1>>, <<2, 0>>}
MCSteps == 0..2

=============================================================================
