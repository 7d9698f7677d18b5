----------------------- MODULE MCMultistepSimulation -----------------------
(* Small instances of MultistepSimulation: two subscribers whose stamps    *)
(* may overtake each other, model events MinStep to MaxStep units ahead of *)
(* the model.                                                              *)
EXTENDS MultistepSimulation

CONSTANTS
    s1, s2,
    MinStep, MaxStep  \* the shortest and the longest look-ahead

MCSteps == MinStep..MaxStep
MCTimes == 0..(TheEnd + MaxStep)
MCSources == {s1, s2}

=============================================================================
