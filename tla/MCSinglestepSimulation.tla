----------------------- MODULE MCSinglestepSimulation -----------------------
(* Small instances of SinglestepSimulation: two subscribers whose stamps   *)
(* may overtake each other.                                                *)
EXTENDS SinglestepSimulation

CONSTANTS s1, s2

MCTimes == 0..(TheEnd + 3 * LookAhead)
MCSources == {s1, s2}

=============================================================================
