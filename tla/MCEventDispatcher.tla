------------------------- MODULE MCEventDispatcher -------------------------
(* A small instance of EventDispatcher: two subscribers whose stamps may   *)
(* overtake each other, predictions of the times 0 to 3, one clock tick    *)
(* per unit of simulation time.                                            *)
EXTENDS EventDispatcher

CONSTANTS s1, s2

MCTimes == 0..3
MCSources == {s1, s2}

=============================================================================
