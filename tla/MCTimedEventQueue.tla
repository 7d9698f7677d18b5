------------------------- MODULE MCTimedEventQueue -------------------------
(* A small instance of TimedEventQueue: a few events of times 0 to 4, a    *)
(* tolerance of one unit and a clock that is coarser than the event times. *)
EXTENDS TimedEventQueue

MCTimes == 0..4

=============================================================================
