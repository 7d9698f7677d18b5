----------------------------- MODULE EventQueue -----------------------------
(***************************************************************************)
(* What an event queue promises the event loop                             *)
(* (src/include/timing/EventQueue.h, and the rules of TimedEventQueue.h on *)
(* which event outdates which), without clock, list or lock.               *)
(*                                                                         *)
(* External events are kept until get() returns them, in the order of      *)
(* their times.  At most one prediction is pending at any time.  An        *)
(* external event that is scheduled before it removes it, one at the same  *)
(* instant of time or after it does not; a prediction that comes after a   *)
(* queued external event is refused and leaves the queue as it was.  While *)
(* a prediction is pending it is what get() returns.                       *)
(*                                                                         *)
(* Two times are the same instant when they differ by at most Eps.         *)
(***************************************************************************)
EXTENDS Integers

CONSTANT Eps    \* eps_: tolerance of every comparison of simulation times

VARIABLES
    open,       \* initStartTimeNow() has been called
    external,   \* external events that wait for get()
    predicted,  \* the pending prediction, a set of at most one event
    delivered,  \* events returned by get()
    discarded   \* predictions that were destroyed

abstractVars == <<open, external, predicted, delivered, discarded>>

Known == external \cup predicted \cup delivered \cup discarded

AbstractInit ==
    /\ open = FALSE
    /\ external = {}
    /\ predicted = {}
    /\ delivered = {}
    /\ discarded = {}

Open ==
    /\ ~open
    /\ open' = TRUE
    /\ UNCHANGED <<external, predicted, delivered, discarded>>

(* An event is recognised by its identity, which no earlier event had.     *)
Fresh(ev) == \A other \in Known : other.id # ev.id

(* ev is scheduled before other, at another instant of time.               *)
Before(ev, other) == ev.time < other.time - Eps

(* An external event is always taken, and outdates exactly the prediction  *)
(* that it is scheduled before.                                            *)
AddExternal(ev) ==
    /\ open
    /\ Fresh(ev)
    /\ ~ev.predicted
    /\ external' = external \cup {ev}
    /\ predicted' = {p \in predicted : ~Before(ev, p)}
    /\ discarded' = discarded \cup {p \in predicted : Before(ev, p)}
    /\ UNCHANGED <<open, delivered>>

(* A prediction takes the place of the one before it.  It is compared with *)
(* the front of the queue only, behind which an event may be earlier by    *)
(* another Eps: hence twice the tolerance.                                 *)
AddPredicted(ev) ==
    /\ open
    /\ Fresh(ev)
    /\ ev.predicted
    /\ \A e \in external : ev.time <= e.time + 2 * Eps
    /\ predicted' = {ev}
    /\ discarded' = discarded \cup predicted
    /\ UNCHANGED <<open, external, delivered>>

(* A prediction is refused only when it is outdated by an external event   *)
(* in the queue, and the queue is left as it was.                          *)
RefusePredicted(ev) ==
    /\ open
    /\ Fresh(ev)
    /\ ev.predicted
    /\ \E e \in external : Before(e, ev)
    /\ discarded' = discarded \cup {ev}
    /\ UNCHANGED <<open, external, predicted, delivered>>

(* The next event: the prediction, or an external event that no other one  *)
(* is scheduled before.                                                    *)
Get(ev) ==
    /\ open
    /\ \/ ev \in predicted
       \/ /\ predicted = {}
          /\ ev \in external
          /\ \A e \in external : ~Before(e, ev)
    /\ external' = external \ {ev}
    /\ predicted' = predicted \ {ev}
    /\ delivered' = delivered \cup {ev}
    /\ UNCHANGED <<open, discarded>>

(* Every event concerned is known afterwards.                              *)
AbstractNext ==
    \/ Open
    \/ \E ev \in Known' :
         AddExternal(ev) \/ AddPredicted(ev) \/ RefusePredicted(ev) \/ Get(ev)

AbstractSpec == AbstractInit /\ [][AbstractNext]_abstractVars

=============================================================================
