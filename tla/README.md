# A TLA+ model of FMITerminalBlock

FMITerminalBlock runs an FMI 1.0/2.0 model in real time and couples it with
controllers over the network.  It predicts the next event of the model, waits
until the wall clock has reached it, distributes it to its listeners, and takes
in events that arrive from the network meanwhile.  This directory models the
program from its command line to its exit code, checks it with TLC on small
instances and proves the safety properties of the queue, the event loop, both
simulation methods, the network and the life cycle of the threads with TLAPS
for every value of the constants.

## Inventory

| Component | State | Operations | Interaction |
|---|---|---|---|
| `TimedEventQueue` | list of (event, predicted) pairs, local epoch, initialisation barrier, condition variable | `initStartTimeNow`, `add`, `get`, `pushExternalEvent`, `getTimeStampNow` | called by the dispatcher thread and by every subscriber thread |
| `EventDispatcher` | stop time, listeners | `run`, `processEvent`, `addEventListener` | calls predictor, queue and listeners in one thread |
| `EventPredictor`, `LazyEvent` | model time, horizon, output buffer, direct-output flag | `init`, `predictNext`, `eventTriggered`, `getOutputVariables` | dispatcher thread only; drives FMI++'s `IncrementalFMU` |
| `OneStepEventPredictor` | model time (inside the FMU), pending prediction, output images | `init`, `predictNext`, `eventTriggered` | dispatcher thread only |
| `CompactASN1Subscriber`, `PartialEvent`, `...TCPClientSubscriber` | receive buffer, event under construction, packet timer, socket | `commitData`, `handlePacketTimeout`, `handleTermination`, `syncReconnect` | one thread per channel; `getTimeStampNow` and `pushExternalEvent` on the queue |
| `ConcurrentSubscriber`, `NetworkManager`, `main` | threads, pending exception | start, terminate, rethrow | listener of the dispatcher; joins the threads at the end |
| `CompactASN1Publisher` and its transports | types and values of the ports of a channel | `init`, `eventTriggered` | listener; sends the whole image |
| `CSVDataLogger` | columns, file | constructor, `eventTriggered` | listener |
| `ChannelMapping`, `PortIDDrawer`, `TransmissionChannel` | port tables, source of port identifiers | built once, on first use | read by all |
| `ApplicationContext` | property tree, both mappings | options, defaults, getters | read by all; mappings built on first use |
| `SolverConfiguration`, `ManagedLowLevelFMU`, `EventPredictorFactory` | solver properties, FMU type | constructors | called by `main` through the predictors |

What is hard here:

* every comparison of times grants a tolerance (`eps_`), which is not
  transitive: the list is sorted only "up to" the tolerance;
* predictions and external events race for the front of the queue, and a
  prediction is worthless as soon as something else is distributed before it;
* the epoch is computed while subscriber threads already run, and stamps are
  taken from the clock before the epoch is known;
* a stamp may reach the queue long after the model has passed it;
* a lazily evaluated event settles the model only when it is distributed;
* the only thread that waits, the dispatcher, must neither sleep too long nor
  wait for an event that nobody will send;
* a TCP stream is cut anywhere, and the timer that gives up on the rest of an
  event races the data that brings it;
* the threads are started one by one inside a constructor, before the queue is
  open, and any stage of the start may throw;
* outputs are sent only if they changed, so that a change lost once is lost
  until the next;
* what a configuration means depends on defaults that derive from one another,
  and the two predictors read it differently.

`PROJECT.json` lists the hazards one by one with the lines and the properties.

## Modules

| Module | Models | Based on |
|---|---|---|
| `EventQueue` | what a queue promises the event loop: abstract specification | - |
| `TimedEventQueue` | the queue, with the most liberal clients | - |
| `EventDispatcher` | `run()`, the queue and the subscriber threads, with an arbitrary predictor | extends `TimedEventQueue` |
| `EventPredictor`, `OneStepEventPredictor` | the two predictors alone | - |
| `MultistepSimulation` | the program with `app.simulationMethod=multistep-prediction` | extends `EventDispatcher`, `EventPredictor` |
| `SinglestepSimulation` | the program with `app.simulationMethod=singlestep-delayed` | extends `EventDispatcher`, `OneStepEventPredictor` |
| `OneStepImages`, `EventPredictorImages` | the values of inputs and outputs in the two predictors | extend `OneStepEventPredictor`, `EventPredictor` |
| `PredictorImages` | either of the two, as `app.simulationMethod` chooses | extends `EventPredictorImages`, instantiates `OneStepImages` |
| `ASN1Codec` | encoder and decoder of the wire format, byte by byte: pure operators | - |
| `CompactASN1Subscriber` | incremental decoding, packet timer, termination | extends `ASN1Codec` |
| `CompactASN1TCPClientSubscriber` | the subscriber on a TCP connection, with the peer and the network | extends `CompactASN1Subscriber` |
| `CompactASN1Publisher` | the publisher of a channel | extends `ASN1Codec` |
| `NetworkManager` | `main()`, the manager and the life of the subscriber threads | - |
| `ChannelMapping` | port tables built from a property tree: pure operators | - |
| `ApplicationContext` | command line, defaults, mappings | extends `ChannelMapping` |
| `CSVDataLogger` | columns and rows of the data file | extends `ApplicationContext` |
| `Startup` | `main()` from the command line to the first events in the data file, the network left out | extends `CSVDataLogger` |
| `MC...` | constants for TLC | extend the above |
| `DataProofs` | induction, loops, buffers of bytes and the encoding: lemmas and the round trip | extends `ASN1Codec` |
| `EventDispatcherProofs` (the queue included), `MultistepSimulationProofs`, `SinglestepSimulationProofs`, `PredictorImagesProofs`, `CompactASN1SubscriberProofs`, `CompactASN1PublisherProofs`, `NetworkManagerProofs` | theorems | extend the above |

Variables and actions carry the names of the members and functions they stand
for.  The operators marked *Mutant* are plausible mistakes in the definition
that follows them; none is part of a specification, they serve to show that a
property notices the mistake.

### Correspondence with the code

*Time.* Simulation times (`fmiTime`) and the wall clock are integers;
`Resolution` units of simulation time make one tick of the clock, and
`getRelativeTime` rounds down as the cut to microseconds does.  `Eps` is `eps_`.

*Queue.* `queue_` is a sequence of entries with an identity, a time and the
prediction flag.  The mutex makes `add()` one step.  `get()` gives the mutex up
only while it waits, so that each round of its loop is a step: `getWait`,
`getTimedWait` or `getPop`; `getter` says where the consumer is.  `timeout` and
`spuriousWakeup` are the condition variable.  `initStartTimeNow()` takes no lock
and is three steps: preliminary epoch, corrected epoch, barrier.  `returned`,
`outdated` and `nextId` are history variables.

*Dispatcher.* `pc` is the position in `run()`.  `getNext` returns from `get()`;
`processEvent` is the call of all listeners together with the loop test, and
`processEventThrows` an exception from one of them.

*Subscribers.* A source reads the clock (`readClock`), passes the barrier and
converts (`getTimeStampNow`), and pushes (`pushEvent`).  The decoder between
the last two has modules of its own; here any amount of time may pass there.

*Predictors.* Both share the dispatcher's thread: a call of the predictor is
one step with the caller's.  FMI++ is external: `Steps` holds the distances at
which `predictState()` may find an event, and every call may fail.  An external
event either sets inputs or, if nothing could be decoded, carries no value; both
are always possible.  `dropped` is a history variable of `SinglestepSimulation`: the
ends of the steps that an event without values has made the predictor forget since
a prediction was last distributed.

*Images.* In `OneStepImages` and `EventPredictorImages` ports have types and
values.  A listener reads an event in its turn; `heard` and `received` record what
it was given, `sentInputs` what the subscribers sent, and `missed` the outputs of a
step that was forgotten before it could be sent.  The event loop is reduced
to the order in which it calls the predictor; the queue is left out because it
does not look at values.

*Wire format.* A message is a sequence of bytes.  `encode...` and `read...` are
the functions of publisher and subscriber; the state of a parse is the source's
`ParsingStatus`.  Numbers are kept in halves, so that both kinds of real have
fractions and a conversion to an integer may fail.  IEEE encodings are replaced
by a big-endian integer of the same width.  `LengthRadix` is the weight of the
first byte of a string's length, 256 in the code; 2 makes a truncated string
short enough to enumerate.  `IsValue` confines numbers to 32 bits and characters
to 8; `Encodable` says which values an encoding is made for.

*Subscriber thread.* The thread executes handlers one by one; `ready` is the
queue of handlers that the `io_service` holds, `timerWait` the pending wait.  A
wait completes with a handler in `ready`, which `cancel()` no longer reaches, as
in asio.  Each value that `commitData()` decodes is a step, a round of the loop
in `processRawDataToEvent()`.  `terminator` is the thread
in `terminate()`: flag, post, join.  A connection attempt yields one of
`Outcomes`; `refused` leaves the socket open, `unresolved` keeps the old one, and
`unopened` ends with a closed one.

*Manager.* `pc` is the position of the main thread in `main()` or in the
destructors it runs through when an exception leaves a stage.  A subscriber
is its thread and whether the termination handler was posted to it; `sinking` is a thread inside a call of the queue, which does not return before
the queue is `started`.  `undefined` is the destruction of a running thread.
`CatchBlocks` are the catch clauses in their order, `IsA` the class hierarchy.  Two
history variables serve `FailuresReported`: `failed` has the exceptions of the
subscriber threads in their order, `seen` how many of them there were when the
`ExceptionBomb` was last called for an event.

*Configuration.* A key is a sequence of names, the property tree a function from
keys to values, in which `put` creates the parents with an empty value.  A stage
of the start-up is the sequence of its checks, each the set of exceptions it may
end with, in the order of the code; `outcomes` picks the first that throws.
`given` remembers the options that were accepted.

## Runs

The bounds `MaxSetup`, `MaxClock`, `MaxEvents`, `MaxPredictions` and
`MaxExternals` end otherwise infinite behaviours.

| Run | What it shows | Instance |
|---|---|---|
| `queue` | at most one prediction, at the front; order up to `Eps`; each event owned once; no oversleeping | 4 events of times 0..4, `Eps` 1, 2 units per tick, start time 3 |
| `dispatcher` | no stale prediction, the assertion in `push()`, distribution in order up to two `Eps`, stamps on the final epoch, refinement of `EventQueue` | 2 subscribers with an event each, 3 rounds, arbitrary predictions 0..3 |
| `multistep` | lazy events are never outdated, external events fall inside the projected interval, the model is never ahead of the clock and never runs back; the stop time is reached, so that every `get()` of the loop returns | 2 subscribers, model events 1..2 ahead, direct outputs on, events with and without values, `TimeDiff` 1, stop time 2 |
| `singlestep` | no step is distributed twice; only an event without values makes the method skip one; the model is ahead of real time by one step and one more per event without values; the stop time is reached | step 2, variable, events with and without values, stop time 2, clock to 7 |
| `predictor_images` | singlestep: listeners know the outputs of the last step unless an event without values made them miss it, a prediction is not altered while it waits, the model has the latest inputs; multistep: listeners hear what the model says at that time, the solver gets the latest inputs of all types, the buffer is valid exactly when the flag says so | 2 outputs of different type, 2 inputs, values 0 and 1, times to 4, either method from the initial state on |
| `subscriber_decode` | the events pushed are those sent, wherever the stream is cut; nothing decodable is left waiting; stamps ascend | ports of all 4 types, 3 streams with all ASN.1 types, convertible and not, truncated and with an unknown tag, chunks up to 4 bytes, a peer that closes or breaks the connection anywhere |
| `subscriber_connection` | no bytes wait without an event and every value has the type of its port, over closed, broken and refused connections; few attempts behind `terminate()`, which returns; partial events are flushed | 1 port, 2 values in chunks of up to 2 bytes, 2 connections, 2 retries |
| `publisher` | the image is the latest; the subscriber's decoder reads the image from the message | 5 ports, one variable twice, one foreign, 4 type configurations, strings around the limit of the length |
| `network_manager` | `ExitIsClean`: exit codes, and no thread outlives the queue but in the one case that is undefined; `FailuresReported`: which exceptions of threads the exit code tells of; exceptions of threads end the program; the shutdown completes | 3 channels, a failure in every stage but the data logger |
| `startup` | `PortsIdentified`: identifiers are unique and agree with the options; `DataFileSound`: so do headings and rows; `ConfigurationSound`: the tree has what was given and nothing else, in whatever order, an accepted configuration is complete, its step sizes nest and every default but a Boolean one can be read back | every subset of each of four sets of 11 to 15 options, 3 types of FMU, with and without a default experiment |
| `subscriber_timer` | violation, see below | as `subscriber_connection`, 2 ticks |
| `network_manager_barrier` | violation, see below | 2 channels |

Why the instances are large enough: four events give a prediction, two
externals that are close but in the wrong order, and one that arrives late;
times 0..4 hold chains of three events each `Eps` from the next; two units per
tick let an event lie between two ticks, and a start time of 3 makes the
correction of the epoch round.  Two subscribers are needed for a stamp to be
overtaken.  `MaxSetup` of 1 lets the clock advance during the start-up; the two
compositions use 0, the start-up being covered by the other runs.  In these two
none of the bounds on events, predictions and the clock is ever reached before
the stop time: if one were, the loop would be stuck and `SimulationEnds`
violated.

A decoder needs four ports so that a skipped value has neighbours of other
types, and streams with more items than ports so that one event ends and the
next begins inside a chunk.  Its run lets the connection end at any byte and the
attempts to renew it fail; what happens on a second connection is the subject of
`subscriber_connection`.  Two connections are the least for data of an old
one to meet a new one.  Three channels let one fail between one that runs and
one that was never reached.  In `network_manager` the data logger does not fail:
that failure is the one of `network_manager_barrier`, after which
`ShutdownCompletes` is false as well.  The option sets of `startup` hold each
kind of value a check can tell apart (absent, malformed, negative, zero, too
large, doubled, fine) and are taken in every order.  They share the mandatory
options and the method, on which the other checks depend.

The queue alone may stop (nobody has to call it), which is why its run does not
check for deadlock.  The runs of the subscriber, the publisher, the images and
the start-up end with the thread, at a bound or when the configuration is
refused, and do not check it either.  The others do; `Terminated` is the end of
`run()`, `Ended` that of `main()`.

### Fairness

Weak fairness is assumed of the dispatcher thread (it is scheduled when it can
run, and calls of the predictor and of listeners return unless they throw), of
expired timers and of the clock.  None is assumed of subscribers, of spurious
wake-ups, or of failures.  The compositions add that model events advance
(`MinStep` 1); with events at the same instant for ever no stop time is reached.

In the subscriber, the thread goes on while it has a handler to execute, a
completed receive is reported, `terminate()` once called continues and time
passes (weak fairness).  The expiry of the timer needs strong fairness: the
reactor looks at its timers between any two handlers, but the wait can be
cancelled and set up again by each chunk.  In the manager the main thread and a
call of the queue proceed, and a termination handler that was posted is executed
although data keeps arriving (strong fairness: `io_service` takes its handlers in
order).  Nothing obliges a peer to send, to close or to accept a connection, or
anything to fail.

### What the violations show

* `subscriber_timer`: the packet timer is given its expiry time once, in `init()`.
  From then on every wait ends at once, and an event that comes in two packets
  is pushed after the first.
* `network_manager_barrier`: an exception behind the manager's construction makes
  its destructor join threads that wait for the start of the simulation, which
  will not come.

### Further disagreements

The model also shows the following, each a place where the code does something
else than a comment, an assertion or the manual says.  None has a run of its
own; the formula or the change of an instance that exhibits it is given where
there is one.

* `hasPriorEvents()` (`TimedEventQueue.cpp:226`) looks at the front entry only, but
  with externals `t, t - eps` queued in that order a prediction at `t + eps` is
  accepted in front of an event that is earlier by two `eps`.  `TimedEventQueue.h:37`:
  "The queue automatically outdates predicted events whenever another event is
  scheduled before the predicted one".  With `PredictionWithinTwoEps` stated for
  `Eps` instead of `2 * Eps`, TLC violates it in `dispatcher`; theorem
  `DispatcherPredictionWithinTwoEps` bounds the excess.
* `EventQueue.h:26` and `:59`: "Any non-predicted event will remove predicted events
  from the queue".  `removeFuturPredictions()` (`TimedEventQueue.cpp:150`) removes a
  prediction only if it is later than the event by more than `eps_`, which is what
  `TimedEventQueue.h:37` describes: events at the same instant are kept side by
  side.  `AddExternal` of the contract `EventQueue` states the latter; with `predicted'
  = {}` in its place TLC violates `ImplementsEventQueue`.
* `EventQueue.h:62`: a refused prediction "won't be added to the queue and the
  function returns without modifying the queue".  `add()` calls
  `removeFuturPredictions()` first (`TimedEventQueue.cpp:55`), so that a refused
  prediction can remove an earlier one that is later than it.  The promise holds
  for the event loop, which never adds a prediction while one is queued: that is
  why `ImplementsEventQueue` is checked and proved of the dispatcher.  It is false of
  the queue with arbitrary clients.
* `TimedEventQueue.h:87`: "If no event has been registered, the function will throw a
  std::logic_error".  `get()` waits (`TimedEventQueue.cpp:87`), without a deadline.
  The event loop never calls it so (theorem `DispatcherGetNeverStarves`).
* A client of the queue that adds two close predictions without `get()` in between
  can make the assertion of `push()` fail (`TimedEventQueue.cpp:185`), although
  `TimedEventQueue.h:42` admits "a new prediction may outdate an old one at the same
  instant of time".  `NeighboursOrdered` is false in the instance of `queue`.  The
  dispatcher never adds them so (theorem `DispatcherNeighboursOrdered`).
* The direct output event that answers an input can be outdated in the queue by a
  late event without values; `predictNext()` has forgotten it by then
  (`EventPredictor.cpp:159`).  `usage.md:79`: "an output event will be generates as
  soon as an input event is triggered".
* An external event without values resets the pending prediction of the one-step
  predictor (`OneStepEventPredictor.cpp:116`), and the model takes another step
  ahead of real time.  `usage.md:85`: "External events are delayed at maximum by
  the given amount of time".  `DelayBounded` says by how much that is exceeded: by
  one step for each event without values.  With the term for `dropped` left out TLC
  violates it in `singlestep`.
* The same cause seen in the values: the dropped step has already updated the
  output image, so that the next one finds nothing changed and the listeners keep
  the old value.  `usage.md:87` suppresses an event "If no value was changed since
  the last prediction step".  `OutputsConsistent` says that this is the only way to
  lose a value; with the disjunct for `missed` left out TLC violates it in
  `predictor_images`.
* A refused attempt leaves the socket open, so the loop of `syncReconnect()` ends at
  the first try and the function returns as if it were connected
  (`CompactASN1TCPClientSubscriber.cpp:84`).  The receive that follows fails with an
  error that does not cause another attempt.
  `CompactASN1TCPClientSubscriber.h:66`: "An exception will be thrown in case the
  function fails to re-connect".  In `subscriber_connection`, a step from `thread =
  "reconnect"` to `"poll"` may end with `conn # "connected"`.
* An exception in the constructor of the manager skips its destructor; subscribers
  that run already are destroyed with their threads (`NetworkManager.cpp.in:147`).
  `Subscriber.h:50`: "If initAndStart() was called before, terminate() will also be
  called before the object is destructed".  `ExitIsClean` says
  that this is the only way in which a thread is left behind.
* The exception of a subscriber is thrown in `main()` when the next event is
  distributed (`NetworkManager.cpp.in:184`).  One that comes behind the last event
  is dropped: the program ends with exit code 0.  `FailuresReported` says which
  exceptions are told of, and that success means no more than that there was
  none at the last event.
* `hasProperty()` finds the parent of a given option and takes it for an option
  (`ApplicationContext.cpp:118`): `in.0=...` behind `in.0.protocol=...` is refused as
  "has already been set with value", the other order is accepted.
* A default for an unknown variable ends a singlestep simulation
  (`OneStepEventPredictor.cpp:342`) and is ignored by a multistep one; `usage.md:166`:
  "Unknown or unused inputs will be gracefully ignored".
* The singlestep predictor accepts inputs of unknown type
  (`OneStepEventPredictor.cpp:183`), which `CompactASN1Subscriber.cpp:207` asserts not
  to exist.  `usage.md:43` calls the type "required" for `in.` and `out.` alike.
  `AcceptedIsComplete` (in `ConfigurationSound`) says that this is the only exception,
  and that the model knows such an input by its name.
* `usage.md:166` says of a default that it "will be interpreted according to the
  variable type".  An `fmiBoolean` is a `char` and is read as one
  (`ApplicationContext.h:149`), so that `in.default.b=0` becomes 48, which is not
  false.  `DefaultsApplied` (in `ConfigurationSound`) speaks of the other types.
* `encodeREALValue()` copies `sizeof(value)` bytes, the eight of a double, between two
  variables of four (`CompactASN1Publisher.cpp:250`).  This is undefined; the model
  takes it for the copy of four bytes that is meant.
* The test for a combined model compares with the same type twice
  (`OneStepEventPredictor.cpp:241`), so that the singlestep predictor refuses the
  models of type `fmi_2_0_me_and_cs` which `usage.md:94` describes.
* `SolverConfiguration.cpp:176` takes 5 for the default order of the
  Adams-Bashforth-Moulton method, `usage.md:106` says 8.

## Proofs

All theorems hold for every value of the constants that satisfies the named
assumptions (`Eps` natural, `Resolution` positive, `StartTime` natural, times
integers, look-aheads natural, ports of known types, values of the types of
their ports), hence for any number of
events, subscribers, channels, ports and rounds.  The bounds are constants too
and may be arbitrarily large.  Most theorems state a property that a run checks
as well.  `TypeOK`, `NothingBeforeInit`, `EpochFixed`, `OnlyPredictionsOutdated`,
`DispatcherTypeOK`, `MultistepTypeOK`, `GetNeverStarves` and the definitions of the proof modules that
are named below are proved and need no run; the inductive invariants were
checked by TLC on the instances of the runs before they were proved.

*Queue* (`EventDispatcherProofs`, first part).  `QueueInv` is type correctness, at most one
prediction at the front, `InOrder` and `NothingBeforeInit`.  `InOrder` relates
every external entry with all entries behind it, not with its neighbour only:
the neighbour relation is not inductive, since removing an entry joins two that
were never compared.  The lemmas `RemoveFuturPreserves`,
`RemoveConcurrentClears` and `PushPreserves` carry it through the three steps of
`add()`; the first two also show why `push()` never meets a second prediction.
Ownership needs that identities in the list are distinct and below `nextId`
(`AddKeepsOwnership`, `PopKeepsOwnership`); not oversleeping needs the prediction
at the front, because only a new front entry can be earlier than the deadline,
and then the consumer is notified.

*Dispatcher* (`EventDispatcherProofs`, second part).  `DispatcherInv` adds where the thread is
(`ThreadInv`), that no prediction exists outside `get()`, that neighbours are in
order and that `get()` has an event.  The neighbour order is inductive here, and
not for the queue alone, because a prediction is only ever added to a queue
without one.  In the program the stamps of events are not confined to `Times`, as
they are in `QueueSpec`; `DispatcherQueueSteps` reduces each step of the program to
a step of the queue, and `DispatcherEventsOwnedOnce` and
`DispatcherImplementsContract` carry ownership and the refinement over to it.  The
lemmas on the prediction horizon serve both compositions:
`ExternalKeepsHorizon` says that a prediction loses the front of the queue only to
an event that is earlier.

*Refinement of the contract* (`EventDispatcherProofs`, third part).  The queue's
entries are split into externals and predictions; every step of the dispatcher is
a step of `EventQueue!AbstractSpec` or a stutter (`RefuseRefines`,
`AcceptPredictedRefines`, `AcceptExternalRefines`, `PopRefines`, `OpenRefines`).  It
needs the invariant of the dispatcher: a refusal leaves the queue as it was only
because no prediction is queued when one is added, and the event that outdates it
is the front (`FrontFirst`).

*Multistep simulation* (`MultistepSimulationProofs`).  The composition refines the
dispatcher with an arbitrary predictor (`MultistepImplementsDispatcher`), so
`DispatcherInv` holds; `MultistepInv` adds that the event on its way to the
listeners is bounded by the prediction horizon: the prediction (`pc = "add"`),
then the front of the queue (`FrontWithin`, `pc = "get"`), then the distributed
event (`pc = "process"`).

*Singlestep simulation* (`SinglestepSimulationProofs`), again a refinement of the
dispatcher.  `SinglestepInv` says where the outputs of the last step are (in
`currentPrediction_`, and as a copy on the way through the queue) and that
nothing distributed belongs to a later step; it gives `NoStepRepeated` without
any assumption.  `PaceInv` says that a step that is not pending was distributed
and is due, or was dropped by an event without values, which the code takes for
its own prediction (see *Further disagreements*); `DroppedInv` that `dropped` is
finite and `Lead` how far its size lets the model run ahead.  `DelayBounded` and
`OnlyEmptyEventsSkipSteps` follow, without an assumption on the events.

*Images* (`PredictorImagesProofs`).  `MultistepInv` says that the buffer and the
direct output event hold the outputs of the state the solver is in for as long
as a listener can ask for them.  `OneStepInv` says that the pending prediction is
the image, or carries nothing because the listeners have the image already or
have missed it; it needs `NoChangeIsSame`, that the four comparisons by type miss
no port.  `ImagesModelHasLatestInputs` follows the loop over the variables of an event, of any
length and with ports named twice, and shows for the four passes of the multistep
predictor and the single one of the other that the last value of each port is
the one that stays.

*Data* (`DataProofs`).  The induction theorems of the library have a predicate as
a parameter, which the provers cannot instantiate.  `LeastNumber` derives the
least number principle for *sets* of numbers from the well-foundedness of strict
inclusion, and `Induction` follows; a set can be given by any formula.  `Iteration`
says that a loop `f[i] = step[i][f[i - 1]]` is well defined, which is what the
proofs need of the recursive functions that model the code's loops.  The rest is
about buffers of bytes and the encoding.  `CodecRoundTrip`: for each of the five
ASN.1 types, what the publisher's encoder writes is read by the subscriber as the
value that the type can carry, whatever is asked for and whatever bytes follow,
and exactly its bytes are taken.  For numbers this is the arithmetic of base 256
and two's complement over all 32 bit values; for strings it includes the cut
at the largest length.

*Subscriber* (`CompactASN1SubscriberProofs`), for all ports, bytes, chunks and
connections.  `EventsInv`: the event under construction fills its ports in order,
with values of their types, has a port left and was stamped no earlier than the
last one pushed.  `BufferInv`: outside of `commitData()` the buffer is empty or
begins with an incomplete value and belongs to a partial event.  It is inductive
because whether a value is incomplete does not depend on the port it is read for
(`ReadResult`), so that it stays so when `partial` changes.  `TerminationInv` bounds
the attempts to connect by the loop that was under way.  `ServiceInv` is about the
handlers that wait in the `io_service` and gives the safety parts of the liveness
properties: a termination request stays there until the thread has ended
(`TerminationArrives`), a partial event has a timer (`PartialIsTimed`), and the
subscriber never stops listening and never has two receive operations on its one
buffer (`ListensOnce`).

`StreamInv` gives `DeliveredAsSent`.  As long as the first connection lasts there is
a number `k` of items that have been taken (`Reading(k)`): the events pushed and the
partial one are those of the first `k` items, and the buffer, the bytes of a
completed receive, those on the wire and those lost with the connection are
together the encoding of the items from the `k`-th on.  A chunk moves bytes between these
parts; a round of `commitData()` finds the buffer to begin with the next item
whole, and then `CodecRoundTrip` says what it reads, or with a part of it, and
then it reads nothing (`CommitReads`).  Lost bytes leave a mark in `conn` or in the
error of the receive (`LossSeen`, `ReconnectReason`), which is why
`DeliveredAsSent` asks for no such mark before it claims that nothing is missing.

*Publisher* (`CompactASN1PublisherProofs`).  `PublisherInv` adds to `ImageIsLatest`
that the image has an entry for every port and that nothing is announced before
`init()`.  `MessageInv` says what the last message is: the encodings of all values of
the image, one behind the other.  `PublisherMessageIsImage` reads it port by port:
after each port exactly the encodings of the others remain (`CodecRoundTrip`).

*Life cycle* (`NetworkManagerProofs`).  `ManagerInv`: the threads of the channels the
destructors have passed are over, and stay so.  The catch blocks are worked out
by `FirstCatchBlock` and `ExitCodes`.  `ConstructionInv` says which threads run while
the manager is constructed, hence what is left if that fails (`ManagerEndings`);
`ReportInv` relates the pending exception with the failures that the `ExceptionBomb`
has seen and gives `FailuresReported`.  `StartInv` gives `JoinCanReturn`, the safety part
of `ShutdownCompletes`: whoever is joined was started, was asked to stop and is not
held up by the barrier of the queue.  It assumes that the data logger does not
throw; `network_manager_barrier` is what happens otherwise.

Only model-checked:

* liveness (`SimulationEnds`, `TerminateReturns`, `PartialEventFlushed`,
  `PendingSurfaces`, `ShutdownCompletes`), which the prover does not support;
* `PortsIdentified`, `DataFileSound` and `ConfigurationSound`, about tables and checks
  that are built from a list of options.  Their keys contain numbers in decimal
  notation (`ToString`), and that different numbers have different texts is known
  to TLC but not to the provers; the tables are built by nested folds, which take
  operators as parameters.

## Not modelled

* The clock stepping back: `Tick` only moves forward.  The code has no
  provision for it and promises nothing.
* `EventLogger` and the configuration of log sinks: nothing reads what they
  write.
* The transports below `sendData()`: the send is complete.  A short TCP send is
  logged and forgotten by the code.
* Resolving and parsing of addresses, splitting of keys at their dots, number
  formats, wording of messages, `toString()` functions.
* FMI++, boost and asio are external and appear only as what the code uses of
  them; any of their calls may fail.
* The choice of a publisher or subscriber by the name of its protocol, in code
  that the build generates.

## State of the work

Modelled, checked and proved: the queue, the dispatcher, both predictors with
their values, their composition, the network in both directions with its wire
format, and the life cycle of threads.  Modelled and checked: the configuration.
The modules were written in this order; each composition rests on the proofs of
its parts.  What remains:

1. Proofs about the configuration, with a notation for numbers in keys that is
   injective by definition and recursive functions in the place of the folds.
2. The data file of a running simulation, which would join `CSVDataLogger` with the
   dispatcher; `Startup` distributes events in any order and number instead.
