# FieldUnit in TLA+

A field unit is one processor at one railroad control point. It samples track
circuits, switch points and line wires, takes control messages from the
dispatcher's office, decides in every scan which signals may show something
other than Stop and which switches are locked, and reports what it sees.
The library is in `src/src`, its examples in `src/examples`, its documents in
`src/docs`. This directory holds TLA+ models of its vital logic, the TLC runs
that check them and the TLAPS proofs about them.

File names below are relative to `src/src` of the repository unless they begin
with `docs/` or `examples/`.

## 1. Inventory

### The parts, their state and their operations

| part | state | operations that change it | what makes it correct |
|---|---|---|---|
| `SignalControl` (a lever's relays HSR, FSR, ASR) | commanded and active direction, fleeting, dropped stick, time lock with direction and expiry stamp | `updateCommand` (control), `knockdown` (train), `evaluate` (scan) | a signal taken by a train stays at Stop until a new code; a signal taken away from an approaching train runs its full time at Stop |
| `Switch` (machine, crossover pair, dependent derail) | commanded and reported position, set of locks, start of the motion | `throwSwitch`, `addLock`, `removeLock`, `updateFeedback`, `tick` | a locked machine does not move; the two machines of a pair move and lock together |
| `TrackCircuit` | occupancy, quality, dropout delay, last report | `update`, `touch`, `tick` | occupied at once, vacant only after the delay; silence is not vacancy |
| `LineInput` | energized, ever heard, stale, last report | `update`, `touch`, `tick` | a silent wire is released |
| `InterlockingEngine` (`ControlTable.h`) | per route: idle, cleared or traversing, and per switch the sectional release | `evaluate` | a signal shows a route only when the route is lined, locked, clear and free of conflict; a train keeps its route locked |
| `InterlockingPlant` | all appliances, detector bindings | `applyControlTransaction`, `evaluateVitalRules`, `tick` | the composition of the above |
| `SignalMast`, aspect policies | indication; lamps as a table of it | `setIndication`, `forceStop` | Stop unless a route says otherwise |
| `AutomaticSignal` | directional stick, HR of the last scan | `updateStick`, `latchHR`; bindings | trains that obey it never meet, a lone train is let through (ADR 0008) |
| `ControlPointLine` | cleared, home and dropped latches | `latch`; bindings | the end that a train goes to is locked out |
| `CodeLine` (mock, MQTT, stream) | one message slot or one line buffer | `onControlMessage`, `receiveControlPacket`, `transmitIndicationPacket` | what is obeyed is what was coded |
| `cTcMachine` (office) and the desk sketch | levers, CODE one-shots, lamps; queues and the display cycle | `syncInputs`, `pollCode`, `applyIndications` | one CODE press, one control; the panel shows the railroad in the end |
| `WireCodec` | schema, byte and bit assignment | `encode*`, `decode*`, `pack*`, `unpack*` | a control is taken for what it says or refused |
| configuration of the plant, `PlantSerializer` | the plant's tables, its bindings by name, the report of unresolved names | `add*`, the fluent bindings, `serialize`, `deserialize` | no name that is not found makes an equation shorter; a plant starts as it was saved |
| `drivers/` | MQTT appliance bus: last values published; drivers: pins | `onUnpack`, `sync`, `sample`, `drive` | reports reach the appliances, outputs follow the plant |

### How they interact

Everything runs in one thread. The loop of a field unit (for instance
`examples/CP_Christopher`) samples the inputs, takes at most one control packet
from the code line, decodes it and applies it, and then calls `tick()`. MQTT
reports arrive by callback, also between two scans. Inside a scan,
`evaluateVitalRules()`

 A. drops detector, route and time locks and sets the detector locks anew,
 B. advances the timers of switches, circuits and lines,
 C. evaluates every lever,
 D. advances the sticks of automatic signals,
 E. evaluates the routes of the control table in order, each of which may knock
    a lever down, lock switches and raise a mast's indication; then time locks,
 F. latches the automatic signals and control point lines.

Locks are therefore rebuilt on every scan; only the electric (hand) lock lasts.
A control that comes between two scans meets the locks of the last scan.

The office is another processor. A dispatcher sets levers and presses CODE; the
desk's loop reads the buttons, takes indications from the broker, codes at most
one station in a pass and publishes the control, at once or, in the stepping
build, after it has been displayed column by column. Controls and indications
cross an MQTT broker that delivers at most once and repeats the last indication
of each station to a desk that connects. A field unit keeps the last control
that arrived, decodes it once per cycle, and indicates its plant.

A plant is configured by calls, in a sketch or read from a file, that refer to
one another by name. `serialize` writes a configured plant and `deserialize`
makes the calls again, in an order of its own.

### What is hard

* A route is secured by three things that are set at different times: the
  positions of its switches, the locks of the last scan, and the lever. Controls
  for each arrive in any order.
* Routes are evaluated one after the other on state that the evaluation changes.
* Each half of a pair can be locked, released and thrown through the other, and
  the recursion stops at a half that is already there.
* Time locking has to outlive the route that it protects, although the route is
  reset at the next scan and its locks dropped.
* Which route a train is on is inferred.
* In a block without controlled signals the direction of a train is inferred too:
  from which of two circuits was occupied first, in relays that each location
  updates once per scan and that neighbours read with the latency of a scan.
* The desk and the field units run at their own pace, either end and the
  connection can fail, a message can be lost, cut short, repeated or be stale.
* Names bind when the call is made, to what exists then.
* Timers: release time, dropout, staleness, travel; all of uint32 milliseconds.
* Things that must happen: time locking ends, a fleeted signal clears again,
  locks go when their reason is gone.

`PROJECT.json` lists the hazards with the line where each bites and the
properties that cover it.

## 2. Modules

| module | models | role |
|---|---|---|
| `SignalControlOps` | `SignalControl.h` | the member functions as operators on the relay state |
| `SignalControl` | one lever with the uint32 clock | state machine, checked and proved |
| `ApproachLocking` | what approach locking promises | abstract specification that `SignalControl` implements |
| `SwitchOps` | `Switch.h` | machines, pairs and locks as operators |
| `CircuitOps` | `TrackCircuit.h`, `LineInput.h` | circuits and lines as operators |
| `ControlTable` | the routes and the route equation of `ControlTable.h` | constants and operators |
| `InterlockingPlant` | `InterlockingPlant.h` and `InterlockingEngine::evaluate` | the composed state machine, checked and proved |
| `BlockOps` | `AutomaticSignal.h`, `ControlPointLine.h`, `evaluateMastIndication`, parts C to F of the scan | operators on the relay state |
| `Block` | one block between two control points, with trains and office | the composed state machine |
| `CodedControls` | what a code line promises | abstract specification; the bit-packed line implements it, the text line does not |
| `WireCodec` | `WireCodec.h`: text and bit-packed codec, both directions | operators |
| `Office` | `cTcMachine.h`, the desk of `examples/spcoast_ctc`, `MqttCodeLine` | state machine of desk, broker and field units |
| `PlantConfig` | the configuring calls of `InterlockingPlant.h`, `ControlTable.h`, `AutomaticSignal.h`, `ControlPointLine.h` | operators on a plant as a record of tables |
| `PlantFile` | `PlantSerializer.h` on `PlantConfig` | state machine: configure, save, start, reload |
| `MCPlant`, `MCCrossover`, `MCChristopher` | two track plans | instances for TLC |
| `MCBlock`, `MCOffice`, `MCPlantFile` | five blocks, a desk of two stations, eight configurations | instances for TLC |
| `MCStations` | a lever, a spur, the end of a block and the plants of `MCPlantFile` side by side | instance for TLC |
| `SignalControl_proofs`, `InterlockingPlant_proofs` | the lever, the plant with its trains | theorems |
| `WireCodec_proofs`, `Office_proofs` | the codecs, the office | theorems |
| `BlockScan_proofs`, `Block_proofs` | the loops of the scan, the block with its trains | theorems |
| `PlantConfig_proofs`, `PlantFile_proofs` | the calls that configure and the file; programs of calls, saved and started | theorems |

The operators of `SignalControlOps`, `SwitchOps` and `CircuitOps` know nothing of
clocks: the caller says whether a timer has run out. `SignalControl` computes
that from the stamps, as the code does; `InterlockingPlant` lets it become
true by an event of its own (`ReleaseTimeRuns`, `DropoutPasses`,
`SourceFallsSilent`, `TravelOverruns`), so that a run of the plant covers every
ratio of the durations.

### State and actions of the plant

`tc`, `line`, `sw`, `locks`, `sig` and `mast` are the appliances of the plant;
`route` and `section` are the state and section states of each `Route`; `next` is
the index of the loop in `InterlockingEngine::evaluate`, or `Idle` between two
scans. `held` and `underway` are history: they record which route was displayed
when its signal was taken away, and which one a train entered. No action reads
them.

| action | code |
|---|---|
| `TrackReport`, `TrackTouch`, `LineReport`, `LineTouch`, `PointsReport` | `update`, `touch`, `updateFeedback` from a driver or the MQTT bus |
| `SwitchDemand`, `SignalDemand`, `LockDemand` | the three loops of `applyControlTransaction` |
| `ScanBegin` | parts A, B, C of `evaluateVitalRules` and the reset of the masts |
| `PassOver`, `ContinueTraversal`, `EngineReturn`, `HoldAtStop`, `AcceptTrain`, `ClearRoute` | the body of the route loop, one action per way through it |
| `ScanEnd` | `applyTimeLocks` |

A scan is several steps of the model so that each route is a step; nothing else
can happen between them (`next = Idle` guards every other action), as in the
program. Properties about what an observer sees are stated with `next = Idle`.

A control transaction is one demand per appliance. The model takes one demand at
a time; a transaction with more is a series of them, in the order of the code,
with no scan between, and the model allows that series. What it does not
constrain is the office: any demand may come at any time.

### State and actions of the block

`plant` is the block that is checked, chosen in `Init`; `relays` holds the levers, the
sticks (`sr`), latches (`hr`, `cleared`, `home`, `dropped`), the routes under
a train and the masts; `train` and `outside` are the railroad. `Scan` samples
every circuit and runs parts C to F for the whole block (`Scanned`, in
`BlockOps`); `SignalDemand` and `ReleaseTimeRuns` are as in the plant. There are no
switches in it: what `InterlockingPlant` models is left out here and the other way
round, and both use the same operators for levers.

`Arrive`, `Advance`, `PullClear` and `Depart` are the trains. They are the environment:
a train obeys the mast that faces it, stands on one circuit or across a joint of two,
and makes at most one move between two scans, since a scan takes milliseconds
and a circuit seconds. It may be looked at by any number of scans anywhere.

The block is evaluated as one plant although its locations may be field units of
their own: `tests/test_automatic_signal.cpp` does the same. Within one scan, a
location that is evaluated later sees what an earlier one has just latched.

### State and actions of the office

| action | code |
|---|---|
| `DeskLoop` | one pass of `loop()` in `examples/spcoast_ctc`: connect, one message, buttons, `pollCode`, the display cycle |
| `AlignmentEnds` | `now < coldStartAlignUntilMs` becomes false |
| `ConnectionLost`, `DeskRestart` | faults, at most `setup.failures` of them |
| `MoveLever`, `PressCode`, `ReleaseCode` | the dispatcher |
| `Deliver` | `MqttCodeLine::onControlMessage` |
| `FieldCycle` | receive, decode, apply, indicate, in one cycle of a field unit |
| `PlantMoves` | the railroad changes what is to be indicated |

`setup` chooses the build (fast or stepping), the codec, whether field units
indicate in every cycle or on change, and the number of faults. A message is
what was encoded; what a field unit reads of it, `Read`, is all of it or
what a buffer had room for. A text is a list of tokens and a frame a set of bits:
`WireCodec` says which tokens and bits, and what the decoders make of those
they get. The outcomes are computed once for every position of the levers
(`Codings`, `Outcomes`), not in every step.

### State and actions of a plant file

`Configure` makes one of the author's calls, in any order that lets a binding follow
the declaration of its owner (the call is a method of what the declaration
returned). `Serialize` saves the plant as it is then, finished or not.
`Boot` reads the file into a new plant and `Reload` into the plant that is there.
A plant is a record of tables of named entries; a binding is a record of the
kind of object and its name, `Released` is a term without a slot. `asked` is
history: the terms that the calls asked for. `Undefined` is where the model ends: a
plant with more crossovers than `crossovers_` holds was written behind the array's
end, since `addCrossover` checks `MAX_APPLIANCES` (`Room`) and the array has
`MAX_CROSSOVERS` entries (`CrossoversFit`), and nothing is said of it afterwards.

## 3. Properties and runs

Twelve runs. Four pass and eight show a disagreement between code and document.

### `stations` (passes; 210 000 states, with fairness)

Four small systems in one run. They have nothing in common; `station` says which of
them a behaviour runs, so that the states of the run are the sum of the four and
not the product.

The lever is `SignalControl` under every order of controls, trains, scans and time.

* `TimeLockedAtStop`: while time runs, the signal is at Stop both ways.
* `NoReclearWithoutCode`: a signal that a train took, not fleeting, stays at Stop
  until the next control.
* `TimeLockRunsFull`: time locking is not over before its full duration.
* `ImplementsApproachLocking`: the three relays and the stamp implement
  `ApproachLocking`, in which a signal is at Stop, cleared, or running time. The
  mapping takes the mode from the ASR and the active direction, and the time
  waited from the true clock, not from the stamp.
* `SignalInv`: the inductive invariant of the proofs.

The spur is an `InterlockingPlant`: a main switch with a dependent derail and an
electric lock, a route out with an approach circuit, an engine return that displays
Restricting without a lever, and a route without a mast.

* `SpurPairsAgree` and `SpurDisplayedRouteSecured`: what `crossover` checks under these
  names, for a derail pair, hand locks, points that never arrive, and engine returns.
* `SpurTimeLockEnds`: time locking that runs is over some time.
* `SpurLocksRelease`: when the office leaves every lever at Stop and the tracks are clear
  for good, nothing but electric locks remains.

The block end is another: one switch whose detector has a dropout delay, and a route
under the home and proceed line circuits of the block ahead, whose sources can
fall silent.

* `BlockEndTrainHoldsRoute`: route locking with the dropout delay and a circuit that goes
  silent under the train.
* `BlockEndFleetReclears`: a fleeted signal clears again by itself once the tracks are
  vacated (or will be, when the delay is over), the points correspond and the line is up.

The plant is `PlantFile` with eight authors: a switch with its derail and a route over
both and a missing machine; a crossover with its detector; the end of a line with facts
that exist or not; an automatic location back to back; an automatic signal that reads the
line of a control point; two lines of which one reads the other; a build with one slot in
every table; and one crossover too many. Their calls are made in any order and the plant is
saved after any of them.

* `TypeOK`: no table outgrows the limit that its calls check, no array of terms its own
  size, and every pointer of an owner leads into a table of the same plant. The
  crossovers are the exception that `Undefined` names: their limit is not their size.
* `NoTermLost`: a term that was asked for is among the terms of its owner, or reads
  released for want of a slot, or its owner is marked incomplete and stays at Stop.
* `StartsAsSaved`: the plant that starts from the file is the plant that was saved: the
  same appliances at the same index, the same lines, pairs, crossovers, detectors,
  timeouts and marks, and every term bound to the same object. The one difference is
  stated exactly: an output of a control point line that something names which the reader meets
  before the line (`ReadEarly`) is an implicit line input now, for all who name it, and
  the conflicts in the report are these names and no others. (A route that names no
  entrance has its first circuit for one afterwards, which is what it had in effect.) For
  plants in which sources came first and nothing is missing.
* `GapsStayGaps`: a name without a source is not given one by saving the plant.
* `FileSettles`: the file of a plant that was read from a file reads back to the same
  file. (Once settled: the circuit of a pair becomes a binding of each half on
  the first reading.)

Bounds. Lever: duration 3, horizon 9 and a clock of 64 values; the horizon holds three
full time locks, hence every way in which one can follow another, and the relays
have no other memory of time than one stamp. Plant: each author has the calls of one
feature, five to nine of them, in every order and prefix; two features meet in a call only
through the names they share, and the authors have those. The capacities are those of
the code, but for the last two authors, who have one and two slots, and for
`MaxCrossovers`, which is 1 so that two crossovers are too many. `TypeOK` and `NoTermLost` are
proved for any authors and capacities (section 4).

### `crossover` (passes; 1 070 000 states)

The crossover 3/3B of CP Christopher, two levers, an approach circuit and three
routes of which every two conflict: two by the position of the crossover and two
by the direction of one lever. Behind them in the table are an engine return over the
crossover, to cars left on the approach track as in `tests/test_tracer_bullet.cpp:52`, and a
route without a mast.

* `PairsAgree`: the two machines of the pair are always commanded and locked alike.
* `DisplayedRouteSecured`: a mast that is not at Stop shows a route whose switches
  are commanded and route locked, from the scan until the next one, whatever
  demands come in between.
* `NoConflictingRoutes`: no scan leaves two conflicting routes cleared.
* `TimeLockKeepsPoints`: while time locking runs, the switches of the route that was
  displayed stay where the approaching train needs them.
* `TrainHoldsRoute`: from the scan that sees the train enter a displayed route until
  it has left, every switch that it has not cleared is route locked.
* `NoMoveUnderSignal`: no step commands a machine of a displayed route.
* `PlantInv`: the inductive invariant of the proofs.

Bounds: five routes, two machines, three circuits. Two routes are what every one of
these properties speaks of; the others are there for the order of evaluation (a
route that comes between them) and so that each way through the route loop is taken.
The proofs below do not depend on the bounds.

### `block` (passes; 77 000 states, with fairness)

Four blocks: the track of `tests/test_automatic_signal.cpp` with two locations; one
location with opposing cuts and trains that follow each other; one with
traffic requested and read from the field; one whose lever runs time. In each,
two trains and an office that works the levers of both ends.

* `TrainsApart`: two trains that obey the signals never stand on one circuit, head-on
  or following.
* `FarEndLockedOut`: after a scan that finds a train in the block, the leaving routes at
  the end it goes to have a released home term (I2, ADR 0007).
* `OneEndCleared`: when both ends have cleared in one scan, the next scan takes one
  away (I1, up to the latency of a scan: `docs/adr/0008-automatic-signal.md:132`).
* `BlockInv`: the inductive invariant of the proofs, in the blocks that the theorems are
  about (section 4): all but the one with requested traffic.
* `BlockComesToRest`: when trains and controls have gone, sticks and dropped traffic
  are restored and both ends can be cleared again.
* `LoneTrainLeaves`: a train that is alone in the block, with the control of its home
  signal up, does not stand before an automatic signal for ever. With opposing
  cuts the two masts of a location at rest take turns to cut each other, and the
  train still gets through.

Bounds: two trains, since every property is about two; a block of two and of three
circuits inside, which is one and two locations. A train moves at most once
between two scans.

The lines of these blocks govern the OS circuits of their control points too (or, in
the third, have them in `block` and read FIELD_FR). That is more than the test and ADR
0008 (`docs/adr/0008-automatic-signal.md:109`) ask, where a line governs the circuit
beyond the OS only; `block_test_lines` shows what fails then, and the theorems have the
stronger rule as a hypothesis (`FarLine` of `Chained`).
With time locking or requested traffic a stick can outlive its train;
F or a mast at Stop still keeps trains apart.

The deadlock check is off: when all trains stand at signals at Stop and no demand is
left, nothing more happens until the dispatcher acts.

### `office` (passes; 48 000 states, with fairness)

A desk of two stations: one with a signal, two switches, a maintainer call and two
columns of which one has the CODE button, and one with a switch and two
circuits. Desk and field units number their appliances differently. Three
setups: fast build, text, cyclic indications, one fault; fast build, bits,
indications on change, one fault; stepping build, text, on change.

* `OneControlPerCode`: a station is never sent more controls than CODE was pressed and
  released for, over reconnections and restarts.
* `FramesAreExact`: on the bit-packed line a field unit obeys exactly what was coded
  at its station; a frame that lost its end is refused as a whole.
* `PanelNeverGoesBack`: in the fast build the lamps never fall back to an earlier state of
  the plant, also when the broker repeats what it retained.
* `PanelCatchesUp`: in the fast build they show the plant as it is in the end.
* `ControlsArePlayed`: in the stepping build with indications on change every queued
  control is published in the end.
* `NoPartialControls`: what is obeyed at a station contains, whole, a control that was coded
  there, possibly long ago, and nothing else but, on the text line, the last function
  of the schema (`text_cut` is about that one).

`PanelNeverGoesBack`, `PanelCatchesUp` and `ControlsArePlayed` speak of one build where the other makes no such promise: the queue of
the stepping build drops the newest indication when it is full and applies an
alignment before what is queued, and indications that come in every cycle keep the
display from controls for ever.

Bounds: two presses at one station show that a second control neither repeats nor
overtakes the first; queues and network hold one message, so that full and
overtaken are the normal case; one fault, at any moment; two states of a plant.

### The eight disagreements

| run | statement | what the code does |
|---|---|---|
| `signal_control_wrap` | `TimeLockRunsFull`: the ASR stays dropped while the timer runs down (`SignalControl.h:87`) | `nowMs >= timeLockExpiryMs_` compares stamps; when the sum wraps, time locking is over at the next scan. Needs a cancellation within the release time before the millisecond counter wraps, once in 49.7 days of uptime |
| `christopher` | `TrainHoldsRoute`: "route locking ahead of and under the train" (`README.md:131`) | a train is attributed to the first route of the table that its lever and entrance fit, lined or not; the two northbound routes of CP Christopher share both, so a train for the crossover route leaves switch 1 without a route lock until its own circuit is shunted |
| `cancel_unaligned` | `CancelRunsTime`: Stop is always accepted and runs time if the approach is occupied (`docs/AAR_SIGNALING_PRIMER.md:723`) | the approach circuit is taken from the route that is aligned at that moment; with the points out of correspondence there is none |
| `detector` | `DetectorHoldsPoints`: a command received during occupancy is rejected (`docs/CONTROL_POINT_ARCHITECTURE.md:385`) | the demand is checked against the locks of the last scan; an occupancy sampled in the same loop, before the demand, is not in them |
| `text_cut` | `ObeysOnlyWhatWasCoded`: a text with a token missing or unknown is rejected as a whole (`docs/AAR_SIGNALING_PRIMER.md:544`) | a token that begins with a parenthesis and does not end with one is taken for asserted (`WireCodec.h:830`), so a text that lost only its last character is obeyed with its last function asserted. The bit-packed line implements `CodedControls` (theorem `FramesImplement`) |
| `block_test_lines` | `FarEndLockedOut`: I2 holds once the leaving signals have their line terms and the ports are exported (`docs/adr/0007-interlocking-block-seam.md:60`) | a line's H is cut while its leaving signal is cleared (`ControlPointLine.h:232`). A train on the OS has knocked that signal down, so with lines that govern the circuit beyond the OS only, as in the test (part E), H comes up again before the train enters; the opposing signal picks, its stick takes the train for one that recedes, and the far end's home fact is up with the train in the block. The test looks after one scan with the OS occupied, before the cut ends |
| `plant_start` | `GeneratedNeverConflicts`: "a generated file never conflicts" (`docs/adr/0009-unresolved-references.md:67`) | `deserialize` binds automatic signals before it adds the lines of control points (`PlantSerializer.h:1051`): an automatic signal that reads a line gets an implicit wire of that name, which shadows the line, and a conflict is reported |
| `plant_reload` | `ReloadKeepsTerms`: "Reset plant to neutral empty state before loading new definition" (`PlantSerializer.h:672`) | `reset()` sets counts; an automatic signal that takes its slot again keeps the circuits of the load before, and after `MAX_BLOCK_FACTS` of them, here the fourth reload, a new circuit is dropped together with the home term of its route. The sketches load once |

The horizon of `signal_control_wrap` is past the end of a clock of 8 values, which
stands for 2^32. `christopher` and `cancel_unaligned` use as many routes as the
disagreement takes.

### Fairness

`StationsSpec`, for the spur and the block end, assumes that the scan goes on (`WF_vars(ScanStep)`: `loop()` runs for
ever) and that a delay that has begun is over at some time. The events of time
are enabled only between two scans, hence again and again and not always, and so
strong fairness is the assumption that time passes. Nothing is assumed of the
office, the trains, the points or the sources of the inputs. The lever and the plant file
have no fairness.

`Block` assumes that it is scanned for ever (`ScansForEver` is weak fairness of `Scan`
written out), that time locking ends, that a train that may go
again and again goes some time (strong, because the signal may drop between two
looks of the engineer), and that a train pulls clear and departs. No demand and no
arrival is assumed. `Office` assumes that the loops of desk and field units run for ever,
that a display cycle takes bounded time, and that the broker answers a desk
that keeps asking. It assumes nothing of the dispatcher, of the railroad or of faults, which
are bounded.

### What else the models showed

Behaviour that no run is about; a maintainer should know of it.

* Texts are cut without a report at 511, 255 or 256 characters, depending on the line.
* A control is dropped when the desk's queue is full although its one-shot was consumed
  (`examples/spcoast_ctc/spcoast_ctc.ino:293`): the dispatcher has to press again.
* `decodeIndications` does not read the quality of a circuit; the bit-packed codec keeps the
  assignment of electric locks when it is configured again.
* The sketch of CP Christopher declares functions (a switch 3B, a maintainer call) that the desk
  does not code; a control that lacks a declared function is refused there.
* An appliance that is missing is not written to the file: the plant that starts from it has
  neither the term nor the mark that held the route at Stop (`PlantSerializer.h:601`).
  `docs/adr/0009-unresolved-references.md:61` has such a route at Stop "until the model
  declares it"; the properties about saving leave these plants out (`SourcesFirst`).
* `bindDetectorLock`, `addCrossover` and `addDerail` with an unknown name do nothing and
  report nothing.
* `addCrossover` checks `MAX_APPLIANCES`, 16, and its array has `MAX_CROSSOVERS`, 8, entries
  (`InterlockingPlant.h:333` and `:900`): the ninth crossover is written behind the array. No
  document speaks of the number of crossovers. The models stop there (`Undefined`).
* A home fact beyond `MAX_ROUTE_FACTS` is left out of its route without a report.
* `engineReturn`, driver overrides and durations of time locks are not written to a file.

## 4. What is proved

For every value of the constants that satisfies the named assumptions (any set of
machines, any pairing, any table, any number of levers; any clock; any schema, panel
and block of the shapes named below):

`SignalControl_proofs`

* `TypeCorrect`, `LockedAtStop`, `StickHolds`, and `Invariance` of the inductive invariant.
* `FullDuration` and `Implements`, under `NoWrap` (the horizon and the duration are
  below the range of the counter), which is what `signal_control_wrap` violates.

The inductive invariant `SignalInv` adds to the properties that a dropped stick
keeps the signal at Stop, that a train's signal has its stick dropped, and, without
wrapping, that the stamp is the time of the lock plus the duration: without
that, nothing ties the comparison of `evaluate()` to time that passed. `OnlyScanReleases`
shows that no other operation lets go of a time lock.

`InterlockingPlant_proofs`

* `TypeCorrect`, `LockingInvariant`, `PairsCorrect`, `DisplayedSecured`,
  `ConflictsExcluded`, `TimeLockHolds`, `DisplayedNotMoved`.

The properties that hold between two scans are not inductive: the locks are all
dropped when a scan begins. `PlantInv` says what holds in the middle of a scan, of
the routes that it has looked at (`Scanned`): a cleared one is secured
(`ClearedSecured`), a raised mast has a secured one (`MastSecured`), their lever
still holds their direction or has been knocked down (`LeverAgrees`), and no two
of them conflict (`ScannedAgree`). Two steps carry the proof. A switch
with a lock gets no new command, by itself or through its pair, because the pair
has the same locks (`PairsAgree`, lemma `ThrowSparesLocked`). And a route can be
cleared only with its switches in correspondence in the positions it
needs, so one that conflicts with a route cleared earlier in the scan finds the
machines commanded otherwise (`AgreeStep`). `HeldLocked` carries time locking
over the moment when the route lock is gone and the time lock not yet set: it is
within a scan, when no demand can come.

Route locking, in the same module

* `TrainKeepsRoute`: `TrainHoldsRoute` for every plant with an `OrderlyTable`: the entrance
  circuit of a route is one of its blocks, an engine return has no lever, and a lever
  accepts trains for one route in each direction.

The tables of `crossover` and of the block end are orderly; that of `christopher` has two routes of
one lever, direction and entrance. Two entrances would not help: when two trains come
to two entrances of one lever between the same two scans, the first route of the
table knocks the lever down and the second is reset under its train. `TrainInv`
follows a train through a scan: the scan that begins finds it at the entrance of a
displayed route whose lever still holds the direction (or on the blocks of a route that
it traverses), no step over another route changes that (`TrainStillSeen`, where the
assumption is used), so that the step over its route accepts it or carries on
(`TrainTaken`), and what that step locked lasts until the next scan (`TrainStays`).

`WireCodec_proofs`

* `CutTexts`: what is left of a text that was cut anywhere is refused, or asserts what was
  written, or in addition the last function of the schema.
* `CutFrames`: a frame has room for every bit of its schema, and a shorter one is refused.
* `DecodedAsHeard`: an accepted text gives every appliance what its tokens assert.
* `UnpackedAsPacked`: a frame whose bits say what the appliances assert is accepted, and
  its transaction asserts the same.
* `IndicationsRead`, `IndicationsUnpacked`: an indication, written or packed, is accepted and gives
  every appliance the state that the plant has.

These hold for every schema (`CutTexts` for either direction, `UnpackedAsPacked` for one that the
tables have room for). A text is put together entry by entry and start bits are
counted entry by entry; what holds of such a function at every entry is shown by looking at the
least number where it would fail. `StartsGrow` and `BitsApart` say that no two
functions share a bit, `MapsComplete` that no map is lost when a schema is
declared to a new codec. For the indications `VectorTells` says that the fields of a
vector and the roles asserted for them say the same (`Alike`), a contrary switch and a signal at
Stop included; the polarity of a circuit drops out because both ends declare the same.

`Office_proofs`

* `OfficeInvariant`, `TypeCorrect`, `NoControlTooMany`, `NoPartialObedience`, `FramesExact`,
  `NeverGoesBack`.
* `FramesImplement`: on the bit-packed line desk, broker and field units implement
  `CodedControls`. On the text line they do not (`text_cut`), and `NoPartialObedience` says what
  is left: no part of a control and no mix of two.
* `TrueToThePlant`: an indication, on either line, lights the lamps that the plant stands for.

A pass of the desk's loop is a chain of stages, each a function of the desk as one record;
there is a lemma for each stage. `OneControlPerCode` speaks of what was sent, but
a control that is coded twice is in a queue long before it is sent: `NoneTooMany` counts
what is sent, queued, played and triggered together, and `Count` follows one station's
messages through the queues. `SlotCoded`, with its like for queues and network, says that
whatever is under way was coded for its station, so that what a field unit takes
comes from `coded`; what a cut message may be taken for is `CutTexts` and `CutFrames`, and
that a whole frame is taken for what it was is `UnpackedAsPacked`.
`PanelInv` carries `PanelNeverGoesBack`: indications of a station are on their way in the
order of its moves (`InOrderOfMoves`), none of them older than what the lamps show
(`LampsBehind`), and none is on its way when the desk is not connected.

`BlockScan_proofs` and `Block_proofs`

* `TypeCorrect` and `BlockInvariant`.
* `BlockTrainsApart`, `BlockFarEndLockedOut`, `BlockOneEndCleared`: I1 and I2 of ADR 0007 and
  that trains stay apart, for any plant that is `Chained`: more than three circuits in a row, a
  control point at each end with one lever, a line at each end that governs the last two
  circuits, the OS among them, and is cut when its leaving signal is cleared, and between
  them, for each direction, one automatic signal after the other, each with its stick and
  each reading the H of the one ahead. Any length, any number of trains, any demands at both ends.

`BlockScan_proofs` follows the loops of `evaluateVitalRules()` entry by entry: what each
leaves of levers, sticks, routes, HRs and lines, for any plant, with one lemma for an entry and
one for the loop. `ChainUp` follows the recursion of `asserted()`: a signal whose HR is up
speaks for every circuit to the far end, unless a stick is up that makes it
stop there. That makes the invariant local: `AheadClear` and `RelaysInOrder`
relate masts and HRs to the circuits ahead of them, `InTrackOrder` and
`SticksBehindTrains` say which trains may be in the block with which sticks up, and `PassedAlone`
that a train which passed a mast had nobody before it. A move of a train keeps them
because a mast that is not at Stop promises the circuits ahead; a scan keeps them because of where the
trains stand (`TrainsSampled`, `ScanKeeps`). The hypothesis that the lines govern
the OS circuits too is what `block_test_lines` shows to be needed; that the tumble-down is the
cleared one leaves the block with requested traffic to TLC. `MCBlock` has the three other
blocks of the run among its assumptions, so that the hypothesis is known to be met.

`PlantConfig_proofs`

* `TypeCorrect`: `TypeOK`, for limits of any size and any programs of calls: no call goes beyond
  the limit that it checks and no pointer leads out of its plant. It does not say that
  `crossovers_` is as large as the limit that `addCrossover` checks, which it is not.
* `ResolveFactIs`, `ConfiguredKeeps`, `SerializedIs`: what a name resolves to, what a call may
  change, and what is written.

`PlantFile_proofs`, on those lemmas

* `NothingLost`: `NoTermLost`, for every build.
* `LaidStep`, `LaidFileOnce`, `FileLaid`: what a program of calls leaves, what its file names,
  and what reading it leaves.

`NoTermLost` speaks of all calls at once, and every call could undo an earlier one: a term
is overwritten, a full array drops it, a second owner of the same name hides the first,
`markIncomplete()` takes another owner than was meant. `Keeps` says what a change may do: tables
grow, the fields of a set `W` are written anew, those of a set `E` get one term more, the
owners of a set `D` are declared, and nothing else of any owner changes.
`ConfiguredKeeps` shows every call of the interface to be such a change, with
the sets that `Rewrites`, `Lengthens` and `Owns` name in `PlantFile`, and that the terms
it asks for stand when the arrays it fills have room.

The inductive invariant is `Told`. As long as the author configures, its plant is `Laid`: it has no
owner that no call declared (`Founded`), no owner twice (`Once`), every array has at most as many
terms as calls were made that lengthen it (`Counted`), the calls that declare an owner are
not still to come when it is bound (`Settled`), the route of an automatic
signal is marked automatic (`Signalled`), and the calls made are met (`Met`). `LaidStep` takes one
call more: there is room for it because the program does not overfill the array, and what stood
stays because no other call rewrites the field. None of the parts can be left out:
without `Once` a binding reaches another owner, without `Counted` the array may be full,
without `Settled` a declaration would blank what a binding wrote.

A unit that starts makes other calls than the author did, in another order. `FileLaid` shows
that they are a program of the same kind. The reader's calls come in groups, first the declarations
and then one group for each owner (`Arranged`); what one group writes is of its own owner only
(`ArrangedApart`), a group makes no more calls of a kind than the array of the field holds
(`Moderate`, since the array they were written from is no longer), and the homes of
an automatic signal's route, which three kinds of calls lengthen, get at most the
signal's `MAX_BLOCK_FACTS` circuits, its H and its cut. All that rests on the file naming every owner
once (`FileOnce`), which `LaidFileOnce` has from `Once` and `Signalled`: the route of an automatic
signal is left out of the file, or it would be declared twice.

Only model-checked:

* what must happen: `SpurTimeLockEnds`, `SpurLocksRelease`, `BlockEndFleetReclears`, `BlockComesToRest`,
  `LoneTrainLeaves`, `PanelCatchesUp`, `ControlsArePlayed`. Liveness under fairness is beyond the
  prover, and so is `ENABLED`;
* `StartsAsSaved`, `GapsStayGaps` and `FileSettles`. The first two hold because the report has
  room for every gap: `noteUnresolved()` drops what comes after `MAX_UNRESOLVED`, and in a plant with
  more gaps than that, which a start finds in another order, a name can go from the
  report. They are properties of the capacities of the run and not of every one. `FileSettles`
  compares two readings entry by entry, the order of every table included;
* the block with requested traffic, as above.

Assumptions on the constants:

* `PairAssumption`: pairing is symmetric, and a derail is paired with a switch that is not one.
* `TableAssumption`: types of the route record; an automatic route has no entrance
  circuit, because `evaluate()` would call `knockdown()` on its missing lever.
* `EnvironmentAssumption` and `ClockAssumption`: types.
* `OfficeAssumption`: the desk's stations are different ones and each column belongs to one;
  capacities are numbers.
* `SchemaAssumption`: both ends of a line declare the same appliances in the same order, within
  the tables, no appliance twice. The library has no check of that: it is what the
  sketches are written to, and a line whose ends differ is refused by the text codec.
* `IndexAssumption`: the numbers of a transaction's entries are 0, 1, ... below a capacity.
* `IndicationAssumption`, for `TrueToThePlant` and `NeverGoesBack`: the same of what a field unit
  indicates, in the same polarity; the vector reaches every appliance of the schema, a switch in
  correspondence is in one of its positions, and what a column has lamps for is indicated. Masts have no bits and no
  lamps at the desk, and are not in the schema.
* `PanelAssumption`, for `NeverGoesBack` only: two states of a plant look different on the
  panel, and none looks like a dark panel. Without that "earlier" could not be seen on the lamps.
* `PlantsAssumption`: the names in a block's tables are names of what the block has.
* `SizesAssumption`: limits are numbers, `MaxCrossovers` too; what an automatic signal governs, its H and its cut fit into the home of its
  route, as 4 and 8 do in the library.
* `AuthorsAssumption`: the calls of a build are calls of the interface, with the number of names
  they take.
* `OrderAssumption`: a program says everything once (`SaysOnce`): no owner is declared twice, no
  field that a call writes anew is written by a second call, and no array is given
  more than it holds. In any order. Programs that are not like that lose terms in the library: the second
  `clears()` takes the place of the first, and what is too much for an array is left out (the
  `resource_bound` hazard at `ControlTable.h:256`).

TLC evaluates them in every run of the modules that state them.

## 5. What is left out

* The clock of a track circuit: dropout and staleness are events; the subtraction of stamps
  and the stamp 0 are not modelled.
* The stream code line and the mock code line (a queue that loses nothing but the end of a
  long text).
* Publishing on the appliance bus with retries and its echo of commands.
* Electrical drivers, pins, the travel of the mock switch, driver overrides, lamps and the
  tables of the aspect policies, `Quality::DEFECT`, which nothing in the library sets.
* Ceilings of automatic signals below Clear; they lower an indication and open nothing.
* Characters: the scanner of the serializer, its buffers, the spelling of tokens.
* The bench sketch and the displays of the desk.

`InterlockingPlant` has no automatic signals and `Block` has no switches. What they share,
levers, occupancy and the masts, is in both; a switch is for a block what a released
home fact is, and the state of a block reaches the plant as a line input.

## 6. Plan

Done: the relays of a lever, switches, circuits, the control table and the plant; the
block with its trains; the office, its codecs and the code line; the configured plant
and its file: all with their invariants proved.

Next, in this order:

1. `StartsAsSaved` and `GapsStayGaps` as theorems, for plants whose report is not full, on the lemmas
   of `PlantFile_proofs`.
2. `TrackCircuit`: the circuit with its real clock, on the operators of `CircuitOps`.
3. `ApplianceBus`: publishing with retries, echo of commands, retained aspects.
