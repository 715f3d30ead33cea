-------------------------- MODULE InterlockingPlant --------------------------
(***************************************************************************)
(* A field unit: the plant under control messages, input reports and scans *)
(* in every order the loop of a field unit can meet them.                  *)
(*                                                                         *)
(* Between scans the plant takes reports (track, points, line) and control *)
(* demands.  A control transaction is a series of demands, one per lever:  *)
(* a transaction that carries a single demand is legal, and a longer one   *)
(* does what its demands do one after the other, in an order that is among *)
(* those explored here.                                                    *)
(*                                                                         *)
(* A scan is evaluateVitalRules().  ScanBegin does everything up to the    *)
(* control table; then each route of the table is one step, in the order   *)
(* of the table, and ScanEnd applies time locking.  Nothing else happens   *)
(* in between: the program has one thread.  `next' is the route the scan   *)
(* looks at, and Idle when no scan runs.                                   *)
(*                                                                         *)
(* Durations are not counted.  That a timeout has passed is an event       *)
(* (ReleaseTimeRuns, DropoutPasses, SourceFallsSilent, TravelOverruns) and *)
(* the next scan sees it.                                                  *)
(***************************************************************************)
EXTENDS ControlTable, SignalControlOps

CONSTANTS
    Delayed,       \* circuits with a dropout delay
    Watched,       \* circuits and lines whose source can fall silent
    PointsReports, \* what the feedback of a machine can say
    Overruns,      \* machines that can fail to arrive in the travel time
    Demands,       \* what the office can ask of a lever: <<lever, req, fleet>>
    Levers         \* the switches whose electric lock the office works

ASSUME EnvironmentAssumption ==
    /\ Delayed \subseteq Circuits
    /\ Watched \subseteq Circuits \cup Lines
    /\ PointsReports \subseteq Positions
    /\ Overruns \subseteq Switches
    /\ Demands \subseteq Authorities \X Directions \X BOOLEAN
    /\ Levers \subseteq Switches

VARIABLES
    tc,        \* the track circuits
    line,      \* the line inputs
    sw,        \* the switch machines
    locks,     \* per machine, the set of locks on it
    sig,       \* the signal controls
    route,     \* per route: IDLE, CLEARED or TRAVERSING
    section,   \* per route and switch: sectional release
    mast,      \* what each mast shows
    next,      \* the scan's position in the table
    held,      \* history: per authority, the routes whose displayed signal
               \* was taken away from the train that time locking protects
    underway   \* history: the routes that a train entered while they were
               \* displayed, and has not left

inputs  == <<tc, line>>
engine  == <<route, section, mast, next>>
history == <<held, underway>>
vars == <<inputs, sw, locks, sig, engine, history>>

Fresh == 1  \* a stamp taken since the timeout it is compared with
Old   == 2  \* one taken before

\* A source that no timeout is kept for is not stamped: it is always fresh.
StampOf(x) == IF x \in Delayed \cup Watched THEN Fresh ELSE 0

Idle == Len(Table) + 2
Scanned(i) == i < next

NoSection == [s \in Switches |-> "LOCKED"]

Init ==
    /\ tc = [c \in Circuits |-> CircuitAtRest]
    /\ line = [l \in Lines |-> LineAtRest]
    /\ sw = [s \in Switches |-> MachineAtRest]
    /\ locks = [s \in Switches |-> {}]
    /\ sig = [a \in Authorities |-> SignalAtRest]
    /\ route = [i \in Routes |-> "IDLE"]
    /\ section = [i \in Routes |-> NoSection]
    /\ mast = [m \in Masts |-> "STOP"]
    /\ next = Idle
    /\ held = [a \in Authorities |-> {}]
    /\ underway = {}

-----------------------------------------------------------------------------
(* Reports of the inputs, between scans.                                   *)

TrackReport(c, occ) ==
    /\ next = Idle
    /\ tc' = [tc EXCEPT ![c] = UpdateCircuit(@, occ, TRUE, StampOf(c), c \in Delayed)]
    /\ UNCHANGED <<line, sw, locks, sig, engine, history>>

TrackTouch(c) ==
    /\ next = Idle
    /\ tc' = [tc EXCEPT ![c] = TouchCircuit(@, StampOf(c))]
    /\ UNCHANGED <<line, sw, locks, sig, engine, history>>

LineReport(l, energized) ==
    /\ next = Idle
    /\ line' = [line EXCEPT ![l] = UpdateLine(@, energized, StampOf(l))]
    /\ UNCHANGED <<tc, sw, locks, sig, engine, history>>

LineTouch(l) ==
    /\ next = Idle
    /\ line' = [line EXCEPT ![l] = TouchLine(@, StampOf(l))]
    /\ UNCHANGED <<tc, sw, locks, sig, engine, history>>

PointsReport(s, position) ==
    /\ next = Idle
    /\ sw' = [sw EXCEPT ![s].reported = position]
    /\ UNCHANGED <<inputs, locks, sig, engine, history>>

-----------------------------------------------------------------------------
(* Timeouts.                                                               *)

DropoutPasses(c) ==
    /\ next = Idle /\ tc[c].clearing /\ tc[c].since = Fresh
    /\ tc' = [tc EXCEPT ![c].since = Old]
    /\ UNCHANGED <<line, sw, locks, sig, engine, history>>

SourceFallsSilent(x) ==
    /\ next = Idle
    /\ \/ /\ x \in Circuits /\ tc[x].last = Fresh
          /\ tc' = [tc EXCEPT ![x].last = Old] /\ UNCHANGED line
       \/ /\ x \in Lines /\ line[x].last = Fresh
          /\ line' = [line EXCEPT ![x].last = Old] /\ UNCHANGED tc
    /\ UNCHANGED <<sw, locks, sig, engine, history>>

TravelOverruns(s) ==
    /\ next = Idle /\ sw[s].reported = "MOVING" /\ ~sw[s].overdue
    /\ sw' = [sw EXCEPT ![s].overdue = TRUE]
    /\ UNCHANGED <<inputs, locks, sig, engine, history>>

ReleaseTimeRuns(a) ==
    /\ next = Idle /\ sig[a].timeLock /\ sig[a].timer # 0
    /\ sig' = [sig EXCEPT ![a].timer = 0]
    /\ UNCHANGED <<inputs, sw, locks, engine, history>>

-----------------------------------------------------------------------------
(* applyControlTransaction(), demand by demand.                            *)

SwitchDemand(s, target) ==
    /\ next = Idle
    /\ sw' = ThrowSwitch(sw, locks, s, target)
    /\ UNCHANGED <<inputs, locks, sig, engine, history>>

\* A demand that takes a cleared signal away looks at the approach circuit of
\* the route that is aligned now.
SignalDemand(a, req, fleet) ==
    LET occupied == CancelApproachOccupied(a, sig, sw, tc)
    IN /\ next = Idle
       /\ sig' = [sig EXCEPT ![a] = UpdateCommand(@, req, fleet, occupied, 1)]
       /\ held' = IF Cancels(sig[a], req) /\ occupied
                  THEN [held EXCEPT ![a] =
                           {i \in Routes : /\ route[i] = "CLEARED"
                                           /\ Table[i].authority = a
                                           /\ Table[i].direction = sig[a].active}]
                  ELSE held
       /\ UNCHANGED <<inputs, sw, locks, engine, underway>>

\* The electric lock of a hand-thrown switch: released only with every signal
\* of the plant at Stop and no time locking running.
LockDemand(s, demand) ==
    /\ next = Idle
    /\ \/ /\ demand = "LOCK"
          /\ locks' = AddLock(locks, {s}, "HAND")
       \/ /\ demand = "UNLOCK"
          /\ \A a \in Authorities : sig[a].active = "STOP" /\ ~sig[a].timeLock
          /\ locks' = RemoveLock(locks, s, "HAND")
    /\ UNCHANGED <<inputs, sw, sig, engine, history>>

-----------------------------------------------------------------------------
(* evaluateVitalRules().                                                   *)

\* The plantClear argument of evaluate(): every route that the lever commands
\* has its blocks clear and its home facts asserted.
PlantClear(a, tcNow, lineNow) ==
    \A i \in Routes :
        /\ Table[i].authority = a
        /\ Table[i].direction = sig[a].commanded
        => BlocksClear(i, tcNow) /\ HomeFacts(i, lineNow)

\* Mutant: the route locks are not dropped.
KeptLocksOfRoute == [s \in Switches |-> locks[s] \cap {"HAND", "ROUTE"}]

\* A scan drops every lock but the electric ones and sets the others anew.
KeptLocks == [s \in Switches |-> locks[s] \cap {"HAND"}]

\* Parts A to C: locks fall and detector locking is set on the inputs as they
\* stand, then the timers of the inputs advance, then the levers are evaluated.
ScanBegin ==
    LET shunted == {s \in Switches :
                       \E k \in DOMAIN Detectors[s] : ~IsClear(tc[Detectors[s][k]])}
    IN /\ next = Idle
       /\ locks' = AddLock(KeptLocks, shunted, "DETECTOR")
       /\ sw' = [s \in Switches |-> TickMachine(sw[s])]
       /\ tc' = [c \in Circuits |->
                    TickCircuit(tc[c], tc[c].since = Old, tc[c].last = Old)]
       /\ line' = [l \in Lines |-> TickLine(line[l], line[l].last = Old)]
       /\ sig' = [a \in Authorities |->
                     EvaluateSignal(sig[a], PlantClear(a, tc', line'),
                                    sig[a].timer = 0)]
       /\ mast' = [m \in Masts |-> "STOP"]
       /\ next' = 1
       /\ underway' =
              {i \in Routes :
                  \/ route[i] = "CLEARED" /\ EntranceShunted(i, tc') /\ AuthorityHeld(i, sig)
                  \/ i \in underway /\ (~BlocksClear(i, tc') \/ EntranceShunted(i, tc'))}
       /\ held' = [a \in Authorities |-> IF sig'[a].timeLock THEN held[a] ELSE {}]
       /\ UNCHANGED <<route, section>>

\* A route without a mast is passed over.
PassOver(i) ==
    /\ next = i /\ Table[i].mast = None
    /\ next' = i + 1
    /\ UNCHANGED <<inputs, sw, locks, sig, route, section, mast, history>>

\* The scan looks at route i, which has a mast.
Examines(i) == next = i /\ Table[i].mast # None /\ next' = i + 1

\* Mutant: only the entrance is watched.
TraversingEntrance(i) == route[i] = "TRAVERSING" /\ EntranceShunted(i, tc)

\* The train of a traversing route is still on its blocks.
Traversing(i) == route[i] = "TRAVERSING" /\ ~BlocksClear(i, tc)

LockRoute(i, S) == locks' = AddLock(locks, S, "ROUTE")
SetSection(i, sections) == section' = [section EXCEPT ![i] = sections]
SetRoute(i, state) == route' = [route EXCEPT ![i] = state]
Accumulate(i, ind) ==
    mast' = [mast EXCEPT ![Table[i].mast] = MostPermissive(@, ind)]

\* Mutant: a section the train stands on is no longer locked.
UnreleasedAhead(i, sections) == {s \in Governed(i) : sections[s] = "LOCKED"}

\* The switches of a route that the train has not cleared.
Unreleased(i, sections) == {s \in Governed(i) : sections[s] # "RELEASED"}

\* 1. The train goes on: sections are released behind it.
ContinueTraversal(i) ==
    LET sections == [s \in Switches |->
            IF s \in Governed(i) THEN AdvanceSection(i, s, section[i][s], tc)
            ELSE section[i][s]]
    IN /\ Examines(i) /\ Traversing(i)
       /\ SetSection(i, sections)
       /\ LockRoute(i, Unreleased(i, sections))
       /\ UNCHANGED <<inputs, sw, sig, route, mast, history>>

\* A. The engine may return to its cars.  A traversal that is over was reset.
EngineReturn(i) ==
    /\ Examines(i) /\ ~Traversing(i) /\ EngineReturnHolds(i, sw, tc)
    /\ SetRoute(i, IF route[i] = "TRAVERSING" THEN "IDLE" ELSE route[i])
    /\ SetSection(i, IF route[i] = "TRAVERSING" THEN NoSection ELSE section[i])
    /\ Accumulate(i, "RESTRICTING")
    /\ LockRoute(i, Governed(i))
    /\ UNCHANGED <<inputs, sw, sig, history>>

Standard(i) == Examines(i) /\ ~Traversing(i) /\ ~EngineReturnHolds(i, sw, tc)

\* B. The lever does not hold the route's direction, or the route equation
\* says Stop: the route is reset and its locks are not renewed.
HoldAtStop(i) ==
    /\ Standard(i)
    /\ \/ ~AuthorityHeld(i, sig)
       \/ /\ ~EntranceShunted(i, tc)
          /\ EvaluateIndication(i, sw, tc, line, sig) = "STOP"
    /\ SetRoute(i, "IDLE")
    /\ SetSection(i, NoSection)
    /\ UNCHANGED <<inputs, sw, locks, sig, mast, history>>

\* The entrance is shunted under the lever: the signal is knocked down, and
\* this route, aligned or not, is the one the train is taken to traverse.
AcceptTrain(i) ==
    LET sections == [s \in Switches |->
            IF s \in Governed(i) /\ ReleasingShunted(i, s, tc) THEN "OCCUPIED"
            ELSE "LOCKED"]
    IN /\ Standard(i) /\ AuthorityHeld(i, sig) /\ EntranceShunted(i, tc)
       /\ sig' = [sig EXCEPT ![Table[i].authority] = Knockdown(@)]
       /\ SetRoute(i, "TRAVERSING")
       /\ SetSection(i, sections)
       /\ LockRoute(i, Unreleased(i, sections))
       /\ UNCHANGED <<inputs, sw, mast, history>>

\* The route equation allows a movement: display it and lock its switches.
ClearRoute(i) ==
    LET indication == EvaluateIndication(i, sw, tc, line, sig)
    IN /\ Standard(i) /\ AuthorityHeld(i, sig) /\ ~EntranceShunted(i, tc)
       /\ indication # "STOP"
       /\ Accumulate(i, indication)
       /\ SetRoute(i, "CLEARED")
       /\ SetSection(i, NoSection)
       /\ LockRoute(i, Governed(i))
       /\ UNCHANGED <<inputs, sw, sig, history>>

\* Mutant: applyTimeLocks() is not called.
ScanEndUnlocked ==
    /\ next = Len(Table) + 1
    /\ next' = Idle
    /\ UNCHANGED <<inputs, sw, locks, sig, route, section, mast, history>>

\* applyTimeLocks(), and the scan is over.
ScanEnd ==
    /\ next = Len(Table) + 1
    /\ locks' = AddLock(locks,
           {s \in Switches : \E i \in Routes :
               /\ s \in Governed(i)
               /\ Table[i].authority # None
               /\ sig[Table[i].authority].timeLock
               /\ Table[i].direction = sig[Table[i].authority].lockedDir},
           "TIME")
    /\ next' = Idle
    /\ UNCHANGED <<inputs, sw, sig, route, section, mast, history>>

ExamineRoute(i) ==
    \/ PassOver(i) \/ ContinueTraversal(i) \/ EngineReturn(i)
    \/ HoldAtStop(i) \/ AcceptTrain(i) \/ ClearRoute(i)

ScanStep == ScanBegin \/ (\E i \in Routes : ExamineRoute(i)) \/ ScanEnd

Report ==
    \/ \E c \in Circuits, occ \in Occupancies : TrackReport(c, occ)
    \/ \E c \in Circuits : TrackTouch(c)
    \/ \E l \in Lines, energized \in BOOLEAN : LineReport(l, energized)
    \/ \E l \in Lines : LineTouch(l)
    \/ \E s \in Switches, position \in PointsReports : PointsReport(s, position)

Timeout ==
    \/ \E c \in Delayed : DropoutPasses(c)
    \/ \E x \in Watched : SourceFallsSilent(x)
    \/ \E s \in Overruns : TravelOverruns(s)
    \/ \E a \in Authorities : ReleaseTimeRuns(a)

Control ==
    \/ \E s \in Switches, target \in Targets : SwitchDemand(s, target)
    \/ \E d \in Demands : SignalDemand(d[1], d[2], d[3])
    \/ \E s \in Levers, demand \in {"LOCK", "UNLOCK"} : LockDemand(s, demand)

Next == Report \/ Timeout \/ Control \/ ScanStep

Spec == Init /\ [][Next]_vars

\* loop() scans for ever, and time passes whatever the loop does: a delay that
\* runs is over at some time between two scans.
FairSpec ==
    /\ Spec
    /\ WF_vars(ScanStep)
    /\ \A c \in Delayed : SF_vars(DropoutPasses(c))
    /\ \A a \in Authorities : SF_vars(ReleaseTimeRuns(a))

-----------------------------------------------------------------------------
\* The type of the state: the enumerations of the code, and the stamps and
\* timers of this abstraction.
TypeOK ==
    /\ tc \in [Circuits -> CircuitState({0, Fresh, Old})]
    /\ line \in [Lines -> LineState({0, Fresh, Old})]
    /\ sw \in [Switches -> Machine]
    /\ locks \in [Switches -> SUBSET LockKinds]
    /\ sig \in [Authorities -> SignalState({0, 1})]
    /\ route \in [Routes -> {"IDLE", "CLEARED", "TRAVERSING"}]
    /\ section \in [Routes -> [Switches -> {"LOCKED", "OCCUPIED", "RELEASED"}]]
    /\ mast \in [Masts -> Indications]
    /\ next \in 1 .. Idle
    /\ held \in [Authorities -> SUBSET Routes]
    /\ underway \subseteq Routes

\* The two machines of a pair are commanded alike and locked alike, although
\* each can be commanded, locked and released through the other.
PairsAgree ==
    \A s \in Switches : /\ sw[Pair[s]].commanded = sw[s].commanded
                        /\ locks[Pair[s]] = locks[s]

\* The switches of route i are commanded as it needs them, and route locked.
Secured(i) ==
    \A s \in Governed(i) : /\ sw[s].commanded = Table[i].aligns[s]
                           /\ "ROUTE" \in locks[s]

\* A mast that is not at Stop shows a route all of whose switches are locked
\* in the position it needs, from the scan that displayed it until the next
\* one, whatever control demands come in between.
DisplayedRouteSecured ==
    next = Idle => \A m \in Masts : mast[m] # "STOP" =>
        \E i \in Routes : Table[i].mast = m /\ Secured(i)

\* Two routes conflict when they need a switch in different positions, or when
\* one lever clears them in opposite directions.
Conflicting(i, j) ==
    \/ \E s \in Governed(i) \cap Governed(j) : Table[i].aligns[s] # Table[j].aligns[s]
    \/ /\ Table[i].authority = Table[j].authority /\ Table[i].authority # None
       /\ Table[i].direction # Table[j].direction
       /\ ~Table[i].engineReturn /\ ~Table[j].engineReturn
       /\ ~Table[i].automatic /\ ~Table[j].automatic

\* No scan leaves two conflicting routes cleared: the locks that the first one
\* sets, the correspondence of its switches and the lever exclude the other.
NoConflictingRoutes ==
    next = Idle => \A i, j \in Routes :
        route[i] = "CLEARED" /\ route[j] = "CLEARED" => ~Conflicting(i, j)

\* While time locking runs, the switches of the route that was displayed when
\* the signal was taken away stay where the approaching train needs them.
TimeLockKeepsPoints ==
    \A a \in Authorities : sig[a].timeLock =>
        \A i \in held[a] : \A s \in Governed(i) :
            sw[s].commanded = Table[i].aligns[s]

\* From the scan that sees the train enter a displayed route until it has left
\* the route's blocks, every switch of the route that the train has not
\* cleared is route locked.
TrainHoldsRoute ==
    next = Idle => \A i \in underway :
        \A s \in Governed(i) : section[i][s] # "RELEASED" => "ROUTE" \in locks[s]

\* A machine never gets a new command while the scan that precedes the command
\* left its route displayed.
NoMoveUnderSignal ==
    [][\A i \in Routes : Scanned(i) /\ route[i] = "CLEARED" =>
        \A s \in Governed(i) : sw'[s].commanded = sw[s].commanded
                              /\ sw'[Pair[s]].commanded = sw[Pair[s]].commanded]_vars

\* The rule of detector locking as the primer has it: no switch is commanded
\* to move while one of its detector circuits is shunted.
DetectorHoldsPoints ==
    [][\A s \in Switches :
        (\E k \in DOMAIN Detectors[s] :
            Heard(tc[Detectors[s][k]]) /\ ~IsClear(tc[Detectors[s][k]]))
        => sw'[s].commanded = sw[s].commanded]_vars

\* The rule of approach locking as the primer has it: a signal that a control
\* takes away with the approach circuit of its displayed route occupied runs
\* time locking.
CancelRunsTime ==
    [][next = Idle => \A i \in Routes :
        LET a == Table[i].authority IN
        /\ a # None /\ route[i] = "CLEARED" /\ ApproachOccupied(i, tc)
        /\ sig[a].active = Table[i].direction
        /\ sig'[a].active = "STOP" /\ next' = Idle
        => sig'[a].timeLock]_vars

-----------------------------------------------------------------------------
(* The strengthening behind the safety properties, part by part: what they *)
(* say in the middle of a scan, of the routes it has looked at, and what   *)
(* they need from the control demands between two scans.                   *)

ClearedSecured == \A i \in Routes : Scanned(i) /\ route[i] = "CLEARED" => Secured(i)

MastSecured ==
    \A m \in Masts : mast[m] # "STOP" =>
        \E i \in Routes : Scanned(i) /\ Table[i].mast = m /\ Secured(i)

\* A route without a mast is never cleared.
DarkNotCleared == \A i \in Routes : Table[i].mast = None => route[i] # "CLEARED"

\* The lever of a route cleared in this scan holds its direction, or a train
\* has been accepted since.
LeverAgrees ==
    next # Idle => \A i \in Routes :
        /\ Scanned(i) /\ route[i] = "CLEARED"
        /\ Table[i].authority # None /\ ~Table[i].engineReturn /\ ~Table[i].automatic
        => sig[Table[i].authority].active \in {Table[i].direction, "STOP"}

ScannedAgree ==
    \A i, j \in Routes :
        Scanned(i) /\ Scanned(j) /\ route[i] = "CLEARED" /\ route[j] = "CLEARED"
        => ~Conflicting(i, j)

\* The route that time locking holds is the lever's, in the direction that was
\* taken away, and between two scans its switches have a lock that lasts.
HeldLocked ==
    \A a \in Authorities : sig[a].timeLock => \A i \in held[a] :
        /\ Table[i].authority = a /\ Table[i].direction = sig[a].lockedDir
        /\ \A s \in Governed(i) :
              /\ sw[s].commanded = Table[i].aligns[s]
              /\ next = Idle => locks[s] \cap {"ROUTE", "TIME"} # {}

\* The inductive invariant: the parts above hold in every state, in the middle
\* of a scan as well as between two scans.
PlantInv ==
    /\ TypeOK /\ PairsAgree /\ ClearedSecured /\ MastSecured
    /\ DarkNotCleared /\ LeverAgrees /\ ScannedAgree /\ HeldLocked

-----------------------------------------------------------------------------
\* Time locking that runs is over some time, whatever the office, the trains
\* and the points do meanwhile.
TimeLockEnds == \A a \in Authorities : sig[a].timeLock ~> ~sig[a].timeLock

\* A circuit that is vacant, or will be when its dropout delay is over.
Vacating(t) == t.good /\ (t.value = "VACANT" \/ t.clearing)

\* Everything that route i needs is there, under a lever coded to fleet it.
FleetReady(i) ==
    LET a == Table[i].authority IN
    /\ a # None
    /\ sig[a].fleet /\ sig[a].commanded = Table[i].direction
    /\ SwitchesAligned(i, sw) /\ HomeFacts(i, line)
    /\ \A j \in Routes : Table[j].authority = a =>
           \A c \in Table[j].blocks \cup ({Table[j].entrance} \ {None}) : Vacating(tc[c])

\* Fleeting clears the signal again by itself: once the tracks are vacated and
\* stay so, the route is displayed from some scan on.
FleetReclears ==
    \A i \in Routes : Table[i].mast # None =>
        (<>[]FleetReady(i) => <>[](next = Idle => mast[Table[i].mast] # "STOP"))

\* Locks do not outlive their reason: with every lever at Stop and every track
\* clear for good, nothing but the electric locks remains.
LocksRelease ==
    <>[](/\ \A a \in Authorities : sig[a].commanded = "STOP"
         /\ \A c \in Circuits : IsClear(tc[c]))
    => <>[](next = Idle => \A s \in Switches : locks[s] \subseteq {"HAND"})
=============================================================================
