-------------------------------- MODULE Block --------------------------------
(***************************************************************************)
(* The block between two control points, with trains that obey its signals *)
(* and an office that works the levers of both ends at any time.           *)
(*                                                                         *)
(* The track is a row of circuits, from the first control point's OS to    *)
(* the second one's.  A train stands on one circuit or on two that adjoin; *)
(* its head passes into the next circuit only where no signal faces it or  *)
(* the signal is not at Stop.  A scan takes milliseconds and a train takes *)
(* seconds from circuit to circuit: between two scans a train makes at     *)
(* most one move, and it may stand for any number of scans.  A scan        *)
(* samples the circuits and evaluates the plant in one step.               *)
(***************************************************************************)
EXTENDS BlockOps

CONSTANTS
    Plants,   \* the plants to check
    Trains,   \* the trains
    Levers    \* the levers

VARIABLES
    plant,    \* the plant that is checked
    relays,   \* what the field unit's relays hold and its masts show
    train,    \* per train: where it is, or None when it is elsewhere
    outside,  \* the circuits outside the block that are occupied
    moved     \* the trains that have moved since the last scan

vars == <<plant, relays, train, outside, moved>>

Ways == {"SOUTH", "NORTH"}
Opposite(way) == IF way = "SOUTH" THEN "NORTH" ELSE "SOUTH"
Ahead(way, i) == IF way = "SOUTH" THEN i + 1 ELSE i - 1
First(p, way) == IF way = "SOUTH" THEN 1 ELSE Len(p.track)
Final(p, way) == First(p, Opposite(way))

\* The track numbers a train stands on, and the circuits that are occupied.
Span(t) == IF train[t] = None THEN {} ELSE {train[t].rear, train[t].front}
OnTrack == {plant.track[i] : i \in UNION {Span(t) : t \in Trains}}
Shunted == OnTrack \cup outside

\* A head may enter circuit i: the mast that faces it, if any, is not at Stop,
\* and no train has passed there since the last scan.
MayEnter(way, i) ==
    LET m == plant.guard[way][i] IN
    /\ m # None => relays.mast[m] # "STOP"
    /\ \A u \in moved : ~(i \in Span(u) /\ train[u].way = way)

Init ==
    /\ plant \in Plants
    /\ relays = [clear |-> {}, sig |-> [l \in Levers |-> SignalAtRest],
                 sr |-> {}, hr |-> {}, cleared |-> {}, home |-> {}, dropped |-> {},
                 traversing |-> {},
                 mast |-> [m \in plant.masts |-> "STOP"]]
    /\ train = [t \in Trains |-> None]
    /\ outside = {}
    /\ moved = {}

-----------------------------------------------------------------------------
(* The trains and the office.                                              *)

Moves(t, place) ==
    /\ t \notin moved
    /\ train' = [train EXCEPT ![t] = place]
    /\ moved' = moved \cup {t}
    /\ UNCHANGED <<plant, relays, outside>>

Arrive(t, way) ==
    /\ train[t] = None /\ MayEnter(way, First(plant, way))
    /\ Moves(t, [way |-> way, rear |-> First(plant, way), front |-> First(plant, way)])

Advance(t) ==
    LET x == train[t] IN
    /\ x # None /\ x.rear = x.front /\ x.front # Final(plant, x.way)
    /\ MayEnter(x.way, Ahead(x.way, x.front))
    /\ Moves(t, [x EXCEPT !.front = Ahead(x.way, @)])

PullClear(t) ==
    LET x == train[t] IN
    /\ x # None /\ x.rear # x.front
    /\ Moves(t, [x EXCEPT !.rear = x.front])

Depart(t) ==
    LET x == train[t] IN
    /\ x # None /\ x.rear = x.front /\ x.front = Final(plant, x.way)
    /\ Moves(t, None)

\* A train comes to, or goes from, a circuit outside the block.
OutsideChanges(c) ==
    /\ outside' = (outside \ {c}) \cup ({c} \ outside)
    /\ UNCHANGED <<plant, relays, train, moved>>

\* applyControlTransaction(): the approach circuit is that of the first route
\* of the lever in its active direction.
SignalDemand(l, req) ==
    LET active == SelectSeq(plant.routeOrder, LAMBDA r :
            /\ Authority(plant, r) = l
            /\ plant.routes[r].direction = relays.sig[l].active)
        occupied == active # <<>> /\ Occupied(relays, plant.routes[Head(active)].approach)
    IN /\ relays' = [relays EXCEPT
                        !.sig[l] = UpdateCommand(@, req, FALSE, occupied, 1)]
       /\ UNCHANGED <<plant, train, outside, moved>>

ReleaseTimeRuns(l) ==
    /\ relays.sig[l].timeLock /\ relays.sig[l].timer # 0
    /\ relays' = [relays EXCEPT !.sig[l].timer = 0]
    /\ UNCHANGED <<plant, train, outside, moved>>

NextRelays == Scanned(plant, relays, plant.circuits \ Shunted)

Scan ==
    /\ moved' = {}
    /\ UNCHANGED <<plant, train, outside>>
    /\ relays' = NextRelays

Travel(t) ==
    \/ \E way \in plant.ways[t] : Arrive(t, way)
    \/ Advance(t) \/ PullClear(t) \/ Depart(t)

Next ==
    \/ \E t \in Trains : Travel(t)
    \/ \E c \in plant.outside : OutsideChanges(c)
    \/ \E d \in plant.demands : SignalDemand(d[1], d[2])
    \/ \E l \in Levers : ReleaseTimeRuns(l)
    \/ Scan

Spec == Init /\ [][Next]_vars

\* WF_vars(Scan) with its ENABLED written out: a scan is possible at any time,
\* and it changes nothing exactly when no train has moved and the relays rest.
ScansForEver == []<>(moved = {} /\ relays = NextRelays) \/ []<><<Scan>>_vars

\* The loop scans for ever, a delay that runs is over some time, and a train
\* goes on when the signal that faces it allows, or allows again and again.
FairSpec ==
    /\ Spec
    /\ ScansForEver
    /\ \A t \in Trains : SF_vars(Advance(t)) /\ WF_vars(PullClear(t)) /\ WF_vars(Depart(t))
    /\ \A l \in Levers : WF_vars(ReleaseTimeRuns(l))

-----------------------------------------------------------------------------
View(p) ==
    [clear : SUBSET p.circuits, sig : [Levers -> SignalState({0, 1})],
     sr : SUBSET DOMAIN p.signals, hr : SUBSET DOMAIN p.signals,
     cleared : SUBSET DOMAIN p.lines, home : SUBSET DOMAIN p.lines,
     dropped : SUBSET DOMAIN p.lines, traversing : SUBSET DOMAIN p.routes,
     mast : [p.masts -> Aspects]]

TypeOK ==
    /\ plant \in Plants
    /\ relays \in View(plant)
    /\ train \in [Trains -> {None} \cup
                    [way : Ways, rear : DOMAIN plant.track, front : DOMAIN plant.track]]
    /\ outside \subseteq plant.outside
    /\ moved \subseteq Trains

-----------------------------------------------------------------------------
(* The plants.                                                             *)

\* The names that a plant uses are names of what it has.
WellFormed(p) ==
    /\ p.track \in Seq(p.circuits) /\ Len(p.track) > 0
    /\ p.guard \in [Ways -> [DOMAIN p.track -> p.masts \cup {None}]]
    /\ p.ways \in [Trains -> SUBSET Ways]
    /\ p.demands \subseteq Levers \X Directions
    /\ p.leverOrder \in Seq(Levers)
    /\ p.signalOrder \in Seq(DOMAIN p.signals)
    /\ p.routeOrder \in Seq(DOMAIN p.routes)
    /\ p.lineOrder \in Seq(DOMAIN p.lines)
    /\ DOMAIN p.signals \subseteq p.masts /\ IsFiniteSet(DOMAIN p.signals)
    /\ DOMAIN p.signals \cap DOMAIN p.lines = {}
    /\ None \notin Facts(p) /\ None \notin p.masts
    /\ \A a \in DOMAIN p.signals : p.signals[a].h \in Facts(p) \cup {None}
    /\ \A r \in DOMAIN p.routes : Authority(p, r) \in Levers /\ p.routes[r].mast \in p.masts

\* A train and None are not the same, whatever the train's way and place are.
ASSUME PlantsAssumption ==
    /\ None \notin [way : Ways, rear : Nat, front : Nat]
    /\ \A p \in Plants : WellFormed(p)

\* The masts at the ends of a block: trains of this way enter the block at the
\* one and leave it at the other.
EntryMast(p, way) == p.guard[way][First(p, way)]
ExitMast(p, way) == p.guard[way][Final(p, way)]
Second(p, way) == Ahead(way, First(p, way))

\* The places that an automatic signal guards, and the H of what lies at place
\* i and beyond: that of the signal, and at the end that of the line.
SignalPlaces(p, way) == DOMAIN p.track \ {First(p, way), Second(p, way), Final(p, way)}
HAt(p, way, i) == Out(IF i = Final(p, way) THEN p.far[way] ELSE p.guard[way][i], "H")

\* One automatic signal for every place inside the block and every way, but for
\* the place behind the entry, each reading the H of the one ahead.
ChainOfSignals(p, way) ==
    /\ p.guard[way][Second(p, way)] = None
    /\ \A i \in SignalPlaces(p, way) :
         LET a == p.guard[way][i] IN
         /\ a \in DOMAIN p.signals
         /\ p.signals[a].governs = {p.track[i]}
         /\ p.signals[a].approach = {p.track[Ahead(Opposite(way), i)]}
         /\ p.signals[a].h = HAt(p, way, Ahead(way, i))
         /\ \A j \in SignalPlaces(p, way) : p.guard[way][j] = a => j = i

\* The line at the far end of this way governs the last two circuits, and the
\* control of its leaving signal cuts it.
FarLine(p, way) ==
    /\ p.far[way] \in DOMAIN p.lines
    /\ p.lines[p.far[way]].governs =
         {p.track[Final(p, way)], p.track[Second(p, Opposite(way))]}
    /\ p.lines[p.far[way]].leaving = {EntryMast(p, Opposite(way))}
    /\ p.lines[p.far[way]].tumbleDown = "CLEARED"

\* The control point at which trains of this way enter has one lever, one
\* position of which is for the entry and the other for the exit.
EntryRoutes(p, way) == RoutesOf(p, EntryMast(p, way))
ControlPoint(p, way) ==
    /\ \A m \in {EntryMast(p, way), ExitMast(p, Opposite(way))} :
         m \notin DOMAIN p.signals \cup {None}
    /\ \A r \in EntryRoutes(p, way) :
         /\ p.routes[r].blocks = {p.track[First(p, way)]}
         /\ p.routes[r].entrance = p.track[First(p, way)]
         /\ p.routes[r].home = {HAt(p, way, Ahead(way, Second(p, way)))}
         /\ \A s \in DOMAIN p.routes :
              Authority(p, s) = Authority(p, r) =>
                IF p.routes[s].direction = p.routes[r].direction
                THEN p.routes[s].entrance = p.routes[r].entrance
                ELSE s \notin EntryRoutes(p, way)
    /\ \A r \in EntryRoutes(p, way), s \in RoutesOf(p, ExitMast(p, Opposite(way))) :
         /\ Authority(p, s) = Authority(p, r)
         /\ p.routes[s].direction # p.routes[r].direction
    /\ \A r, s \in EntryRoutes(p, way) : Authority(p, s) = Authority(p, r)
    /\ \A r \in RoutesOf(p, ExitMast(p, way)) :
         p.routes[r].blocks = {p.track[Final(p, way)]}

\* Absolute permissive block of any length, as docs/adr/0008 describes it, under
\* a stronger rule for the lines: FarLine has the line govern the OS circuit of
\* its control point beside the circuit next to it, where the ADR's block
\* (0008:109) has the adjacent circuit alone.
Chained(p) ==
    /\ Len(p.track) > 3
    /\ IsInjective(p.track)
    /\ ToSet(p.track) \cap p.outside = {}
    /\ p.block \subseteq {p.track[i] : i \in DOMAIN p.track \ {1, Len(p.track)}}
    /\ p.lineOrder \in {<<p.far["SOUTH"], p.far["NORTH"]>>, <<p.far["NORTH"], p.far["SOUTH"]>>}
    /\ \A r \in DOMAIN p.routes :
         p.routes[r].mast \notin DOMAIN p.signals /\ p.routes[r].direction # "STOP"
    /\ ToSet(p.signalOrder) = DOMAIN p.signals
    /\ \A way \in Ways :
         ChainOfSignals(p, way) /\ FarLine(p, way) /\ ControlPoint(p, way)

-----------------------------------------------------------------------------
(* The invariant that keeps trains apart in such a block.                  *)

Beyond(p, way, i) == {j \in DOMAIN p.track : IF way = "SOUTH" THEN j >= i ELSE j <= i}
ClearFrom(p, way, i, clear) == \A j \in Beyond(p, way, i) : p.track[j] \in clear
StickUp(p, way, sr) == \E i \in SignalPlaces(p, way) : p.guard[way][i] \in sr

\* What a mast that is not at Stop, or an HR, says of the circuits ahead.
AheadClear(p, v, way, i) ==
    /\ p.track[i] \in v.clear
    /\ ClearFrom(p, way, i, v.clear) \/ StickUp(p, way, v.sr)

Proceeds(v, m) == m # None /\ v.mast[m] # "STOP"

RelaysInOrder(p, v) ==
    /\ \A l \in Levers : v.sig[l].timeLock => v.sig[l].active = "STOP"
    /\ \A way \in Ways :
         /\ \A i \in SignalPlaces(p, way) :
              /\ Proceeds(v, p.guard[way][i]) => AheadClear(p, v, way, i)
              /\ p.guard[way][i] \in v.hr => AheadClear(p, v, way, i)
         /\ Proceeds(v, EntryMast(p, way)) =>
              /\ AheadClear(p, v, way, First(p, way))
              /\ p.track[Second(p, way)] \in v.clear
         /\ Proceeds(v, ExitMast(p, way)) =>
              /\ p.track[Final(p, way)] \in v.clear
              /\ ~Proceeds(v, EntryMast(p, Opposite(way)))
         /\ StickUp(p, way, v.sr) =>
              /\ ~Proceeds(v, EntryMast(p, Opposite(way)))
              /\ p.far[way] \notin v.cleared
    /\ (\A way \in Ways : Proceeds(v, EntryMast(p, way))) =>
         \E way \in Ways : p.far[way] \in v.cleared

\* A train at place x covers one circuit or two that adjoin, and what it covered
\* when the circuits were sampled was not clear then.
Sampled(p, v, justMoved, x) ==
    /\ x.front \in {x.rear, Ahead(x.way, x.rear)}
    /\ p.track[x.rear] \in v.clear =>
         justMoved /\ x.rear = First(p, x.way) /\ x.front = x.rear
    /\ p.track[x.front] \in v.clear => justMoved
    /\ justMoved /\ x.front = First(p, x.way) => Proceeds(v, EntryMast(p, x.way))

TrainsSampled ==
    \A t \in Trains : train[t] # None => Sampled(plant, relays, t \in moved, train[t])

\* Opposing trains have their heads towards each other, following trains are
\* apart, and a train about to enter the block finds the place behind the entry free.
Follows(way, i, j) == IF way = "SOUTH" THEN i < j ELSE j < i
InOrderAt(p, x, y) ==
    /\ y.way = Opposite(x.way) => Follows(x.way, x.front, y.front)
    /\ y.way = x.way => {x.rear, x.front} \cap {y.rear, y.front} = {}
    /\ x.front = First(p, x.way) => Second(p, x.way) \notin {y.rear, y.front}

InTrackOrder ==
    \A t, u \in Trains : t # u /\ train[t] # None /\ train[u] # None =>
        InOrderAt(plant, train[t], train[u])

Running(t, way) == train[t] # None /\ train[t].way = way

SticksBehindTrains ==
    \A way \in Ways : StickUp(plant, way, relays.sr) =>
      \A t \in Trains : ~Running(t, Opposite(way))

BlockInv ==
    Chained(plant) =>
      /\ RelaysInOrder(plant, relays)
      /\ TrainsSampled /\ InTrackOrder /\ SticksBehindTrains

\* Absolute and permissive block: trains that obey the signals, head-on or
\* following, never come to stand on one circuit.
TrainsApart == \A t, u \in Trains : t # u => Span(t) \cap Span(u) = {}

InBlock(t) == \E i \in Span(t) : plant.track[i] \in plant.block

\* The traffic of the far end of a train's block: every leaving route there
\* has a home fact that is released.
LockedOut(way) ==
    \A r \in LeavingRoutes(plant, plant.far[way]) :
        \E fact \in plant.routes[r].home : ~On(plant, relays, fact)

\* Traffic retention (I2): after a scan that finds a train in the block, the
\* end it goes to cannot clear a leaving signal against it.
FarEndLockedOut ==
    moved = {} => \A t \in Trains : InBlock(t) => LockedOut(train[t].way)

\* The leaving signal of line l is not at Stop, in relays r.
ShowsProceed(r, l) == r.mast[CHOOSE m \in plant.lines[l].leaving : TRUE] # "STOP"

\* Opposing exclusion (I1): when both ends were coded in one scan and both
\* signals cleared, the next scan takes one away.
OneEndCleared ==
    (\A l \in DOMAIN plant.lines : ShowsProceed(relays, l))
    => \E l \in DOMAIN plant.lines : ~ShowsProceed(NextRelays, l)

\* The block comes to rest when the trains and the controls have gone.
BlockComesToRest ==
    <>[](/\ \A t \in Trains : train[t] = None
         /\ \A l \in Levers : relays.sig[l].commanded = "STOP"
         /\ outside = {})
    => <>[](/\ relays.sr = {} /\ relays.dropped = {}
            /\ ~LockedOut("SOUTH") /\ ~LockedOut("NORTH"))

\* The control that the home signal of this way needs is up.
Received(way) == \E r \in RoutesOf(plant, plant.lines[plant.far[way]].home) :
    HeldFor(plant, relays, r)

\* A train alone does not stand in the block for ever: once the control of its
\* home signal is up, and stays so, the automatic signals let it through.
LoneTrainLeaves ==
    \A t \in Trains :
        []<>~(/\ InBlock(t) /\ Received(train[t].way)
              /\ \A u \in Trains \ {t} : train[u] = None)
=============================================================================
