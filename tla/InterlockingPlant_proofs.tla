----------------------- MODULE InterlockingPlant_proofs -----------------------
(***************************************************************************)
(* What the plant guarantees whatever its control table, its pairs and its *)
(* detectors are.                                                          *)
(***************************************************************************)
EXTENDS InterlockingPlant, TLAPS

\* The parts of the table that the proofs look at have their types.
LEMMA TableTypes ==
    /\ Len(Table) \in Nat
    /\ Routes = 1 .. Len(Table)
    /\ \A i \in Routes :
        /\ Table[i].authority \in Authorities \cup {None}
        /\ Table[i].direction \in {"LEFT", "RIGHT"}
        /\ Table[i].mast \in Masts \cup {None}
        /\ Table[i].ceiling \in Indications \ {"STOP"}
        /\ Governed(i) \subseteq Switches
        /\ \A s \in Governed(i) : Table[i].aligns[s] \in Targets
        /\ Table[i].automatic => Table[i].entrance = None
PROOF
<1> DEFINE Aligns == UNION {[S -> Targets] : S \in SUBSET Switches}
           Route == [authority : Authorities \cup {None},
                     direction : {"LEFT", "RIGHT"},
                     mast : Masts \cup {None},
                     ceiling : Indications \ {"STOP"},
                     aligns : Aligns,
                     release : [Switches -> Circuits \cup {None}],
                     blocks : SUBSET Circuits,
                     entrance : Circuits \cup {None},
                     approach : Circuits \cup {None},
                     home : SUBSET Lines,
                     proceed : Lines \cup {None},
                     engineReturn : BOOLEAN,
                     origin : Circuits \cup {None},
                     os : Circuits \cup {None},
                     automatic : BOOLEAN,
                     incomplete : BOOLEAN]
<1>1. Table \in Seq(Route) /\ \A i \in DOMAIN Table : Table[i].automatic => Table[i].entrance = None
  BY TableAssumption
<1>2. \A f \in Aligns : DOMAIN f \subseteq Switches /\ \A s \in DOMAIN f : f[s] \in Targets
  OBVIOUS
<1> HIDE DEF Aligns
<1>3. \A r \in Route : /\ r.authority \in Authorities \cup {None}
                       /\ r.direction \in {"LEFT", "RIGHT"}
                       /\ r.mast \in Masts \cup {None}
                       /\ r.ceiling \in Indications \ {"STOP"}
                       /\ r.aligns \in Aligns
  OBVIOUS
<1> HIDE DEF Route
<1>4. Len(Table) \in Nat /\ Routes = 1 .. Len(Table) /\ \A i \in Routes : Table[i] \in Route
  BY <1>1 DEF Routes
<1> QED
  BY <1>1, <1>2, <1>3, <1>4 DEF Governed, Routes

-----------------------------------------------------------------------------
(* Machines and locks.                                                     *)

\* A throw keeps the type of the machines.
LEMMA ThrowType ==
    ASSUME NEW sws \in [Switches -> Machine], NEW lks, NEW s \in Switches,
           NEW target \in Targets
    PROVE  ThrowSwitch(sws, lks, s, target) \in [Switches -> Machine]
PROOF
<1>1. \A m \in Machine : ThrowSelf(m, target) \in Machine
  BY DEF ThrowSelf, Machine, Positions, Targets
<1> QED
  BY <1>1 DEF ThrowSwitch

\* A throw keeps the two machines of every pair commanded alike.
LEMMA ThrowKeepsPairs ==
    ASSUME NEW sws \in [Switches -> Machine], NEW lks, NEW s \in Switches,
           NEW target \in Targets, NEW n \in Switches,
           \A m \in Switches : sws[Pair[m]].commanded = sws[m].commanded
    PROVE  ThrowSwitch(sws, lks, s, target)[Pair[n]].commanded
               = ThrowSwitch(sws, lks, s, target)[n].commanded
PROOF
<1> DEFINE out == ThrowSwitch(sws, lks, s, target)
           moved == [m \in Switches |->
                        IF m \in Thrown(sws, s, target) THEN ThrowSelf(sws[m], target)
                        ELSE sws[m]]
<1>1. out = sws \/ out = moved
  BY DEF ThrowSwitch
<1>2. \A m \in Machine : ThrowSelf(m, target).commanded = target
  BY DEF ThrowSelf, Machine
<1>3. Pair[n] \in Switches /\ Pair[Pair[n]] = n /\ Pair[s] \in Switches /\ Pair[Pair[s]] = s
  BY PairAssumption
<1>4. CASE Thrown(sws, s, target) = {s, Pair[s]}
  BY <1>1, <1>2, <1>3, <1>4
<1>5. CASE Thrown(sws, s, target) = {s} /\ sws[Pair[s]].commanded = target
  BY <1>1, <1>2, <1>3, <1>5
<1> QED
  BY <1>4, <1>5 DEF Thrown

\* A throw leaves a locked machine and its pair where they are.
LEMMA ThrowSparesLocked ==
    ASSUME NEW sws \in [Switches -> Machine], NEW lks \in [Switches -> SUBSET LockKinds],
           NEW s \in Switches, NEW target \in Targets,
           NEW m \in Switches, lks[m] # {}, lks[Pair[m]] = lks[m]
    PROVE  ThrowSwitch(sws, lks, s, target)[m] = sws[m]
PROOF
<1>1. Pair[m] \in Switches /\ Pair[Pair[m]] = m /\ Pair[s] \in Switches /\ Pair[Pair[s]] = s
  BY PairAssumption
<1>2. m \in {s, Pair[s]} => ~WLR(lks, s)
  BY <1>1 DEF WLR
<1>3. m \in {s, Pair[s]} => ThrowSwitch(sws, lks, s, target) = sws
  BY <1>2 DEF ThrowSwitch
<1>4. Thrown(sws, s, target) \subseteq {s, Pair[s]}
  BY DEF Thrown
<1>5. m \notin {s, Pair[s]} => ThrowSwitch(sws, lks, s, target)[m] = sws[m]
  BY <1>4 DEF ThrowSwitch
<1> QED
  BY <1>3, <1>5

\* addLock() keeps the type and the agreement of pairs, takes no lock away and
\* puts the lock on every machine it is asked for.
LEMMA AddLockFacts ==
    ASSUME NEW lks \in [Switches -> SUBSET LockKinds], NEW S, NEW kind \in LockKinds
    PROVE  LET out == AddLock(lks, S, kind)
           IN /\ out \in [Switches -> SUBSET LockKinds]
              /\ \A s \in Switches : lks[s] \subseteq out[s]
              /\ \A s \in Switches \cap S : kind \in out[s]
              /\ (\A s \in Switches : lks[Pair[s]] = lks[s])
                    => \A s \in Switches : out[Pair[s]] = out[s]
PROOF
<1> DEFINE out == AddLock(lks, S, kind)
<1>1. \A s \in Switches : Pair[s] \in Switches /\ Pair[Pair[s]] = s
  BY PairAssumption
<1>2. \A s \in Switches : out[s] = lks[s] \/ out[s] = lks[s] \cup {kind}
  BY DEF AddLock
<1>3. out \in [Switches -> SUBSET LockKinds]
  BY <1>2 DEF AddLock
<1>4. ASSUME NEW s \in Switches, \A m \in Switches : lks[Pair[m]] = lks[m]
      PROVE  out[Pair[s]] = out[s]
  <2>1. lks[Pair[s]] = lks[s] /\ Pair[s] \in Switches /\ Pair[Pair[s]] = s
    BY <1>1, <1>4
  <2>2. CASE kind \in lks[s]
    BY <2>1, <2>2, <1>2
  <2>3. CASE kind \notin lks[s]
    BY <2>1, <2>3 DEF AddLock
  <2> QED
    BY <2>2, <2>3
<1> QED
  BY <1>2, <1>3, <1>4 DEF AddLock

\* removeLock() takes that one lock away, from both machines of a pair.
LEMMA RemoveLockFacts ==
    ASSUME NEW lks \in [Switches -> SUBSET LockKinds], NEW m \in Switches, NEW kind \in LockKinds
    PROVE  LET out == RemoveLock(lks, m, kind)
           IN /\ out \in [Switches -> SUBSET LockKinds]
              /\ \A s \in Switches : lks[s] \ {kind} \subseteq out[s]
              /\ (\A s \in Switches : lks[Pair[s]] = lks[s])
                    => \A s \in Switches : out[Pair[s]] = out[s]
PROOF
<1> DEFINE out == RemoveLock(lks, m, kind)
<1>1. \A s \in Switches : Pair[s] \in Switches /\ Pair[Pair[s]] = s
  BY PairAssumption
<1>2. \A s \in Switches : out[s] = lks[s] \/ out[s] = lks[s] \ {kind}
  BY DEF RemoveLock
<1>3. out \in [Switches -> SUBSET LockKinds]
  BY <1>2 DEF RemoveLock
<1>4. ASSUME NEW s \in Switches, \A t \in Switches : lks[Pair[t]] = lks[t]
      PROVE  out[Pair[s]] = out[s]
  <2>1. lks[Pair[s]] = lks[s] /\ Pair[s] \in Switches /\ Pair[Pair[s]] = s
    BY <1>1, <1>4
  <2>2. CASE kind \notin lks[s]
    BY <2>1, <2>2, <1>2
  <2>3. CASE kind \in lks[s]
    BY <2>1, <2>3, <1>1, <1>4 DEF RemoveLock
  <2> QED
    BY <2>2, <2>3
<1> QED
  BY <1>2, <1>3, <1>4
-----------------------------------------------------------------------------
(* Types.                                                                  *)

\* The member functions of a circuit and of a line input keep their type.
LEMMA CircuitTypes ==
    ASSUME NEW t \in CircuitState({0, Fresh, Old})
    PROVE  /\ \A now \in {0, Fresh, Old} : TouchCircuit(t, now) \in CircuitState({0, Fresh, Old})
           /\ \A due, silent \in BOOLEAN :
                 TickCircuit(t, due, silent) \in CircuitState({0, Fresh, Old})
PROOF
<1>1. ASSUME NEW now \in {0, Fresh, Old}
      PROVE  TouchCircuit(t, now) \in CircuitState({0, Fresh, Old})
  BY DEF TouchCircuit, CircuitState
<1>2. ASSUME NEW due \in BOOLEAN, NEW silent \in BOOLEAN
      PROVE  TickCircuit(t, due, silent) \in CircuitState({0, Fresh, Old})
  BY DEF TickCircuit, CircuitState, Occupancies, Heard
<1> QED
  BY <1>1, <1>2

LEMMA LineTypes ==
    ASSUME NEW l \in LineState({0, Fresh, Old})
    PROVE  /\ \A energized \in BOOLEAN, now \in {0, Fresh, Old} :
                 UpdateLine(l, energized, now) \in LineState({0, Fresh, Old})
           /\ \A now \in {0, Fresh, Old} : TouchLine(l, now) \in LineState({0, Fresh, Old})
           /\ \A silent \in BOOLEAN : TickLine(l, silent) \in LineState({0, Fresh, Old})
PROOF
  BY DEF UpdateLine, TouchLine, TickLine, LineState

\* The member functions of a lever keep its type; only a control, and only one
\* that takes a cleared signal away, starts time locking or changes the
\* direction it protects.
LEMMA SignalFacts ==
    ASSUME NEW s \in SignalState({0, 1})
    PROVE  /\ \A req \in Directions, fleet, occupied \in BOOLEAN :
                 LET out == UpdateCommand(s, req, fleet, occupied, 1)
                 IN /\ out \in SignalState({0, 1})
                    /\ Cancels(s, req) => /\ out.timeLock = occupied
                                          /\ occupied => out.lockedDir = s.active
                    /\ ~Cancels(s, req) => /\ out.timeLock = s.timeLock
                                           /\ out.lockedDir = s.lockedDir
           /\ /\ Knockdown(s) \in SignalState({0, 1})
              /\ Knockdown(s).active = "STOP"
              /\ Knockdown(s).timeLock = s.timeLock
              /\ Knockdown(s).lockedDir = s.lockedDir
           /\ \A clear, expired \in BOOLEAN :
                 LET out == EvaluateSignal(s, clear, expired)
                 IN /\ out \in SignalState({0, 1})
                    /\ out.timeLock => s.timeLock /\ out.lockedDir = s.lockedDir
PROOF
<1> USE DEF SignalState
<1>1. ASSUME NEW req \in Directions, NEW fleet \in BOOLEAN, NEW occupied \in BOOLEAN
      PROVE  LET out == UpdateCommand(s, req, fleet, occupied, 1)
             IN /\ out \in SignalState({0, 1})
                /\ Cancels(s, req) => /\ out.timeLock = occupied
                                      /\ occupied => out.lockedDir = s.active
                /\ ~Cancels(s, req) => /\ out.timeLock = s.timeLock
                                       /\ out.lockedDir = s.lockedDir
  BY DEF UpdateCommand, Coded, TakenAway, Cleared, Directions
<1>2. /\ Knockdown(s) \in SignalState({0, 1})
      /\ Knockdown(s).active = "STOP"
      /\ Knockdown(s).timeLock = s.timeLock
      /\ Knockdown(s).lockedDir = s.lockedDir
  BY DEF Knockdown, Directions
<1>3. ASSUME NEW clear \in BOOLEAN, NEW expired \in BOOLEAN
      PROVE  LET out == EvaluateSignal(s, clear, expired)
             IN /\ out \in SignalState({0, 1})
                /\ out.timeLock => s.timeLock /\ out.lockedDir = s.lockedDir
  BY DEF EvaluateSignal, Directions
<1> QED
  BY <1>1, <1>2, <1>3

\* The route equation yields an indication, and Stop unless the lever holds the
\* direction and the switches correspond.
LEMMA IndicationFacts ==
    ASSUME NEW i \in Routes, NEW ind, ind = EvaluateIndication(i, sw, tc, line, sig)
    PROVE  /\ ind \in Indications
           /\ ind # "STOP" => AuthorityHeld(i, sig) /\ SwitchesAligned(i, sw)
PROOF
<1>1. Table[i].ceiling \in Indications
  BY TableTypes
<1>2. \A x \in Indications : ReduceForOccupiedApproach(x) \in Indications
  BY DEF ReduceForOccupiedApproach, Indications, Rank
<1> QED
  BY <1>1, <1>2 DEF EvaluateIndication, Indications, Rank

\* Sections stay sections.
LEMMA SectionTypes ==
    ASSUME NEW i \in Routes, NEW s, NEW x \in {"LOCKED", "OCCUPIED", "RELEASED"}
    PROVE  AdvanceSection(i, s, x, tc) \in {"LOCKED", "OCCUPIED", "RELEASED"}
PROOF
  BY DEF AdvanceSection

LEMMA MostPermissiveType ==
    ASSUME NEW x \in Indications, NEW y \in Indications
    PROVE  /\ MostPermissive(x, y) \in Indications
           /\ MostPermissive(x, y) # "STOP" => x # "STOP" \/ y # "STOP"
PROOF
  BY DEF MostPermissive

LEMMA StampTypes == \A x : StampOf(x) \in {0, Fresh, Old}
PROOF
  BY DEF StampOf, Fresh, Old

LEMMA InitType == Init => TypeOK
PROOF
<1>1. CircuitAtRest \in CircuitState({0, Fresh, Old})
  BY DEF CircuitAtRest, CircuitState, Occupancies
<1>2. LineAtRest \in LineState({0, Fresh, Old})
  BY DEF LineAtRest, LineState
<1>3. MachineAtRest \in Machine
  BY DEF MachineAtRest, Machine, Targets, Positions
<1>4. SignalAtRest \in SignalState({0, 1})
  BY DEF SignalAtRest, SignalState, Directions
<1>5. "STOP" \in Indications /\ Idle \in 1 .. Idle
  BY TableTypes DEF Indications, Rank, Idle
<1> QED
  <2> SUFFICES ASSUME Init PROVE TypeOK
    OBVIOUS
  <2> USE DEF Init
  <2>1. tc \in [Circuits -> CircuitState({0, Fresh, Old})]
    BY <1>1
  <2>2. line \in [Lines -> LineState({0, Fresh, Old})]
    BY <1>2
  <2>3. sw \in [Switches -> Machine] /\ locks \in [Switches -> SUBSET LockKinds]
    BY <1>3
  <2>4. sig \in [Authorities -> SignalState({0, 1})]
    BY <1>4
  <2>5. /\ route \in [Routes -> {"IDLE", "CLEARED", "TRAVERSING"}]
        /\ section \in [Routes -> [Switches -> {"LOCKED", "OCCUPIED", "RELEASED"}]]
        /\ mast \in [Masts -> Indications]
        /\ next \in 1 .. Idle
    BY <1>5 DEF NoSection
  <2>6. held \in [Authorities -> SUBSET Routes] /\ underway \subseteq Routes
    OBVIOUS
  <2> QED
    BY <2>1, <2>2, <2>3, <2>4, <2>5, <2>6 DEF TypeOK

\* A report of the inputs keeps the types.
LEMMA ReportType == TypeOK /\ Report => TypeOK'
PROOF
<1> SUFFICES ASSUME TypeOK, Report PROVE TypeOK'
  OBVIOUS
<1> USE DEF TypeOK, inputs, engine, history
<1>1. ASSUME NEW c \in Circuits, NEW occ \in Occupancies, TrackReport(c, occ) PROVE TypeOK'
  <2>1. UpdateCircuit(tc[c], occ, TRUE, StampOf(c), c \in Delayed)
            \in CircuitState({0, Fresh, Old})
    <3>1. tc[c] \in CircuitState({0, Fresh, Old}) /\ StampOf(c) \in {0, Fresh, Old}
      BY StampTypes
    <3> QED
      BY <3>1 DEF UpdateCircuit, CircuitState, Occupancies
  <2> QED
    BY <1>1, <2>1 DEF TrackReport
<1>2. ASSUME NEW c \in Circuits, TrackTouch(c) PROVE TypeOK'
  BY <1>2, CircuitTypes, StampTypes DEF TrackTouch
<1>3. ASSUME NEW l \in Lines, NEW energized \in BOOLEAN, LineReport(l, energized) PROVE TypeOK'
  BY <1>3, LineTypes, StampTypes DEF LineReport
<1>4. ASSUME NEW l \in Lines, LineTouch(l) PROVE TypeOK'
  BY <1>4, LineTypes, StampTypes DEF LineTouch
<1>5. ASSUME NEW s \in Switches, NEW position \in PointsReports, PointsReport(s, position)
      PROVE TypeOK'
  BY <1>5, EnvironmentAssumption DEF PointsReport, Machine
<1> QED
  BY <1>1, <1>2, <1>3, <1>4, <1>5 DEF Report

\* So does the passing of time.
LEMMA TimeoutType == TypeOK /\ Timeout => TypeOK'
PROOF
<1> SUFFICES ASSUME TypeOK, Timeout PROVE TypeOK'
  OBVIOUS
<1> USE DEF TypeOK, inputs, engine, history
<1>1. ASSUME NEW c \in Circuits, DropoutPasses(c) PROVE TypeOK'
  <2>1. [tc[c] EXCEPT !.since = Old] \in CircuitState({0, Fresh, Old})
    BY DEF CircuitState
  <2>2. tc' \in [Circuits -> CircuitState({0, Fresh, Old})]
    BY <1>1, <2>1 DEF DropoutPasses
  <2> QED
    BY <1>1, <2>2 DEF DropoutPasses
<1>2. ASSUME NEW x \in Watched, SourceFallsSilent(x) PROVE TypeOK'
  <2>1. /\ \/ x \in Circuits /\ tc' = [tc EXCEPT ![x].last = Old] /\ UNCHANGED line
           \/ x \in Lines /\ line' = [line EXCEPT ![x].last = Old] /\ UNCHANGED tc
        /\ UNCHANGED <<sw, locks, sig, engine, history>>
    BY <1>2 DEF SourceFallsSilent
  <2>2. \A t \in CircuitState({0, Fresh, Old}) :
           [t EXCEPT !.last = Old] \in CircuitState({0, Fresh, Old})
    BY DEF CircuitState
  <2>3. \A l \in LineState({0, Fresh, Old}) :
           [l EXCEPT !.last = Old] \in LineState({0, Fresh, Old})
    BY DEF LineState
  <2> DEFINE C == CircuitState({0, Fresh, Old})
             L == LineState({0, Fresh, Old})
  <2> HIDE DEF C, L
  <2>4. tc' \in [Circuits -> C]
    <3>1. tc \in [Circuits -> C] /\ \A t \in C : [t EXCEPT !.last = Old] \in C
      BY <2>2 DEF C
    <3>2. CASE x \in Circuits /\ tc' = [tc EXCEPT ![x].last = Old]
      BY <3>1, <3>2
    <3> QED
      BY <2>1, <3>1, <3>2
  <2>5. line' \in [Lines -> L]
    <3>1. line \in [Lines -> L] /\ \A l \in L : [l EXCEPT !.last = Old] \in L
      BY <2>3 DEF L
    <3>2. CASE x \in Lines /\ line' = [line EXCEPT ![x].last = Old]
      BY <3>1, <3>2
    <3> QED
      BY <2>1, <3>1, <3>2
  <2> QED
    BY <2>1, <2>4, <2>5 DEF C, L
<1>3. ASSUME NEW s \in Overruns, TravelOverruns(s) PROVE TypeOK'
  <2>1. \A m \in Machine : [m EXCEPT !.overdue = TRUE] \in Machine
    BY DEF Machine
  <2>2. sw' \in [Switches -> Machine]
    BY <1>3, <2>1, EnvironmentAssumption DEF TravelOverruns
  <2> QED
    BY <1>3, <2>2 DEF TravelOverruns
<1>4. ASSUME NEW a \in Authorities, ReleaseTimeRuns(a) PROVE TypeOK'
  <2>1. \A s \in SignalState({0, 1}) : [s EXCEPT !.timer = 0] \in SignalState({0, 1})
    BY DEF SignalState
  <2>2. sig' \in [Authorities -> SignalState({0, 1})]
    BY <1>4, <2>1 DEF ReleaseTimeRuns
  <2> QED
    BY <1>4, <2>2 DEF ReleaseTimeRuns
<1> QED
  BY <1>1, <1>2, <1>3, <1>4, EnvironmentAssumption DEF Timeout

\* So does a control demand.
LEMMA ControlType == TypeOK /\ Control => TypeOK'
PROOF
<1> SUFFICES ASSUME TypeOK, Control PROVE TypeOK'
  OBVIOUS
<1> USE DEF TypeOK, inputs, engine, history
<1>1. ASSUME NEW s \in Switches, NEW target \in Targets, SwitchDemand(s, target) PROVE TypeOK'
  BY <1>1, ThrowType DEF SwitchDemand
<1>2. ASSUME NEW d \in Demands, SignalDemand(d[1], d[2], d[3]) PROVE TypeOK'
  <2>1. d[1] \in Authorities /\ d[2] \in Directions /\ d[3] \in BOOLEAN
    BY EnvironmentAssumption
  <2>2. CancelApproachOccupied(d[1], sig, sw, tc) \in BOOLEAN
    BY DEF CancelApproachOccupied
  <2>3. sig' \in [Authorities -> SignalState({0, 1})]
    BY <1>2, <2>1, <2>2, SignalFacts DEF SignalDemand
  <2>4. held' \in [Authorities -> SUBSET Routes]
    BY <1>2, <2>1 DEF SignalDemand
  <2> QED
    BY <1>2, <2>3, <2>4 DEF SignalDemand
<1>3. ASSUME NEW s \in Levers, NEW demand \in {"LOCK", "UNLOCK"}, LockDemand(s, demand)
      PROVE  TypeOK'
  <2>1. s \in Switches /\ "HAND" \in LockKinds
    BY EnvironmentAssumption DEF LockKinds
  <2>2. locks' \in [Switches -> SUBSET LockKinds]
    <3>1. AddLock(locks, {s}, "HAND") \in [Switches -> SUBSET LockKinds]
      BY <2>1, AddLockFacts
    <3>2. RemoveLock(locks, s, "HAND") \in [Switches -> SUBSET LockKinds]
      BY <2>1, RemoveLockFacts
    <3> QED
      BY <1>3, <3>1, <3>2 DEF LockDemand
  <2> QED
    BY <1>3, <2>2 DEF LockDemand
<1> QED
  BY <1>1, <1>2, <1>3 DEF Control

\* So does the part of a scan before the control table.
LEMMA ScanBeginType == TypeOK /\ ScanBegin => TypeOK'
PROOF
<1> SUFFICES ASSUME TypeOK, ScanBegin PROVE TypeOK'
  OBVIOUS
<1> USE DEF TypeOK, ScanBegin, KeptLocks
<1>1. locks' \in [Switches -> SUBSET LockKinds]
  <2>1. [s \in Switches |-> locks[s] \cap {"HAND"}] \in [Switches -> SUBSET LockKinds]
    OBVIOUS
  <2>2. "DETECTOR" \in LockKinds
    BY DEF LockKinds
  <2> QED
    BY <2>1, <2>2, AddLockFacts
<1>2. sw' \in [Switches -> Machine]
  <2>1. \A m \in Machine : TickMachine(m) \in Machine
    BY DEF TickMachine, Machine, Positions
  <2> QED
    BY <2>1
<1>3. tc' \in [Circuits -> CircuitState({0, Fresh, Old})]
  BY CircuitTypes
<1>4. line' \in [Lines -> LineState({0, Fresh, Old})]
  BY LineTypes
<1>5. sig' \in [Authorities -> SignalState({0, 1})]
  <2>1. \A a \in Authorities : PlantClear(a, tc', line') \in BOOLEAN
    BY DEF PlantClear
  <2> QED
    BY <2>1, SignalFacts
<1>6. mast' \in [Masts -> Indications] /\ next' \in 1 .. Idle
  BY TableTypes DEF Indications, Rank, Idle
<1>7. held' \in [Authorities -> SUBSET Routes] /\ underway' \subseteq Routes
  OBVIOUS
<1> QED
  BY <1>1, <1>2, <1>3, <1>4, <1>5, <1>6, <1>7

\* So does each step over the table.
LEMMA ExamineType ==
    ASSUME TypeOK, NEW i \in Routes, ExamineRoute(i) PROVE TypeOK'
PROOF
<1> USE DEF TypeOK, inputs, history
<1>1. /\ i + 1 \in 1 .. Idle
      /\ Governed(i) \subseteq Switches
      /\ Table[i].mast \in Masts \cup {None}
      /\ "ROUTE" \in LockKinds
  BY TableTypes DEF Idle, LockKinds
<1>2. /\ "RESTRICTING" \in Indications
      /\ NoSection \in [Switches -> {"LOCKED", "OCCUPIED", "RELEASED"}]
  BY DEF Indications, Rank, NoSection
<1>3. \A S : AddLock(locks, S, "ROUTE") \in [Switches -> SUBSET LockKinds]
  BY <1>1, AddLockFacts
<1>4. CASE PassOver(i)
  BY <1>4, <1>1 DEF PassOver
<1>5. CASE ContinueTraversal(i)
  <2> DEFINE sections == [s \in Switches |->
                IF s \in Governed(i) THEN AdvanceSection(i, s, section[i][s], tc)
                ELSE section[i][s]]
  <2>1. sections \in [Switches -> {"LOCKED", "OCCUPIED", "RELEASED"}]
    BY SectionTypes
  <2>2. /\ SetSection(i, sections) /\ LockRoute(i, Unreleased(i, sections))
        /\ next' = i + 1 /\ UNCHANGED <<inputs, sw, sig, route, mast, history>>
    BY <1>5 DEF ContinueTraversal, Examines
  <2> HIDE DEF sections
  <2> QED
    BY <1>1, <1>3, <2>1, <2>2 DEF SetSection, LockRoute
<1>6. CASE EngineReturn(i)
  BY <1>6, <1>1, <1>2, <1>3, MostPermissiveType
     DEF EngineReturn, Examines, SetSection, LockRoute, SetRoute, Accumulate
<1>7. CASE HoldAtStop(i)
  BY <1>7, <1>1, <1>2 DEF HoldAtStop, Standard, Examines, SetSection, SetRoute
<1>8. CASE AcceptTrain(i)
  <2>1. sig' \in [Authorities -> SignalState({0, 1})]
    <3>1. sig' = [sig EXCEPT ![Table[i].authority] = Knockdown(@)]
      BY <1>8 DEF AcceptTrain
    <3>2. \A s \in SignalState({0, 1}) : Knockdown(s) \in SignalState({0, 1})
      BY SignalFacts
    <3>3. sig \in [Authorities -> SignalState({0, 1})]
      OBVIOUS
    <3> QED
      BY ONLY <3>1, <3>2, <3>3
  <2> QED
    BY <1>8, <1>1, <1>3, <2>1
       DEF AcceptTrain, Standard, Examines, SetSection, LockRoute, SetRoute
<1>9. CASE ClearRoute(i)
  <2>1. EvaluateIndication(i, sw, tc, line, sig) \in Indications
    BY IndicationFacts
  <2> QED
    BY <1>9, <1>1, <1>2, <1>3, <2>1, MostPermissiveType
       DEF ClearRoute, Standard, Examines, SetSection, LockRoute, SetRoute, Accumulate
<1> QED
  BY <1>4, <1>5, <1>6, <1>7, <1>8, <1>9 DEF ExamineRoute

\* And the end of a scan.
LEMMA ScanEndType == TypeOK /\ ScanEnd => TypeOK'
PROOF
<1> SUFFICES ASSUME TypeOK, ScanEnd PROVE TypeOK'
  OBVIOUS
<1>1. "TIME" \in LockKinds /\ Idle \in 1 .. Idle
  BY TableTypes DEF LockKinds, Idle
<1>2. locks' \in [Switches -> SUBSET LockKinds]
  BY <1>1, AddLockFacts DEF TypeOK, ScanEnd
<1> QED
  BY <1>1, <1>2 DEF TypeOK, ScanEnd, inputs, history

LEMMA TypeStep == TypeOK /\ [Next]_vars => TypeOK'
PROOF
<1>1. TypeOK /\ UNCHANGED vars => TypeOK'
  BY DEF TypeOK, vars, inputs, engine, history
<1> QED
  BY <1>1, ReportType, TimeoutType, ControlType, ScanBeginType, ExamineType, ScanEndType
     DEF Next, ScanStep

\* The types of the plant's state hold for every plant.
THEOREM TypeCorrect == Spec => []TypeOK
PROOF
<1> QED
  BY InitType, TypeStep, PTL DEF Spec

-----------------------------------------------------------------------------
(* The locking invariant.                                                  *)

\* Only a switch demand gives a machine a new command.
LEMMA CommandedByDemand ==
    ASSUME TypeOK, [Next]_vars
    PROVE  \/ \E m \in Switches, target \in Targets : SwitchDemand(m, target)
           \/ \A s \in Switches : sw'[s].commanded = sw[s].commanded
PROOF
<1> USE DEF TypeOK, inputs, engine, history
<1>1. CASE ScanBegin
  BY <1>1 DEF ScanBegin, TickMachine, Machine
<1>2. CASE \E m \in Switches, position \in PointsReports : PointsReport(m, position)
  BY <1>2 DEF PointsReport, Machine
<1>3. CASE \E m \in Overruns : TravelOverruns(m)
  BY <1>3 DEF TravelOverruns, Machine
<1>4. CASE UNCHANGED sw
  BY <1>4
<1>5. Report => \/ UNCHANGED sw
                \/ \E m \in Switches, position \in PointsReports : PointsReport(m, position)
  BY DEF Report, TrackReport, TrackTouch, LineReport, LineTouch
<1>6. Timeout => UNCHANGED sw \/ \E m \in Overruns : TravelOverruns(m)
  BY DEF Timeout, DropoutPasses, SourceFallsSilent, ReleaseTimeRuns
<1>7. Control => \/ UNCHANGED sw
                 \/ \E m \in Switches, target \in Targets : SwitchDemand(m, target)
  BY DEF Control, SignalDemand, LockDemand
<1>8. ASSUME NEW i \in Routes, ExamineRoute(i) PROVE UNCHANGED sw
  BY <1>8 DEF ExamineRoute, PassOver, ContinueTraversal, EngineReturn, HoldAtStop,
              AcceptTrain, ClearRoute
<1>9. ScanEnd \/ UNCHANGED vars => UNCHANGED sw
  BY DEF ScanEnd, vars
<1> QED
  BY <1>1, <1>2, <1>3, <1>4, <1>5, <1>6, <1>7, <1>8, <1>9 DEF Next, ScanStep

\* A locked machine gets no new command from any step of the plant.
LEMMA LockedNotCommanded ==
    ASSUME TypeOK, PairsAgree, [Next]_vars, NEW s \in Switches, locks[s] # {}
    PROVE  sw'[s].commanded = sw[s].commanded
PROOF
<1>1. CASE \E m \in Switches, target \in Targets : SwitchDemand(m, target)
  <2>1. PICK m \in Switches, target \in Targets : SwitchDemand(m, target)
    BY <1>1
  <2>2. locks[Pair[s]] = locks[s]
    BY DEF PairsAgree
  <2>3. sw \in [Switches -> Machine] /\ locks \in [Switches -> SUBSET LockKinds]
    BY DEF TypeOK
  <2>4. ThrowSwitch(sw, locks, m, target)[s] = sw[s]
    BY <2>2, <2>3, ThrowSparesLocked
  <2> QED
    BY <2>1, <2>4 DEF SwitchDemand
<1> QED
  BY <1>1, CommandedByDemand

\* The locks of a step: those of the scan fall at its beginning, and between
\* two steps every change is an addLock() or a removeLock().
LEMMA LocksStep ==
    ASSUME TypeOK, [Next]_vars
    PROVE  \/ UNCHANGED locks
           \/ \E S : locks' = AddLock(locks, S, "HAND")
           \/ \E S : locks' = AddLock(locks, S, "ROUTE")
           \/ \E S : locks' = AddLock(locks, S, "TIME")
           \/ \E m \in Switches : locks' = RemoveLock(locks, m, "HAND")
           \/ ScanBegin
PROOF
<1> USE DEF inputs, engine, history
<1>1. Levers \subseteq Switches
  BY EnvironmentAssumption
<1>2. Report \/ Timeout => UNCHANGED locks
  BY DEF Report, TrackReport, TrackTouch, LineReport, LineTouch, PointsReport,
         Timeout, DropoutPasses, SourceFallsSilent, TravelOverruns, ReleaseTimeRuns
<1>3. Control => \/ UNCHANGED locks
                 \/ \E S : locks' = AddLock(locks, S, "HAND")
                 \/ \E m \in Switches : locks' = RemoveLock(locks, m, "HAND")
  BY <1>1 DEF Control, SwitchDemand, SignalDemand, LockDemand
<1>4. ASSUME NEW i \in Routes, ExamineRoute(i)
      PROVE  UNCHANGED locks \/ \E S : locks' = AddLock(locks, S, "ROUTE")
  BY <1>4 DEF ExamineRoute, PassOver, ContinueTraversal, EngineReturn, HoldAtStop,
              AcceptTrain, ClearRoute, LockRoute
<1>5. ScanEnd => \E S : locks' = AddLock(locks, S, "TIME")
  BY DEF ScanEnd
<1>6. UNCHANGED vars => UNCHANGED locks
  BY DEF vars
<1> QED
  BY <1>2, <1>3, <1>4, <1>5, <1>6 DEF Next, ScanStep

\* Outside the beginning of a scan, every lock but the electric one lasts.
LEMMA LocksLast ==
    ASSUME TypeOK, [Next]_vars, ~ScanBegin, NEW s \in Switches
    PROVE  locks[s] \ {"HAND"} \subseteq locks'[s]
PROOF
<1>1. locks \in [Switches -> SUBSET LockKinds]
  BY DEF TypeOK
<1>2. ASSUME NEW S, NEW kind \in LockKinds, locks' = AddLock(locks, S, kind)
      PROVE  locks[s] \ {"HAND"} \subseteq locks'[s]
  BY <1>1, <1>2, AddLockFacts
<1>3. ASSUME NEW m \in Switches, locks' = RemoveLock(locks, m, "HAND")
      PROVE  locks[s] \ {"HAND"} \subseteq locks'[s]
  BY <1>1, <1>3, RemoveLockFacts DEF LockKinds
<1>4. CASE \E S : locks' = AddLock(locks, S, "HAND")
  BY <1>2, <1>4 DEF LockKinds
<1>5. CASE \E S : locks' = AddLock(locks, S, "ROUTE")
  BY <1>2, <1>5 DEF LockKinds
<1>6. CASE \E S : locks' = AddLock(locks, S, "TIME")
  BY <1>2, <1>6 DEF LockKinds
<1> QED
  BY <1>3, <1>4, <1>5, <1>6, LocksStep

\* So a route that is secured stays secured.
LEMMA SecuredStays ==
    ASSUME TypeOK, PairsAgree, [Next]_vars, ~ScanBegin, NEW i \in Routes, Secured(i)
    PROVE  Secured(i)'
PROOF
<1>1. ASSUME NEW s \in Governed(i)
      PROVE  sw'[s].commanded = Table[i].aligns[s] /\ "ROUTE" \in locks'[s]
  <2>1. /\ s \in Switches /\ "ROUTE" \in locks[s]
        /\ sw[s].commanded = Table[i].aligns[s]
    BY TableTypes DEF Secured
  <2>2. sw'[s].commanded = sw[s].commanded
    BY <2>1, LockedNotCommanded
  <2> QED
    BY <2>1, <2>2, LocksLast
<1> QED
  BY <1>1 DEF Secured, Governed

\* What the steps between two scans leave alone.
LEMMA BetweenScans ==
    ASSUME Report \/ Timeout \/ Control
    PROVE  next = Idle /\ UNCHANGED <<route, mast, next>>
PROOF
<1> USE DEF engine
<1>1. CASE Report
  BY <1>1 DEF Report, TrackReport, TrackTouch, LineReport, LineTouch, PointsReport
<1>2. CASE Timeout
  BY <1>2 DEF Timeout, DropoutPasses, SourceFallsSilent, TravelOverruns, ReleaseTimeRuns
<1>3. CASE Control
  BY <1>3 DEF Control, SwitchDemand, SignalDemand, LockDemand
<1> QED
  BY <1>1, <1>2, <1>3

\* What the steps over the table leave alone.
LEMMA WithinScan ==
    ASSUME TypeOK, NEW i \in Routes, ExamineRoute(i)
    PROVE  /\ next = i /\ next' = i + 1
           /\ UNCHANGED <<inputs, sw, history>>
           /\ \A j \in Routes : j # i => route'[j] = route[j]
           /\ \A a \in Authorities : /\ sig'[a].active \in {sig[a].active, "STOP"}
                                     /\ sig'[a].timeLock = sig[a].timeLock
                                     /\ sig'[a].lockedDir = sig[a].lockedDir
PROOF
<1> USE DEF TypeOK, Examines
<1>1. next = i /\ next' = i + 1 /\ UNCHANGED <<inputs, sw, history>>
  BY DEF ExamineRoute, PassOver, ContinueTraversal, EngineReturn, HoldAtStop,
         AcceptTrain, ClearRoute, Standard
<1>2. \A j \in Routes : j # i => route'[j] = route[j]
  BY DEF ExamineRoute, PassOver, ContinueTraversal, EngineReturn, HoldAtStop,
         AcceptTrain, ClearRoute, SetRoute
<1>3. \/ UNCHANGED sig
      \/ sig' = [sig EXCEPT ![Table[i].authority] = Knockdown(@)]
  BY DEF ExamineRoute, PassOver, ContinueTraversal, EngineReturn, HoldAtStop,
         AcceptTrain, ClearRoute
<1>4. ASSUME NEW a \in Authorities
      PROVE  /\ sig'[a].active \in {sig[a].active, "STOP"}
             /\ sig'[a].timeLock = sig[a].timeLock
             /\ sig'[a].lockedDir = sig[a].lockedDir
  BY <1>3, SignalFacts
<1> QED
  BY <1>1, <1>2, <1>4

\* A route that a step of the scan leaves cleared was looked at under an
\* aligned table entry, and all its switches are locked.
LEMMA ExaminedSecured ==
    ASSUME TypeOK, DarkNotCleared, NEW i \in Routes, ExamineRoute(i),
           EngineReturn(i) \/ ClearRoute(i)
    PROVE  Secured(i)'
PROOF
<1>1. SwitchesAligned(i, sw) /\ LockRoute(i, Governed(i)) /\ UNCHANGED sw
  BY IndicationFacts DEF EngineReturn, EngineReturnHolds, ClearRoute
<1>2. ASSUME NEW s \in Governed(i)
      PROVE  sw'[s].commanded = Table[i].aligns[s] /\ "ROUTE" \in locks'[s]
  <2>1. s \in Switches /\ "ROUTE" \in LockKinds
    BY TableTypes DEF LockKinds
  <2>2. sw[s].commanded = Table[i].aligns[s]
    BY <1>1 DEF SwitchesAligned, InCorrespondence, SelfInCorrespondence
  <2>3. "ROUTE" \in locks'[s]
    BY <1>1, <2>1, AddLockFacts DEF LockRoute, TypeOK
  <2> QED
    BY <1>1, <2>2, <2>3
<1> QED
  BY <1>2 DEF Secured, Governed

\* Only these two steps leave a route cleared, and only they change a mast.
LEMMA ExaminedCleared ==
    ASSUME TypeOK, DarkNotCleared, NEW i \in Routes, ExamineRoute(i)
    PROVE  /\ route'[i] = "CLEARED" => /\ EngineReturn(i) \/ ClearRoute(i)
                                       /\ Table[i].mast # None
           /\ mast' # mast => EngineReturn(i) \/ ClearRoute(i)
           /\ \A m \in Masts : m # Table[i].mast => mast'[m] = mast[m]
PROOF
  BY DEF TypeOK, DarkNotCleared, ExamineRoute, PassOver, ContinueTraversal, Traversing,
         EngineReturn, HoldAtStop, AcceptTrain, ClearRoute, Standard, Examines,
         SetRoute, Accumulate

\* The pairs: what a throw and a lock do to one machine they do to the other.
LEMMA PairsStep == TypeOK /\ PairsAgree /\ [Next]_vars => PairsAgree'
PROOF
<1> SUFFICES ASSUME TypeOK, PairsAgree, [Next]_vars PROVE PairsAgree'
  OBVIOUS
<1>0. /\ sw \in [Switches -> Machine] /\ locks \in [Switches -> SUBSET LockKinds]
      /\ \A s \in Switches : Pair[s] \in Switches
      /\ \A s \in Switches : sw[Pair[s]].commanded = sw[s].commanded
      /\ \A s \in Switches : locks[Pair[s]] = locks[s]
  BY PairAssumption DEF TypeOK, PairsAgree
<1>1. \A s \in Switches : sw'[Pair[s]].commanded = sw'[s].commanded
  <2>1. CASE \A s \in Switches : sw'[s].commanded = sw[s].commanded
    BY <2>1, <1>0
  <2>2. ASSUME NEW m \in Switches, NEW target \in Targets, SwitchDemand(m, target)
        PROVE  \A s \in Switches : sw'[Pair[s]].commanded = sw'[s].commanded
    <3>1. sw' = ThrowSwitch(sw, locks, m, target)
      BY <2>2 DEF SwitchDemand
    <3>2. \A s \in Switches : ThrowSwitch(sw, locks, m, target)[Pair[s]].commanded
                               = ThrowSwitch(sw, locks, m, target)[s].commanded
      BY <1>0, ThrowKeepsPairs
    <3> QED
      BY <3>1, <3>2
  <2> QED
    BY <2>1, <2>2, CommandedByDemand
<1>2. \A s \in Switches : locks'[Pair[s]] = locks'[s]
  <2> USE DEF LockKinds
  <2>1. ASSUME NEW S, NEW kind \in LockKinds, locks' = AddLock(locks, S, kind)
        PROVE  \A s \in Switches : locks'[Pair[s]] = locks'[s]
    BY <2>1, <1>0, AddLockFacts
  <2>2. ASSUME NEW m \in Switches, locks' = RemoveLock(locks, m, "HAND")
        PROVE  \A s \in Switches : locks'[Pair[s]] = locks'[s]
    <3>1. \A s \in Switches : RemoveLock(locks, m, "HAND")[Pair[s]]
                               = RemoveLock(locks, m, "HAND")[s]
      BY <1>0, RemoveLockFacts
    <3> QED
      BY <2>2, <3>1
  <2>3. ASSUME ScanBegin
        PROVE  \A s \in Switches : locks'[Pair[s]] = locks'[s]
    <3> DEFINE left == [s \in Switches |-> locks[s] \cap {"HAND"}]
    <3>1. left \in [Switches -> SUBSET LockKinds] /\ \A s \in Switches : left[Pair[s]] = left[s]
      BY <1>0
    <3>2. "DETECTOR" \in LockKinds /\ \E S : locks' = AddLock(left, S, "DETECTOR")
      BY <2>3 DEF ScanBegin, KeptLocks, LockKinds
    <3> HIDE DEF left
    <3> QED
      BY <3>1, <3>2, AddLockFacts
  <2> QED
    BY <2>1, <2>2, <2>3, <1>0, LocksStep
<1> QED
  BY <1>1, <1>2 DEF PairsAgree

\* No step but ScanBegin goes back in the table, and only a step over a route
\* changes that route or its mast.
LEMMA ScanSteps ==
    ASSUME TypeOK, [Next]_vars, NEW j \in Routes, Scanned(j)'
    PROVE  /\ ~ScanBegin
           /\ \/ ExamineRoute(j)
              \/ Scanned(j) /\ route'[j] = route[j]
PROOF
<1>0. j \in 1 .. Len(Table) /\ Len(Table) \in Nat /\ next \in Nat
  BY TableTypes DEF TypeOK
<1>1. ~ScanBegin
  BY <1>0 DEF ScanBegin, Scanned
<1>2. CASE Report \/ Timeout \/ Control \/ UNCHANGED vars
  BY <1>2, <1>1, BetweenScans DEF Scanned, vars, engine
<1>3. ASSUME NEW i \in Routes, ExamineRoute(i), i # j
      PROVE  Scanned(j) /\ route'[j] = route[j]
  <2>1. i \in Nat
    BY TableTypes
  <2> QED
    BY <1>0, <1>3, <2>1, WithinScan DEF Scanned
<1>4. CASE ScanEnd
  BY <1>0, <1>1, <1>4 DEF ScanEnd, Scanned
<1> QED
  BY <1>1, <1>2, <1>3, <1>4 DEF Next, ScanStep

LEMMA ClearedStep ==
    TypeOK /\ PairsAgree /\ DarkNotCleared /\ ClearedSecured /\ [Next]_vars => ClearedSecured'
PROOF
<1> SUFFICES ASSUME TypeOK, PairsAgree, DarkNotCleared, ClearedSecured, [Next]_vars,
                    NEW i \in Routes, Scanned(i)', route'[i] = "CLEARED"
             PROVE  Secured(i)'
  BY DEF ClearedSecured
<1>1. CASE ExamineRoute(i)
  BY <1>1, ExaminedCleared, ExaminedSecured
<1>2. CASE Scanned(i) /\ route'[i] = route[i]
  <2>1. Secured(i)
    BY <1>2 DEF ClearedSecured
  <2> QED
    BY <2>1, ScanSteps, SecuredStays
<1> QED
  BY <1>1, <1>2, ScanSteps

LEMMA DarkStep == TypeOK /\ DarkNotCleared /\ [Next]_vars => DarkNotCleared'
PROOF
<1> SUFFICES ASSUME TypeOK, DarkNotCleared, [Next]_vars,
                    NEW j \in Routes, Table[j].mast = None, route'[j] = "CLEARED"
             PROVE  FALSE
  BY DEF DarkNotCleared
<1>1. route[j] # "CLEARED"
  BY DEF DarkNotCleared
<1>2. CASE Report \/ Timeout \/ Control \/ ScanBegin \/ ScanEnd \/ UNCHANGED vars
  BY <1>1, <1>2, BetweenScans DEF ScanBegin, ScanEnd, vars, engine
<1>3. ASSUME NEW i \in Routes, ExamineRoute(i) PROVE FALSE
  BY <1>1, <1>3, WithinScan, ExaminedCleared
<1> QED
  BY <1>2, <1>3 DEF Next, ScanStep

LEMMA MastStep ==
    TypeOK /\ PairsAgree /\ DarkNotCleared /\ MastSecured /\ [Next]_vars => MastSecured'
PROOF
<1> SUFFICES ASSUME TypeOK, PairsAgree, DarkNotCleared, MastSecured, [Next]_vars,
                    NEW m \in Masts, mast'[m] # "STOP"
             PROVE  \E i \in Routes : Scanned(i)' /\ Table[i].mast = m /\ Secured(i)'
  BY DEF MastSecured
<1>0. /\ Len(Table) \in Nat /\ Routes = 1 .. Len(Table) /\ next \in Nat
      /\ Idle = Len(Table) + 2
  BY TableTypes DEF TypeOK, Idle
<1>1. ~ScanBegin
  BY DEF ScanBegin
<1>2. ASSUME mast'[m] = mast[m], next' >= next
      PROVE  \E i \in Routes : Scanned(i)' /\ Table[i].mast = m /\ Secured(i)'
  <2>1. PICK i \in Routes : Scanned(i) /\ Table[i].mast = m /\ Secured(i)
    BY <1>2 DEF MastSecured
  <2>2. Secured(i)'
    BY <2>1, <1>1, SecuredStays
  <2>3. Scanned(i)'
    <3>1. TypeOK'
      BY TypeStep
    <3>2. i \in Nat /\ i < next /\ next' \in Nat
      BY <2>1, <3>1, <1>0 DEF Scanned, TypeOK
    <3> QED
      BY <3>2, <1>0, <1>2 DEF Scanned
  <2> QED
    BY <2>1, <2>2, <2>3
<1>3. CASE Report \/ Timeout \/ Control \/ UNCHANGED vars
  BY <1>0, <1>2, <1>3, BetweenScans DEF vars, engine
<1>4. CASE ScanEnd
  BY <1>0, <1>2, <1>4 DEF ScanEnd
<1>5. ASSUME NEW i \in Routes, ExamineRoute(i)
      PROVE  \E j \in Routes : Scanned(j)' /\ Table[j].mast = m /\ Secured(j)'
  <2>0. next = i /\ next' = i + 1 /\ i \in Nat
    BY <1>0, <1>5, WithinScan
  <2>1. CASE mast'[m] = mast[m]
    BY <1>2, <2>0, <2>1
  <2>2. CASE mast'[m] # mast[m]
    <3>1. Table[i].mast = m /\ (EngineReturn(i) \/ ClearRoute(i))
      BY <1>5, <2>2, ExaminedCleared
    <3>2. Secured(i)'
      BY <1>5, <3>1, ExaminedSecured
    <3> QED
      BY <2>0, <3>1, <3>2 DEF Scanned
  <2> QED
    BY <2>1, <2>2
<1> QED
  BY <1>1, <1>3, <1>4, <1>5 DEF Next, ScanStep

\* A step that displays a lever's route leaves the lever holding its direction.
LEMMA ExaminedHeld ==
    ASSUME TypeOK, DarkNotCleared, NEW i \in Routes, ExamineRoute(i),
           route'[i] = "CLEARED", Table[i].authority # None,
           ~Table[i].engineReturn, ~Table[i].automatic
    PROVE  /\ UNCHANGED sig
           /\ sig[Table[i].authority].active = Table[i].direction
PROOF
<1>1. ~EngineReturn(i)
  BY DEF EngineReturn, EngineReturnHolds
<1>2. ClearRoute(i)
  BY <1>1, ExaminedCleared
<1> QED
  BY <1>2 DEF ClearRoute, AuthorityHeld

LEMMA LeverStep ==
    TypeOK /\ DarkNotCleared /\ LeverAgrees /\ [Next]_vars => LeverAgrees'
PROOF
<1> SUFFICES ASSUME TypeOK, DarkNotCleared, LeverAgrees, [Next]_vars, next' # Idle,
                    NEW j \in Routes, Scanned(j)', route'[j] = "CLEARED",
                    Table[j].authority # None,
                    ~Table[j].engineReturn, ~Table[j].automatic
             PROVE  sig'[Table[j].authority].active \in {Table[j].direction, "STOP"}
  BY DEF LeverAgrees, Idle
<1>0. Table[j].authority \in Authorities
  BY TableTypes
<1>1. CASE Report \/ Timeout \/ Control \/ ScanEnd
  BY <1>1, BetweenScans DEF ScanEnd
<1>2. CASE UNCHANGED vars
  BY <1>2 DEF LeverAgrees, Scanned, vars, engine
<1>3. ASSUME NEW i \in Routes, ExamineRoute(i)
      PROVE  sig'[Table[j].authority].active \in {Table[j].direction, "STOP"}
  <2>1. CASE i = j
    BY <1>3, <2>1, ExaminedHeld
  <2>2. CASE i # j
    <3>1. ~ExamineRoute(j)
      BY <1>3, <2>2, WithinScan
    <3>2. Scanned(j) /\ route[j] = "CLEARED"
      BY <3>1, ScanSteps
    <3>3. next # Idle
      BY <1>3, WithinScan, TableTypes DEF Idle
    <3>4. sig[Table[j].authority].active \in {Table[j].direction, "STOP"}
      BY <3>2, <3>3 DEF LeverAgrees
    <3> QED
      BY <1>0, <1>3, <3>4, WithinScan
  <2> QED
    BY <2>1, <2>2
<1>4. ~ScanBegin
  BY ScanSteps
<1> QED
  BY <1>1, <1>2, <1>3, <1>4 DEF Next, ScanStep

LEMMA AgreeStep ==
    PlantInv /\ [Next]_vars => ScannedAgree'
PROOF
<1> SUFFICES ASSUME PlantInv, [Next]_vars,
                    NEW i \in Routes, NEW j \in Routes, Scanned(i)', Scanned(j)',
                    route'[i] = "CLEARED", route'[j] = "CLEARED"
             PROVE  ~Conflicting(i, j)
  BY DEF ScannedAgree
<1> USE DEF PlantInv
<1>1. ClearedSecured'
  BY ClearedStep
<1>2. \A s \in Governed(i) \cap Governed(j) : Table[i].aligns[s] = Table[j].aligns[s]
  <2>1. Secured(i)' /\ Secured(j)'
    BY <1>1 DEF ClearedSecured
  <2> QED
    BY <2>1 DEF Secured, Governed
<1>3. /\ Table[i].direction \in {"LEFT", "RIGHT"}
      /\ Table[j].direction \in {"LEFT", "RIGHT"}
  BY TableTypes
\* Of two routes of one lever, the one the scan looked at last finds the lever
\* at its own direction.
<1>4. ASSUME NEW x \in Routes, NEW y \in Routes, Scanned(y)', x # y,
             ExamineRoute(x), route'[x] = "CLEARED", route'[y] = "CLEARED",
             Table[x].authority = Table[y].authority, Table[x].authority # None,
             ~Table[x].engineReturn, ~Table[y].engineReturn,
             ~Table[x].automatic, ~Table[y].automatic
      PROVE  Table[x].direction = Table[y].direction
  <2>1. ~ExamineRoute(y)
    BY <1>4, WithinScan
  <2>2. Scanned(y) /\ route[y] = "CLEARED"
    BY <1>4, <2>1, ScanSteps
  <2>3. next # Idle
    BY <1>4, WithinScan, TableTypes DEF Idle
  <2>4. sig[Table[y].authority].active \in {Table[y].direction, "STOP"}
    BY <1>4, <2>2, <2>3 DEF LeverAgrees
  <2>5. sig[Table[x].authority].active = Table[x].direction
    BY <1>4, ExaminedHeld
  <2>6. Table[x].direction # "STOP"
    BY TableTypes
  <2> QED
    BY <1>4, <2>4, <2>5, <2>6
<1>5. CASE Scanned(i) /\ route'[i] = route[i] /\ Scanned(j) /\ route'[j] = route[j]
  BY <1>5 DEF ScannedAgree
<1>6. CASE ExamineRoute(i)
  BY <1>2, <1>4, <1>6 DEF Conflicting
<1>7. CASE ExamineRoute(j)
  BY <1>2, <1>4, <1>7 DEF Conflicting
<1> QED
  BY <1>5, <1>6, <1>7, ScanSteps

\* A switch of a held route stays commanded, and keeps a lock that lasts.
LEMMA HeldSwitchStays ==
    ASSUME TypeOK, PairsAgree, [Next]_vars, ~ScanBegin, NEW s \in Switches,
           locks[s] \cap {"ROUTE", "TIME"} # {}
    PROVE  /\ sw'[s].commanded = sw[s].commanded
           /\ locks'[s] \cap {"ROUTE", "TIME"} # {}
PROOF
<1>1. locks[s] # {}
  OBVIOUS
<1> QED
  BY <1>1, LockedNotCommanded, LocksLast

LEMMA HeldStep == PlantInv /\ [Next]_vars => HeldLocked'
PROOF
<1> SUFFICES ASSUME PlantInv, [Next]_vars, NEW a \in Authorities, sig'[a].timeLock,
                    NEW i \in held'[a]
             PROVE  /\ Table[i].authority = a /\ Table[i].direction = sig'[a].lockedDir
                    /\ \A s \in Governed(i) :
                          /\ sw'[s].commanded = Table[i].aligns[s]
                          /\ next' = Idle => locks'[s] \cap {"ROUTE", "TIME"} # {}
  BY DEF HeldLocked, Governed, Idle
<1> USE DEF PlantInv
<1>0. TypeOK' /\ i \in Routes /\ Governed(i) \subseteq Switches /\ held[a] \subseteq Routes
  <2>1. TypeOK'
    BY TypeStep
  <2> QED
    BY <2>1, TableTypes DEF TypeOK
\* Between two scans: what was held stays held.
<1>1. ASSUME next = Idle, next' = Idle, i \in held[a], sig[a].timeLock,
             sig'[a].lockedDir = sig[a].lockedDir
      PROVE  /\ Table[i].authority = a /\ Table[i].direction = sig'[a].lockedDir
             /\ \A s \in Governed(i) :
                   /\ sw'[s].commanded = Table[i].aligns[s]
                   /\ next' = Idle => locks'[s] \cap {"ROUTE", "TIME"} # {}
  <2>1. ~ScanBegin
    BY <1>1, TableTypes DEF ScanBegin, Idle
  <2>2. /\ Table[i].authority = a /\ Table[i].direction = sig[a].lockedDir
        /\ \A s \in Governed(i) : /\ sw[s].commanded = Table[i].aligns[s]
                                  /\ locks[s] \cap {"ROUTE", "TIME"} # {}
    BY <1>1 DEF HeldLocked
  <2> QED
    BY <1>0, <1>1, <2>1, <2>2, HeldSwitchStays
\* Within a scan: no machine gets a command.
<1>2. ASSUME next' # Idle, i \in held[a], sig[a].timeLock,
             sig'[a].lockedDir = sig[a].lockedDir,
             \A s \in Switches : sw'[s].commanded = sw[s].commanded
      PROVE  /\ Table[i].authority = a /\ Table[i].direction = sig'[a].lockedDir
             /\ \A s \in Governed(i) :
                   /\ sw'[s].commanded = Table[i].aligns[s]
                   /\ next' = Idle => locks'[s] \cap {"ROUTE", "TIME"} # {}
  BY <1>0, <1>2 DEF HeldLocked
<1>3. CASE Report \/ Timeout
  <2>1. /\ UNCHANGED held
        /\ sig'[a].timeLock = sig[a].timeLock /\ sig'[a].lockedDir = sig[a].lockedDir
    <3>1. \/ UNCHANGED <<held, sig>>
          \/ \E b \in Authorities : ReleaseTimeRuns(b)
      BY <1>3 DEF engine, history, Report, TrackReport, TrackTouch, LineReport, LineTouch,
                  PointsReport, Timeout, DropoutPasses, SourceFallsSilent, TravelOverruns
    <3>2. ASSUME NEW b \in Authorities, ReleaseTimeRuns(b)
          PROVE  /\ UNCHANGED held
                 /\ sig'[a].timeLock = sig[a].timeLock
                 /\ sig'[a].lockedDir = sig[a].lockedDir
      BY <3>2 DEF ReleaseTimeRuns, history, TypeOK, SignalState
    <3> QED
      BY <3>1, <3>2
  <2> QED
    BY <1>1, <1>3, <2>1, BetweenScans
<1>4. ASSUME NEW s \in Switches, NEW target \in Targets, SwitchDemand(s, target)
      PROVE  UNCHANGED <<held, sig, next>> /\ next = Idle
  BY <1>4 DEF SwitchDemand, engine, history
<1>5. ASSUME NEW s \in Levers, NEW demand \in {"LOCK", "UNLOCK"}, LockDemand(s, demand)
      PROVE  UNCHANGED <<held, sig, next>> /\ next = Idle
  BY <1>5 DEF LockDemand, engine, history
<1>6. CASE UNCHANGED <<held, sig, next>> /\ next = Idle
  BY <1>1, <1>6
<1>7. ASSUME NEW d \in Demands, SignalDemand(d[1], d[2], d[3])
      PROVE  /\ Table[i].authority = a /\ Table[i].direction = sig'[a].lockedDir
             /\ \A s \in Governed(i) :
                   /\ sw'[s].commanded = Table[i].aligns[s]
                   /\ next' = Idle => locks'[s] \cap {"ROUTE", "TIME"} # {}
  <2> DEFINE occupied == CancelApproachOccupied(d[1], sig, sw, tc)
  <2>0. /\ d[1] \in Authorities /\ d[2] \in Directions /\ d[3] \in BOOLEAN
        /\ occupied \in BOOLEAN
    BY EnvironmentAssumption DEF CancelApproachOccupied
  <2>1. /\ next = Idle /\ next' = Idle /\ UNCHANGED <<sw, locks>>
        /\ sig' = [sig EXCEPT ![d[1]] = UpdateCommand(@, d[2], d[3], occupied, 1)]
        /\ held' = IF Cancels(sig[d[1]], d[2]) /\ occupied
                   THEN [held EXCEPT ![d[1]] =
                            {k \in Routes : /\ route[k] = "CLEARED"
                                            /\ Table[k].authority = d[1]
                                            /\ Table[k].direction = sig[d[1]].active}]
                   ELSE held
    BY <1>7 DEF SignalDemand, engine
  <2> HIDE DEF occupied
  <2>2. /\ sig[d[1]] \in SignalState({0, 1})
        /\ sig'[d[1]] = UpdateCommand(sig[d[1]], d[2], d[3], occupied, 1)
    BY <2>0, <2>1 DEF TypeOK
  <2>3. CASE a # d[1]
    <3>1. sig'[a] = sig[a] /\ held'[a] = held[a]
      BY <2>1, <2>3 DEF TypeOK
    <3> QED
      BY <1>1, <2>1, <3>1
  <2>4. CASE a = d[1] /\ ~Cancels(sig[a], d[2])
    <3>1. /\ held'[a] = held[a] /\ sig'[a].timeLock = sig[a].timeLock
          /\ sig'[a].lockedDir = sig[a].lockedDir
      <4>1. held' = held
        BY <2>1, <2>4
      <4>2. /\ sig'[a].timeLock = sig[a].timeLock
            /\ sig'[a].lockedDir = sig[a].lockedDir
        BY <2>2, <2>4 DEF UpdateCommand, Coded, Cleared, SignalState
      <4> QED
        BY <4>1, <4>2
    <3> QED
      BY <1>1, <2>1, <3>1
  <2>5. CASE a = d[1] /\ Cancels(sig[a], d[2])
    <3>1. occupied /\ sig'[a].lockedDir = sig[a].active
      BY <2>0, <2>5, <2>2, SignalFacts
    <3>2. /\ route[i] = "CLEARED" /\ Table[i].authority = a
          /\ Table[i].direction = sig[a].active
      BY <2>0, <2>1, <2>5, <3>1 DEF TypeOK
    <3>3. Scanned(i)
      BY <1>0, <2>1, TableTypes DEF Scanned, Idle
    <3>4. Secured(i)
      BY <1>0, <3>2, <3>3 DEF ClearedSecured
    <3> QED
      BY <2>1, <3>1, <3>2, <3>4 DEF Secured
  <2> QED
    BY <2>3, <2>4, <2>5
<1>8. CASE ScanBegin
  <2>1. next' # Idle
    BY <1>8, TableTypes DEF ScanBegin, Idle
  <2>2. sig[a].timeLock /\ sig'[a].lockedDir = sig[a].lockedDir
    <3>1. sig[a] \in SignalState({0, 1})
      BY DEF TypeOK
    <3>2. sig'[a] = EvaluateSignal(sig[a], PlantClear(a, tc', line'), sig[a].timer = 0)
      BY <1>8 DEF ScanBegin
    <3> QED
      BY <3>1, <3>2 DEF EvaluateSignal, SignalState
  <2>3. i \in held[a]
    BY <1>8 DEF ScanBegin
  <2>4. \A s \in Switches : sw'[s].commanded = sw[s].commanded
    BY <1>8 DEF ScanBegin, TickMachine, TypeOK, Machine
  <2> QED
    BY <1>2, <2>1, <2>2, <2>3, <2>4
<1>9. ASSUME NEW j \in Routes, ExamineRoute(j)
      PROVE  /\ Table[i].authority = a /\ Table[i].direction = sig'[a].lockedDir
             /\ \A s \in Governed(i) :
                   /\ sw'[s].commanded = Table[i].aligns[s]
                   /\ next' = Idle => locks'[s] \cap {"ROUTE", "TIME"} # {}
  <2>1. next' # Idle
    BY <1>9, WithinScan, TableTypes DEF Idle
  <2> QED
    BY <1>2, <1>9, <2>1, WithinScan DEF history
<1>10. CASE ScanEnd
  <2>1. /\ i \in held[a] /\ UNCHANGED <<sig, sw>> /\ sig[a].timeLock
        /\ Table[i].authority = a /\ Table[i].direction = sig[a].lockedDir
        /\ \A s \in Governed(i) : sw[s].commanded = Table[i].aligns[s]
    BY <1>10 DEF ScanEnd, HeldLocked, history
  <2>2. ASSUME NEW s \in Governed(i) PROVE "TIME" \in locks'[s]
    <3> DEFINE S == {t \in Switches : \E k \in Routes :
                        /\ t \in Governed(k)
                        /\ Table[k].authority # None
                        /\ sig[Table[k].authority].timeLock
                        /\ Table[k].direction = sig[Table[k].authority].lockedDir}
    <3>1. s \in S /\ s \in Switches
      BY <1>0, <2>1, TableAssumption
    <3>2. locks' = AddLock(locks, S, "TIME") /\ "TIME" \in LockKinds
      BY <1>10 DEF ScanEnd, LockKinds
    <3> HIDE DEF S
    <3> QED
      BY <3>1, <3>2, AddLockFacts DEF TypeOK
  <2> QED
    BY <2>1, <2>2
<1>11. CASE UNCHANGED vars
  BY <1>11 DEF HeldLocked, vars, engine, history
<1> QED
  BY <1>3, <1>4, <1>5, <1>6, <1>7, <1>8, <1>9, <1>10, <1>11 DEF Next, Control, ScanStep

-----------------------------------------------------------------------------
(* The theorems.                                                           *)

LEMMA InvInit == Init => PlantInv
PROOF
<1> SUFFICES ASSUME Init PROVE PlantInv
  OBVIOUS
<1>1. TypeOK
  BY InitType
<1>2. PairsAgree
  BY PairAssumption DEF Init, PairsAgree, MachineAtRest
<1>3. ClearedSecured /\ DarkNotCleared /\ LeverAgrees /\ ScannedAgree
  BY DEF Init, ClearedSecured, DarkNotCleared, LeverAgrees, ScannedAgree
<1>4. MastSecured
  BY DEF Init, MastSecured
<1>5. HeldLocked
  BY DEF Init, HeldLocked
<1> QED
  BY <1>1, <1>2, <1>3, <1>4, <1>5 DEF PlantInv

LEMMA InvStep == PlantInv /\ [Next]_vars => PlantInv'
PROOF
  BY TypeStep, PairsStep, ClearedStep, MastStep, DarkStep, LeverStep, AgreeStep, HeldStep
     DEF PlantInv

\* The locking invariant holds in every state of every plant, in the middle of
\* a scan as well as between two.
THEOREM LockingInvariant == Spec => []PlantInv
PROOF
  BY InvInit, InvStep, PTL DEF Spec

\* The two machines of a crossover or of a derail pair are always commanded
\* and locked alike.
THEOREM PairsCorrect == Spec => []PairsAgree
PROOF
<1>1. PlantInv => PairsAgree
  BY DEF PlantInv
<1> QED
  BY <1>1, LockingInvariant, PTL

\* A mast that is not at Stop shows a route whose switches are all commanded
\* for it and route locked, until the next scan begins.
THEOREM DisplayedSecured == Spec => []DisplayedRouteSecured
PROOF
<1>1. PlantInv => DisplayedRouteSecured
  BY DEF PlantInv, MastSecured, DisplayedRouteSecured
<1> QED
  BY <1>1, LockingInvariant, PTL

\* No two conflicting routes are cleared together.
THEOREM ConflictsExcluded == Spec => []NoConflictingRoutes
PROOF
<1>1. PlantInv => NoConflictingRoutes
  <2> SUFFICES ASSUME PlantInv, next = Idle, NEW i \in Routes, NEW j \in Routes,
                      route[i] = "CLEARED", route[j] = "CLEARED"
               PROVE  ~Conflicting(i, j)
    BY DEF NoConflictingRoutes
  <2>1. Scanned(i) /\ Scanned(j)
    BY TableTypes DEF Scanned, Idle
  <2> QED
    BY <2>1 DEF PlantInv, ScannedAgree
<1> QED
  BY <1>1, LockingInvariant, PTL

\* While time locking runs, no control moves the switches of the route that
\* was taken away from the approaching train.
THEOREM TimeLockHolds == Spec => []TimeLockKeepsPoints
PROOF
<1>1. PlantInv => TimeLockKeepsPoints
  BY DEF PlantInv, HeldLocked, TimeLockKeepsPoints
<1> QED
  BY <1>1, LockingInvariant, PTL

\* No step gives a new command to a machine of a displayed route, nor to the
\* machine it is paired with.
THEOREM DisplayedNotMoved == Spec => NoMoveUnderSignal
PROOF
<1>1. PlantInv /\ [Next]_vars =>
        \A i \in Routes : Scanned(i) /\ route[i] = "CLEARED" =>
            \A s \in Governed(i) : sw'[s].commanded = sw[s].commanded
                                  /\ sw'[Pair[s]].commanded = sw[Pair[s]].commanded
  <2> SUFFICES ASSUME PlantInv, [Next]_vars,
                      NEW i \in Routes, Scanned(i), route[i] = "CLEARED",
                      NEW s \in Governed(i)
               PROVE  /\ sw'[s].commanded = sw[s].commanded
                      /\ sw'[Pair[s]].commanded = sw[Pair[s]].commanded
    OBVIOUS
  <2>1. s \in Switches /\ Pair[s] \in Switches
    BY TableTypes, PairAssumption
  <2>2. locks[s] # {}
    BY DEF PlantInv, ClearedSecured, Secured
  <2>3. locks[Pair[s]] # {}
    BY <2>1, <2>2 DEF PlantInv, PairsAgree
  <2> QED
    BY <2>1, <2>2, <2>3, LockedNotCommanded DEF PlantInv
<1> QED
  BY <1>1, LockingInvariant, PTL DEF Spec, NoMoveUnderSignal

-----------------------------------------------------------------------------
(* Route locking under a train, in the tables for which the code achieves  *)
(* it.  A train is attributed to a route by its lever and its entrance     *)
(* circuit, whatever the points say; so that it is the right one, a lever  *)
(* may have one signalled route with an entrance in each direction.        *)

\* A route that accepts trains: evaluate() reaches its entrance test.
Accepting(i) ==
    Table[i].mast # None /\ Table[i].entrance # None /\ Table[i].authority # None

\* What evaluate() needs of the table: the entrance circuit is one of the
\* route's blocks (as it is by default), an engine return has no lever, and a
\* lever accepts trains for one route in each direction.
OrderlyTable ==
    /\ \A i \in Routes : Table[i].entrance \in Table[i].blocks \cup {None}
    /\ \A i \in Routes : Table[i].engineReturn => Table[i].authority = None
    /\ \A i, j \in Routes :
        /\ Accepting(i) /\ Accepting(j)
        /\ Table[i].authority = Table[j].authority
        /\ Table[i].direction = Table[j].direction
        => i = j

-----------------------------------------------------------------------------
(* The strengthening: what becomes of a train between the scan that sees   *)
(* it and the step of the scan that looks at its route.                    *)

\* The route has the train, and locks what the train has not cleared.
TrainLocked(i) ==
    /\ route[i] = "TRAVERSING"
    /\ \A s \in Governed(i) : section[i][s] # "RELEASED" => "ROUTE" \in locks[s]

\* The train is there, and the step over the route is going to find it.
TrainSeen(i) ==
    \/ route[i] = "TRAVERSING" /\ ~BlocksClear(i, tc)
    \/ /\ route[i] = "CLEARED" /\ EntranceShunted(i, tc)
       /\ Table[i].authority # None
       /\ sig[Table[i].authority].active = Table[i].direction

StickAtStop == \A a \in Authorities : sig[a].stickDropped => sig[a].active = "STOP"

TrainInv ==
    /\ StickAtStop
    /\ \A i \in underway : /\ Table[i].mast # None
                           /\ Scanned(i) => TrainLocked(i)
                           /\ ~Scanned(i) => TrainSeen(i)

-----------------------------------------------------------------------------
(* Levers.                                                                 *)

\* The calls on a lever keep its stick and its active direction together, and
\* a scan does not take away a direction that is active.
LEMMA StickFacts ==
    ASSUME NEW s \in SignalState({0, 1}), s.stickDropped => s.active = "STOP"
    PROVE  /\ \A req \in Directions, fleet, occupied \in BOOLEAN :
                 LET out == UpdateCommand(s, req, fleet, occupied, 1)
                 IN out.stickDropped => out.active = "STOP"
           /\ \A plantClear, expired \in BOOLEAN :
                 LET out == EvaluateSignal(s, plantClear, expired)
                 IN /\ out.stickDropped => out.active = "STOP"
                    /\ s.active # "STOP" => out.active = s.active
           /\ Knockdown(s).stickDropped => Knockdown(s).active = "STOP"
PROOF
<1>1. ASSUME NEW req \in Directions, NEW fleet \in BOOLEAN, NEW occupied \in BOOLEAN
      PROVE  LET out == UpdateCommand(s, req, fleet, occupied, 1)
             IN out.stickDropped => out.active = "STOP"
  BY DEF SignalState, UpdateCommand, TakenAway, Coded, Cleared, Cancels
<1>2. ASSUME NEW plantClear \in BOOLEAN, NEW expired \in BOOLEAN
      PROVE  LET out == EvaluateSignal(s, plantClear, expired)
             IN /\ out.stickDropped => out.active = "STOP"
                /\ s.active # "STOP" => out.active = s.active
  BY DEF SignalState, EvaluateSignal
<1>3. Knockdown(s).stickDropped => Knockdown(s).active = "STOP"
  BY DEF SignalState, Knockdown
<1> QED
  BY <1>1, <1>2, <1>3

LEMMA StickStep == TypeOK /\ StickAtStop /\ [Next]_vars => StickAtStop'
PROOF
<1> SUFFICES ASSUME TypeOK, StickAtStop, [Next]_vars, NEW a \in Authorities
             PROVE  sig'[a].stickDropped => sig'[a].active = "STOP"
  BY DEF StickAtStop
<1>0. /\ sig \in [Authorities -> SignalState({0, 1})] /\ sig[a] \in SignalState({0, 1})
      /\ sig[a].stickDropped => sig[a].active = "STOP"
  BY DEF TypeOK, StickAtStop
<1>1. CASE UNCHANGED sig
  BY <1>0, <1>1
<1>2. ASSUME NEW d \in Demands, SignalDemand(d[1], d[2], d[3])
      PROVE  sig'[a].stickDropped => sig'[a].active = "STOP"
  <2>1. d[1] \in Authorities /\ d[2] \in Directions /\ d[3] \in BOOLEAN
    BY EnvironmentAssumption
  <2>2. CancelApproachOccupied(d[1], sig, sw, tc) \in BOOLEAN
    BY DEF CancelApproachOccupied
  <2>3. sig' = [sig EXCEPT ![d[1]] =
                   UpdateCommand(@, d[2], d[3], CancelApproachOccupied(d[1], sig, sw, tc), 1)]
    BY <1>2 DEF SignalDemand
  <2>4. CASE d[1] # a
    BY <1>0, <2>3, <2>4
  <2>5. CASE d[1] = a
    <3>1. \A req \in Directions, fleet, occupied \in BOOLEAN :
             LET out == UpdateCommand(sig[a], req, fleet, occupied, 1)
             IN out.stickDropped => out.active = "STOP"
      BY <1>0, StickFacts
    <3>2. sig'[a] = UpdateCommand(sig[a], d[2], d[3], CancelApproachOccupied(d[1], sig, sw, tc), 1)
      BY <1>0, <2>3, <2>5
    <3> QED
      BY <2>1, <2>2, <3>1, <3>2
  <2> QED
    BY <2>4, <2>5
<1>3. ASSUME NEW b \in Authorities, ReleaseTimeRuns(b)
      PROVE  sig'[a].stickDropped => sig'[a].active = "STOP"
  BY <1>0, <1>3 DEF ReleaseTimeRuns, SignalState
<1>4. CASE ScanBegin
  <2>1. sig'[a] = EvaluateSignal(sig[a], PlantClear(a, tc', line'), sig[a].timer = 0)
    BY <1>4 DEF ScanBegin
  <2>2. PlantClear(a, tc', line') \in BOOLEAN /\ (sig[a].timer = 0) \in BOOLEAN
    BY DEF PlantClear
  <2>3. \A clear, expired \in BOOLEAN :
           LET out == EvaluateSignal(sig[a], clear, expired)
           IN out.stickDropped => out.active = "STOP"
    BY <1>0, StickFacts
  <2> QED
    BY <2>1, <2>2, <2>3
<1>5. ASSUME NEW i \in Routes, AcceptTrain(i)
      PROVE  sig'[a].stickDropped => sig'[a].active = "STOP"
  <2>1. sig' = [sig EXCEPT ![Table[i].authority] = Knockdown(@)]
    BY <1>5 DEF AcceptTrain
  <2>2. Knockdown(sig[a]).stickDropped => Knockdown(sig[a]).active = "STOP"
    BY <1>0, StickFacts
  <2>3. sig'[a] = sig[a] \/ sig'[a] = Knockdown(sig[a])
    BY <1>0, <2>1
  <2> QED
    BY <1>0, <2>2, <2>3
<1>6. \/ UNCHANGED sig \/ ScanBegin
      \/ \E d \in Demands : SignalDemand(d[1], d[2], d[3])
      \/ \E b \in Authorities : ReleaseTimeRuns(b)
      \/ \E i \in Routes : AcceptTrain(i)
  BY DEF Next, ScanStep, Report, Timeout, Control, ExamineRoute, TrackReport, TrackTouch,
         LineReport, LineTouch, PointsReport, DropoutPasses, SourceFallsSilent,
         TravelOverruns, SwitchDemand, LockDemand, PassOver, ContinueTraversal,
         EngineReturn, HoldAtStop, ClearRoute, ScanEnd, vars
<1> QED
  BY <1>1, <1>2, <1>3, <1>4, <1>5, <1>6

-----------------------------------------------------------------------------
(* The steps of a scan.                                                    *)

\* A scan that begins finds the trains that are under way, and those that have
\* come to the entrance of a displayed route.
LEMMA TrainsFound ==
    ASSUME OrderlyTable, PlantInv, TrainInv, ScanBegin, NEW i \in underway'
    PROVE  Table[i].mast # None /\ ~Scanned(i)' /\ TrainSeen(i)'
PROOF
<1>0. /\ i \in Routes /\ Idle = Len(Table) + 2 /\ Len(Table) \in Nat /\ i \in 1 .. Len(Table)
      /\ next = Idle /\ next' = 1 /\ route' = route
  BY TableTypes DEF ScanBegin, Idle
<1>1. ~Scanned(i)' /\ Scanned(i)
  BY <1>0 DEF Scanned
<1>2. CASE route[i] = "CLEARED" /\ EntranceShunted(i, tc') /\ AuthorityHeld(i, sig)
  <2>1. Table[i].mast # None
    BY <1>0, <1>2 DEF PlantInv, DarkNotCleared
  <2>2. ~Table[i].automatic
    BY <1>0, <1>2, TableTypes DEF EntranceShunted
  <2>3. /\ Table[i].authority \in Authorities /\ Table[i].authority # None
        /\ sig[Table[i].authority].active = Table[i].direction
    BY <1>0, <1>2, <2>2, TableTypes DEF AuthorityHeld
  <2> DEFINE a == Table[i].authority
  <2>4. sig'[a] = EvaluateSignal(sig[a], PlantClear(a, tc', line'), sig[a].timer = 0)
    BY <2>3 DEF ScanBegin
  <2>5. PlantClear(a, tc', line') \in BOOLEAN /\ (sig[a].timer = 0) \in BOOLEAN
    BY DEF PlantClear
  <2>6. sig[a] \in SignalState({0, 1}) /\ (sig[a].stickDropped => sig[a].active = "STOP")
    BY <2>3 DEF PlantInv, TypeOK, TrainInv, StickAtStop
  <2>7. sig[a].active # "STOP"
    BY <1>0, <2>3, TableTypes
  <2> HIDE DEF a
  <2>8. sig'[a].active = sig[a].active
    <3>1. \A clear, expired \in BOOLEAN :
             EvaluateSignal(sig[a], clear, expired).active = sig[a].active
      BY <2>6, <2>7, StickFacts
    <3> QED
      BY <2>4, <2>5, <3>1
  <2>9. /\ route'[i] = "CLEARED" /\ EntranceShunted(i, tc')
        /\ sig'[a].active = Table[i].direction
    BY <1>0, <1>2, <2>3, <2>8 DEF a
  <2>10. TrainSeen(i)'
    BY <2>3, <2>9 DEF TrainSeen, EntranceShunted, a
  <2> QED
    BY <1>1, <2>1, <2>10
<1>3. CASE i \in underway /\ (~BlocksClear(i, tc') \/ EntranceShunted(i, tc'))
  <2>1. Table[i].mast # None /\ route[i] = "TRAVERSING"
    BY <1>1, <1>3 DEF TrainInv, TrainLocked
  <2>2. EntranceShunted(i, tc') => ~BlocksClear(i, tc')
    BY <1>0 DEF OrderlyTable, EntranceShunted, BlocksClear
  <2> QED
    BY <1>0, <1>1, <1>3, <2>1, <2>2 DEF TrainSeen, BlocksClear
<1> QED
  BY <1>0, <1>2, <1>3 DEF ScanBegin

\* The step over the route of a train locks what the train has not cleared.
LEMMA TrainTaken ==
    ASSUME OrderlyTable, TypeOK, NEW i \in Routes, ExamineRoute(i),
           Table[i].mast # None, TrainSeen(i)
    PROVE  TrainLocked(i)'
PROOF
<1>0. /\ locks \in [Switches -> SUBSET LockKinds] /\ "ROUTE" \in LockKinds
      /\ route \in [Routes -> {"IDLE", "CLEARED", "TRAVERSING"}]
      /\ section \in [Routes -> [Switches -> {"LOCKED", "OCCUPIED", "RELEASED"}]]
      /\ Governed(i) \subseteq Switches
  BY TableTypes DEF TypeOK, LockKinds
<1>1. ASSUME NEW sections, SetSection(i, sections), LockRoute(i, Unreleased(i, sections)),
             route'[i] = "TRAVERSING"
      PROVE  TrainLocked(i)'
  <2>1. section'[i] = sections
    BY <1>0, <1>1 DEF SetSection
  <2>2. \A s \in Switches \cap Unreleased(i, sections) : "ROUTE" \in locks'[s]
    BY <1>0, <1>1, AddLockFacts DEF LockRoute
  <2> QED
    BY <1>0, <1>1, <2>1, <2>2 DEF TrainLocked, Unreleased, Governed
<1>2. CASE route[i] = "TRAVERSING" /\ ~BlocksClear(i, tc)
  <2>1. ContinueTraversal(i)
    BY <1>2 DEF ExamineRoute, PassOver, EngineReturn, HoldAtStop, AcceptTrain, ClearRoute,
                Standard, Traversing
  <2> QED
    BY <1>1, <1>2, <2>1 DEF ContinueTraversal
<1>3. CASE /\ route[i] = "CLEARED" /\ EntranceShunted(i, tc)
           /\ Table[i].authority # None
           /\ sig[Table[i].authority].active = Table[i].direction
  <2>1. ~Traversing(i) /\ AuthorityHeld(i, sig) /\ ~EngineReturnHolds(i, sw, tc)
    BY <1>3 DEF Traversing, AuthorityHeld, EngineReturnHolds, OrderlyTable
  <2>2. AcceptTrain(i)
    BY <1>3, <2>1 DEF ExamineRoute, PassOver, ContinueTraversal, EngineReturn, HoldAtStop,
                      ClearRoute, Standard
  <2>3. route'[i] = "TRAVERSING"
    BY <1>0, <2>2 DEF AcceptTrain, SetRoute
  <2> QED
    BY <1>1, <2>2, <2>3 DEF AcceptTrain
<1> QED
  BY <1>2, <1>3 DEF TrainSeen

\* The step over another route leaves the train to be found: the lever is not
\* knocked down for a route that it does not belong to.
LEMMA TrainStillSeen ==
    ASSUME OrderlyTable, TypeOK, NEW i \in Routes, NEW j \in Routes, i # j,
           ExamineRoute(j), Table[i].mast # None, TrainSeen(i)
    PROVE  TrainSeen(i)'
PROOF
<1>0. tc' = tc /\ route'[i] = route[i] /\ sig \in [Authorities -> SignalState({0, 1})]
  BY WithinScan DEF inputs, TypeOK
<1>1. CASE UNCHANGED sig
  BY <1>0, <1>1 DEF TrainSeen, EntranceShunted, BlocksClear
<1>2. CASE AcceptTrain(j)
  <2>1. /\ sig' = [sig EXCEPT ![Table[j].authority] = Knockdown(@)]
        /\ AuthorityHeld(j, sig) /\ EntranceShunted(j, tc) /\ Table[j].mast # None
    BY <1>2 DEF AcceptTrain, Standard, Examines
  <2>2. ~Table[j].automatic /\ Accepting(j)
        /\ sig[Table[j].authority].active = Table[j].direction
    BY <2>1, TableTypes DEF AuthorityHeld, EntranceShunted, Accepting
  <2>3. ASSUME EntranceShunted(i, tc), Table[i].authority # None,
               sig[Table[i].authority].active = Table[i].direction
        PROVE  sig'[Table[i].authority] = sig[Table[i].authority]
    <3>1. Accepting(i)
      BY <2>3 DEF Accepting, EntranceShunted
    <3>2. Table[i].authority # Table[j].authority
      BY <2>2, <2>3, <3>1 DEF OrderlyTable
    <3> QED
      BY <2>1, <3>2, <1>0, <2>3, TableTypes
  <2> QED
    BY <1>0, <2>3 DEF TrainSeen, EntranceShunted, BlocksClear
<1> QED
  BY <1>1, <1>2 DEF ExamineRoute, PassOver, ContinueTraversal, EngineReturn, HoldAtStop,
                    ClearRoute

\* A route that has its train keeps it, and its locks, until the next scan.
LEMMA TrainStays ==
    ASSUME TypeOK, [Next]_vars, ~ScanBegin, NEW i \in Routes, ~ExamineRoute(i), TrainLocked(i)
    PROVE  TrainLocked(i)'
PROOF
<1>1. route'[i] = route[i] /\ section'[i] = section[i]
  <2>1. CASE Report \/ Timeout \/ Control \/ ScanEnd \/ UNCHANGED vars
    BY <2>1 DEF Report, TrackReport, TrackTouch, LineReport, LineTouch, PointsReport,
                Timeout, DropoutPasses, SourceFallsSilent, TravelOverruns, ReleaseTimeRuns,
                Control, SwitchDemand, SignalDemand, LockDemand, ScanEnd, vars, engine
  <2>2. ASSUME NEW j \in Routes, ExamineRoute(j), i # j
        PROVE  route'[i] = route[i] /\ section'[i] = section[i]
    BY <2>2, WithinScan DEF ExamineRoute, PassOver, ContinueTraversal, EngineReturn,
                            HoldAtStop, AcceptTrain, ClearRoute, SetSection, TypeOK
  <2> QED
    BY <2>1, <2>2 DEF Next, ScanStep
<1>2. \A s \in Governed(i) : "ROUTE" \in locks[s] => "ROUTE" \in locks'[s]
  BY LocksLast, TableTypes
<1> QED
  BY <1>1, <1>2 DEF TrainLocked, Governed

\* Which routes have a train is decided when a scan begins, and only then.
LEMMA UnderwayStep ==
    ASSUME TypeOK, [Next]_vars, ~ScanBegin
    PROVE  UNCHANGED underway
PROOF
  BY WithinScan
     DEF Next, ScanStep, Report, TrackReport, TrackTouch, LineReport, LineTouch, PointsReport,
         Timeout, DropoutPasses, SourceFallsSilent, TravelOverruns, ReleaseTimeRuns,
         Control, SwitchDemand, SignalDemand, LockDemand, ScanEnd, vars, history

LEMMA TrainStep == OrderlyTable /\ PlantInv /\ TrainInv /\ [Next]_vars => TrainInv'
PROOF
<1> SUFFICES ASSUME OrderlyTable, PlantInv, TrainInv, [Next]_vars PROVE TrainInv'
  OBVIOUS
<1>0. TypeOK /\ StickAtStop'
  BY StickStep DEF PlantInv, TrainInv
<1>1. CASE ScanBegin
  BY <1>0, <1>1, TrainsFound DEF TrainInv
<1>2. CASE ~ScanBegin
  <2> SUFFICES ASSUME NEW i \in underway'
               PROVE  /\ Table[i].mast # None
                      /\ Scanned(i)' => TrainLocked(i)'
                      /\ ~Scanned(i)' => TrainSeen(i)'
    BY <1>0 DEF TrainInv
  <2>0. i \in underway /\ i \in Routes /\ i \in Nat /\ Table[i].mast # None
    <3>1. underway' = underway /\ underway \subseteq Routes
      BY <1>0, <1>2, UnderwayStep DEF TypeOK
    <3>2. Routes = 1 .. Len(Table) /\ Len(Table) \in Nat
      BY TableTypes
    <3>3. \A j \in underway : Table[j].mast # None
      BY DEF TrainInv
    <3> QED
      BY <3>1, <3>2, <3>3
  <2>1. CASE ExamineRoute(i)
    <3>1. next = i /\ next' = i + 1
      BY <1>0, <2>0, <2>1, WithinScan
    <3>2. ~Scanned(i) /\ Scanned(i)'
      BY <2>0, <3>1 DEF Scanned
    <3> QED
      BY <1>0, <2>0, <2>1, <3>2, TrainTaken DEF TrainInv
  <2>2. CASE ~ExamineRoute(i) /\ Scanned(i)
    <3>1. TrainLocked(i)'
      BY <1>0, <1>2, <2>0, <2>2, TrainStays DEF TrainInv
    <3>2. Scanned(i)'
      <4>1. next \in 1 .. Idle /\ Len(Table) \in Nat /\ Idle = Len(Table) + 2
            /\ i \in 1 .. Len(Table)
        BY <1>0, <2>0, TableTypes DEF TypeOK, Idle
      <4>2. next' = next \/ next' = next + 1 \/ next' = Idle
        BY <1>0, <1>2, BetweenScans, WithinScan DEF Next, ScanStep, ScanEnd, vars, engine
      <4> QED
        BY <2>2, <4>1, <4>2 DEF Scanned
    <3> QED
      BY <2>0, <3>1, <3>2
  <2>3. CASE ~ExamineRoute(i) /\ ~Scanned(i)
    <3>1. next \in 1 .. Idle /\ Len(Table) \in Nat /\ Idle = Len(Table) + 2
          /\ i \in 1 .. Len(Table) /\ next <= i
      BY <1>0, <2>0, <2>3, TableTypes DEF TypeOK, Idle, Scanned
    <3>2. CASE UNCHANGED vars
      <4>1. tc' = tc /\ route' = route /\ sig' = sig /\ next' = next
        BY <3>2 DEF vars, inputs, engine
      <4>2. TrainSeen(i)
        BY <2>0, <2>3 DEF TrainInv
      <4>3. TrainSeen(i)' /\ ~Scanned(i)'
        BY <2>3, <4>1, <4>2 DEF TrainSeen, EntranceShunted, BlocksClear, Scanned
      <4> QED
        BY <2>0, <4>3
    <3>3. ASSUME NEW j \in Routes, ExamineRoute(j)
          PROVE  ~Scanned(i)' /\ TrainSeen(i)'
      <4>1. next = j /\ next' = j + 1 /\ j # i
        BY <1>0, <2>3, <3>3, WithinScan
      <4>2. ~Scanned(i)'
        BY <3>1, <4>1 DEF Scanned
      <4> QED
        BY <1>0, <2>0, <2>3, <3>3, <4>1, <4>2, TrainStillSeen DEF TrainInv
    <3>4. ~Report /\ ~Timeout /\ ~Control /\ ~ScanEnd
      BY <3>1, BetweenScans DEF ScanEnd
    <3> QED
      BY <1>2, <2>0, <3>2, <3>3, <3>4 DEF Next, ScanStep
  <2> QED
    BY <2>1, <2>2, <2>3
<1> QED
  BY <1>1, <1>2

LEMMA TrainInit == Init => TrainInv
PROOF
  BY DEF Init, TrainInv, StickAtStop, SignalAtRest

\* In an orderly table, from the scan that sees a train enter a displayed route
\* until it has left the route's blocks, every switch that it has not cleared
\* is route locked: the train is attributed to the route it was signalled over
\* (InterlockingEngine::evaluate).  Run christopher shows what happens where one
\* lever has two routes in one direction.
THEOREM TrainKeepsRoute ==
    ASSUME OrderlyTable
    PROVE  Spec => []TrainHoldsRoute
PROOF
<1>1. PlantInv /\ TrainInv /\ [Next]_vars => TrainInv'
  BY TrainStep
<1>2. PlantInv /\ TrainInv => TrainHoldsRoute
  <2> SUFFICES ASSUME PlantInv, TrainInv, next = Idle, NEW i \in underway
               PROVE  \A s \in Governed(i) : section[i][s] # "RELEASED" => "ROUTE" \in locks[s]
    BY DEF TrainHoldsRoute
  <2>1. i \in 1 .. Len(Table) /\ Len(Table) \in Nat
    BY TableTypes DEF PlantInv, TypeOK
  <2>2. Scanned(i)
    BY <2>1 DEF Scanned, Idle
  <2> QED
    BY <2>2 DEF TrainInv, TrainLocked
<1> QED
  BY <1>1, <1>2, TrainInit, LockingInvariant, PTL DEF Spec
===============================================================================
