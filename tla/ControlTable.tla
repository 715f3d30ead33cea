---------------------------- MODULE ControlTable ----------------------------
(***************************************************************************)
(* The control table of an interlocking: one record per route, in priority *)
(* order, and the route equation as operators over the plant's inputs.     *)
(*                                                                         *)
(* A route record has                                                      *)
(*   authority, direction   governedBy(); authority is None for an engine  *)
(*                          return or an automatic signal without one      *)
(*   mast, ceiling          displays()                                     *)
(*   aligns                 aligns(): a function from the route's switches *)
(*                          to the positions they must have                *)
(*   release                the releasing circuit named with each switch,  *)
(*                          or None                                        *)
(*   blocks, entrance       clears() and entranceBlock(), which is the     *)
(*                          first block when entrance() names none         *)
(*   approach               approaching(), or None                         *)
(*   home, proceed          the line inputs of the HR and DR terms         *)
(*   engineReturn, origin, os                                              *)
(*   automatic, incomplete                                                 *)
(***************************************************************************)
EXTENDS SwitchOps, CircuitOps, Sequences

CONSTANTS
    Circuits,     \* track circuits
    Lines,        \* line inputs
    Authorities,  \* signal controls
    Masts,        \* signal masts
    Table,        \* the sequence of route records
    Detectors,    \* per switch: its detector circuits in binding order
    None          \* nullptr

Routes == DOMAIN Table
Governed(i) == DOMAIN Table[i].aligns

Rank == [STOP |-> 0,
         RESTRICTING |-> 1, DIVERGING_RESTRICTING |-> 1, APPROACH_RESTRICTING |-> 1,
         SLOW_APPROACH |-> 2, APPROACH_SLOW |-> 2,
         SLOW_CLEAR |-> 3,
         APPROACH |-> 4, DIVERGING_APPROACH |-> 4, MEDIUM_APPROACH |-> 4,
         APPROACH_MEDIUM |-> 4, APPROACH_DIVERGING |-> 4,
         ADVANCE_APPROACH |-> 5,
         DIVERGING_CLEAR |-> 6, MEDIUM_CLEAR |-> 6,
         CAB_SPEED |-> 7,
         CLEAR |-> 8]

Indications == DOMAIN Rank

ASSUME TableAssumption ==
    /\ None \notin Circuits \cup Lines \cup Authorities \cup Masts
    /\ Table \in Seq([authority : Authorities \cup {None},
                      direction : {"LEFT", "RIGHT"},
                      mast : Masts \cup {None},
                      ceiling : Indications \ {"STOP"},
                      aligns : UNION {[S -> Targets] : S \in SUBSET Switches},
                      release : [Switches -> Circuits \cup {None}],
                      blocks : SUBSET Circuits,
                      entrance : Circuits \cup {None},
                      approach : Circuits \cup {None},
                      home : SUBSET Lines,
                      proceed : Lines \cup {None},
                      engineReturn : BOOLEAN,
                      origin : Circuits \cup {None},
                      os : Circuits \cup {None},
                      automatic : BOOLEAN,
                      incomplete : BOOLEAN])
    /\ Detectors \in [Switches -> Seq(Circuits)]
    \* knockdown() is called on the authority of every route with an entrance.
    /\ \A i \in DOMAIN Table : Table[i].automatic => Table[i].entrance = None

MostPermissive(lhs, rhs) == IF Rank[lhs] >= Rank[rhs] THEN lhs ELSE rhs

ReduceForOccupiedApproach(ind) ==
    CASE ind = "CLEAR" -> "APPROACH"
      [] ind = "DIVERGING_CLEAR" -> "DIVERGING_APPROACH"
      [] ind = "MEDIUM_CLEAR" -> "MEDIUM_APPROACH"
      [] ind = "SLOW_CLEAR" -> "SLOW_APPROACH"
      [] OTHER -> ind

-----------------------------------------------------------------------------
\* Mutant: the reported position is enough, corresponding or not.
SwitchesAlignedReported(i, sw) ==
    \A s \in Governed(i) : sw[s].reported = Table[i].aligns[s]

SwitchesAligned(i, sw) ==
    \A s \in Governed(i) : /\ InCorrespondence(sw, s)
                           /\ sw[s].reported = Table[i].aligns[s]

BlocksClear(i, tc) == \A c \in Table[i].blocks : IsClear(tc[c])
HomeFacts(i, line) == \A l \in Table[i].home : Asserted(line[l])

EntranceShunted(i, tc) ==
    Table[i].entrance # None /\ ~IsClear(tc[Table[i].entrance])

ApproachOccupied(i, tc) ==
    Table[i].approach # None /\ ~IsClear(tc[Table[i].approach])

\* Mutant: a lever cleared in either direction.
AuthorityHeldAnyway(i, sig) ==
    Table[i].automatic \/ (/\ Table[i].authority # None
                           /\ sig[Table[i].authority].active # "STOP")

\* The authority holds the route's direction; an automatic signal has no term.
AuthorityHeld(i, sig) ==
    \/ Table[i].automatic
    \/ /\ Table[i].authority # None
       /\ sig[Table[i].authority].active = Table[i].direction

\* evaluateIndication(): the least permissive of seven terms.  Each is Stop or
\* the ceiling, but the approach and proceed terms, which reduce the ceiling.
EvaluateIndication(i, sw, tc, line, sig) ==
    IF \/ Table[i].incomplete
       \/ ~AuthorityHeld(i, sig)
       \/ ~SwitchesAligned(i, sw)
       \/ ~BlocksClear(i, tc)
       \/ ~HomeFacts(i, line)
    THEN "STOP"
    ELSE IF \/ ApproachOccupied(i, tc)
            \/ Table[i].proceed # None /\ ~Asserted(line[Table[i].proceed])
    THEN ReduceForOccupiedApproach(Table[i].ceiling)
    ELSE Table[i].ceiling

\* Mutant: the alignment is not looked at.
EngineReturnHoldsUnaligned(i, sw, tc) ==
    /\ Table[i].engineReturn
    /\ Table[i].origin # None /\ Table[i].os # None
    /\ IsClear(tc[Table[i].os])
    /\ tc[Table[i].origin].value = "OCCUPIED"

\* evaluateEngineReturn(): back onto the cars left standing on the origin.
EngineReturnHolds(i, sw, tc) ==
    /\ Table[i].engineReturn
    /\ Table[i].origin # None /\ Table[i].os # None
    /\ SwitchesAligned(i, sw)
    /\ IsClear(tc[Table[i].os])
    /\ tc[Table[i].origin].value = "OCCUPIED"

\* findDetectorCircuitForSwitch(): its own binding first, else its pair's.  A
\* crossover that a route aligns as one object, which has the circuit of its
\* first switch, is not among the machines of a table.
DetectorCircuit(s) ==
    IF Detectors[s] # <<>> THEN Head(Detectors[s])
    ELSE IF Detectors[Pair[s]] # <<>> THEN Head(Detectors[Pair[s]])
    ELSE None

\* releasingBlock(): named with the switch, else its detector, else the entrance.
ReleasingBlock(i, s) ==
    IF Table[i].release[s] # None THEN Table[i].release[s]
    ELSE IF DetectorCircuit(s) # None THEN DetectorCircuit(s)
    ELSE Table[i].entrance

ReleasingShunted(i, s, tc) ==
    ReleasingBlock(i, s) # None /\ ~IsClear(tc[ReleasingBlock(i, s)])

\* Sectional release: a switch is free once its circuit was shunted and cleared.
AdvanceSection(i, s, section, tc) ==
    CASE section = "LOCKED" /\ ReleasingShunted(i, s, tc) -> "OCCUPIED"
      [] section = "OCCUPIED" /\ ReleasingBlock(i, s) # None
                              /\ ~ReleasingShunted(i, s, tc) -> "RELEASED"
      [] OTHER -> section

\* activeRouteForAuthority(): the first aligned route in the active direction.
ActiveRoutes(a, sig, sw) ==
    {i \in Routes : /\ Table[i].authority = a
                    /\ Table[i].direction = sig[a].active
                    /\ SwitchesAligned(i, sw)}

\* The approachOccupied argument of updateCommand() when a signal is cancelled.
CancelApproachOccupied(a, sig, sw, tc) ==
    \E i \in ActiveRoutes(a, sig, sw) :
        /\ \A j \in ActiveRoutes(a, sig, sw) : i <= j
        /\ ApproachOccupied(i, tc)
=============================================================================
