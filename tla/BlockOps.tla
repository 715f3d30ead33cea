------------------------------ MODULE BlockOps ------------------------------
(***************************************************************************)
(* The signals of a single-track block: AutomaticSignal, ControlPointLine  *)
(* and the routes of the control points at its ends, as operators of a     *)
(* plant p (the configuration) and a view v (what the relays read now).    *)
(*                                                                         *)
(* A plant has                                                             *)
(*   signals     per automatic signal: governs and approach (circuits), h  *)
(*               and d (the facts it reads, or None) and opposing          *)
(*   lines       per control point line: governs and block (circuits),     *)
(*               leaving (masts), home (a mast), tumbleDown, traffic and   *)
(*               release                                                   *)
(*   routes      per controlled route: authority, direction, mast, blocks, *)
(*               entrance, approach (or None), home (facts), proceed       *)
(* and the orders in which a scan visits its levers, signals and lines.    *)
(* A view has the circuits that are clear, the levers (sig), the sticks    *)
(* that are up (sr), the signals whose HR was up when the last scan ended  *)
(* (hr), what the lines latched (cleared, home, dropped), the routes a     *)
(* train traverses, and what the masts show.                               *)
(*                                                                         *)
(* Blocks are circuits and ceilings are Clear, as in the block of the      *)
(* conformance test; a fact is an H, D or F output of a signal or line.    *)
(***************************************************************************)
EXTENDS SignalControlOps, SequencesExt

CONSTANT None  \* nullptr

Out(name, wire) == [from |-> name, wire |-> wire]

Aspects == {"STOP", "APPROACH", "CLEAR"}
MorePermissive(x, y) == CASE x = "STOP" -> y [] y = "STOP" -> x
                          [] x = "CLEAR" -> x [] OTHER -> y

Occupied(v, c) == c # None /\ c \notin v.clear

-----------------------------------------------------------------------------
(* ControlPointLine: the ports and the outputs.                            *)

RoutesOf(p, mast) == {r \in DOMAIN p.routes : p.routes[r].mast = mast}
LeavingRoutes(p, l) == UNION {RoutesOf(p, m) : m \in p.lines[l].leaving}
Authority(p, r) == p.routes[r].authority

\* routeHeld(): a leaving control is held, whatever its signal shows.
Requested(p, v, l) == \E r \in LeavingRoutes(p, l) :
    v.sig[Authority(p, r)].commanded = p.routes[r].direction

\* controlInTime(): a leaving control runs time.
InTime(p, v, l) == \E r \in LeavingRoutes(p, l) : v.sig[Authority(p, r)].timeLock

\* Mutant: a signal that is cleared cuts nothing.
CutInTime(p, v, l) == InTime(p, v, l)

Cut(p, v, l) ==
    IF p.lines[l].tumbleDown = "CLEARED" THEN l \in v.cleared ELSE Requested(p, v, l)

\* Mutant: the circuits next to the control point are not looked at.
LineHUngoverned(p, v, l) == ~InTime(p, v, l) /\ ~Cut(p, v, l)

LineH(p, v, l) == p.lines[l].governs \subseteq v.clear /\ ~InTime(p, v, l) /\ ~Cut(p, v, l)
LineD(v, l) == l \in v.home

ProducesF(p, l) == p.lines[l].traffic # "HD_CHAIN"
LineF(p, v, l) ==
    /\ ProducesF(p, l) /\ l \notin v.dropped
    /\ ~Requested(p, v, l) /\ l \notin v.cleared /\ ~InTime(p, v, l)

\* Mutant: the traffic is released although the block is occupied.
ReleaseSatisfiedOccupied(p, v, l) == l \notin v.cleared /\ ~InTime(p, v, l)

ReleaseSatisfied(p, v, l) ==
    /\ p.lines[l].block \subseteq v.clear /\ ~InTime(p, v, l)
    /\ IF p.lines[l].release = "BLOCK_CLEAR" THEN l \notin v.cleared
       ELSE ~Requested(p, v, l)

-----------------------------------------------------------------------------
(* AutomaticSignal: the outputs, each computed when it is read.            *)

\* OpposingCut: the opposing signal's HR and SR are down.
Uncut(p, v, a) ==
    LET o == p.signals[a].opposing IN o = None \/ (o \notin v.hr /\ o \notin v.sr)

Facts(p) == {Out(n, w) : n \in DOMAIN p.signals \cup DOMAIN p.lines, w \in {"H", "D", "F"}}

\* asserted() of every fact, with the signals that are being computed (busy_):
\* one that is asked again reads released.
Asserts(p, v) ==
    LET heard[q \in Facts(p) \X SUBSET DOMAIN p.signals] ==
            LET n == q[1].from
                on(fact) == fact = None \/ heard[<<fact, q[2] \cup {n}>>]
            IN IF n \in DOMAIN p.lines
               THEN CASE q[1].wire = "H" -> LineH(p, v, n)
                      [] q[1].wire = "D" -> LineD(v, n)
                      [] OTHER -> LineF(p, v, n)
               ELSE /\ n \notin q[2]
                    /\ IF q[1].wire = "H"
                       THEN /\ p.signals[n].approach \subseteq v.clear
                            /\ on(p.signals[n].h) \/ n \in v.sr
                       ELSE /\ p.signals[n].governs \subseteq v.clear
                            /\ on(p.signals[n].h) /\ Uncut(p, v, n)
    IN heard

On(p, v, fact) == fact = None \/ Asserts(p, v)[<<fact, {}>>]
HR(p, v, a) == On(p, v, Out(a, "D"))

\* Mutant: the block behind the signal must be clear too.
AutomaticIndicationBothBlocks(p, v, a) ==
    IF /\ p.signals[a].governs \cup p.signals[a].approach \subseteq v.clear
       /\ On(p, v, p.signals[a].h) /\ Uncut(p, v, a)
    THEN "CLEAR" ELSE "STOP"

\* The route equation of an automatic signal.
AutomaticIndication(p, v, a) ==
    IF /\ p.signals[a].governs \subseteq v.clear
       /\ On(p, v, p.signals[a].h) /\ Uncut(p, v, a)
    THEN IF On(p, v, p.signals[a].d) THEN "CLEAR" ELSE "APPROACH"
    ELSE "STOP"

-----------------------------------------------------------------------------
(* The controlled routes.                                                  *)

RouteClear(p, v, r) ==
    /\ p.routes[r].blocks \subseteq v.clear
    /\ \A fact \in p.routes[r].home : On(p, v, fact)

HeldFor(p, v, r) == v.sig[Authority(p, r)].active = p.routes[r].direction

RouteIndication(p, v, r) ==
    IF ~HeldFor(p, v, r) \/ ~RouteClear(p, v, r) THEN "STOP"
    ELSE IF Occupied(v, p.routes[r].approach) \/ ~On(p, v, p.routes[r].proceed)
    THEN "APPROACH"
    ELSE "CLEAR"

\* evaluateMastIndication() above the Restricting tier.
MastProceed(p, v, mast) ==
    \E r \in RoutesOf(p, mast) : /\ ~Occupied(v, p.routes[r].entrance)
                                 /\ RouteIndication(p, v, r) # "STOP"

-----------------------------------------------------------------------------
(* The parts of evaluateVitalRules(), each from view to view.              *)

\* C. The levers, in order: the next one reads what this one did.
LeverEvaluated(p, v, l) ==
    LET clear == \A r \in DOMAIN p.routes :
            Authority(p, r) = l /\ v.sig[l].commanded = p.routes[r].direction
            => RouteClear(p, v, r)
    IN [v EXCEPT !.sig[l] = EvaluateSignal(@, clear, @.timer = 0)]

\* Mutant: the stick is never released.
StickUpdatedForGood(p, v, a) ==
    IF a \in v.hr /\ ~(p.signals[a].governs \subseteq v.clear)
    THEN [v EXCEPT !.sr = @ \cup {a}] ELSE v

\* D. The sticks, in order: the next one reads this one.
StickUpdated(p, v, a) ==
    IF a \in v.hr /\ ~(p.signals[a].governs \subseteq v.clear)
    THEN [v EXCEPT !.sr = @ \cup {a}]
    ELSE IF On(p, v, p.signals[a].h) THEN [v EXCEPT !.sr = @ \ {a}] ELSE v

\* E. A controlled route: the train on it goes on, the signal is taken away by
\* the train that enters, or the route equation is displayed.
RouteExamined(p, v, r) ==
    LET m == p.routes[r].mast
        clear == p.routes[r].blocks \subseteq v.clear
        shown == RouteIndication(p, v, r)
    IN IF r \in v.traversing /\ ~clear THEN v
       ELSE IF ~HeldFor(p, v, r) THEN [v EXCEPT !.traversing = @ \ {r}]
       ELSE IF Occupied(v, p.routes[r].entrance)
       THEN [v EXCEPT !.sig[Authority(p, r)] = Knockdown(@), !.traversing = @ \cup {r}]
       ELSE [v EXCEPT !.traversing = @ \ {r}, !.mast[m] = MorePermissive(@, shown)]

AutomaticExamined(p, v, a) == [v EXCEPT !.mast[a] = AutomaticIndication(p, v, a)]

\* Mutant: the HR that was up once is remembered for good.
HRLatchedForGood(p, v, a) == IF HR(p, v, a) THEN [v EXCEPT !.hr = @ \cup {a}] ELSE v

\* F. The signals' HR, then the lines, in order.
HRLatched(p, v, a) ==
    [v EXCEPT !.hr = IF HR(p, v, a) THEN @ \cup {a} ELSE @ \ {a}]

\* Mutant: the masts are latched, not the line.
PortsLatchedMasts(p, v, l) ==
    [v EXCEPT !.cleared = {m \in p.lines[l].leaving : MastProceed(p, v, m)}]

PortsLatched(p, v, l) ==
    LET set(on, S) == IF on THEN S \cup {l} ELSE S \ {l}
        down == [v EXCEPT !.cleared = @ \ {l}]
    IN [v EXCEPT !.cleared = set(\E m \in p.lines[l].leaving : MastProceed(p, down, m), @)]

LineLatched(p, v, l) ==
    [v EXCEPT
        !.home = IF MastProceed(p, v, p.lines[l].home) THEN @ \cup {l} ELSE @ \ {l},
        !.dropped =
            CASE ProducesF(p, l) /\ (Requested(p, v, l) \/ l \in v.cleared \/ InTime(p, v, l))
                   -> @ \cup {l}
              [] ProducesF(p, l) /\ ~ReleaseSatisfied(p, v, l)
                 /\ ~(Requested(p, v, l) \/ l \in v.cleared \/ InTime(p, v, l)) -> @
              [] OTHER -> @ \ {l}]

\* A part is a loop over its table, from the view that the last entry left.
InOrder(Op(_, _), v, seq) ==
    LET after[i \in 0 .. Len(seq)] == IF i = 0 THEN v ELSE Op(after[i - 1], seq[i])
    IN after[Len(seq)]

LeversEvaluated(p, v) == InOrder(LAMBDA w, l : LeverEvaluated(p, w, l), v, p.leverOrder)
SticksUpdated(p, v) == InOrder(LAMBDA w, a : StickUpdated(p, w, a), v, p.signalOrder)
RoutesExamined(p, v) ==
    InOrder(LAMBDA w, r : RouteExamined(p, w, r),
            [v EXCEPT !.mast = [m \in DOMAIN v.mast |-> "STOP"]], p.routeOrder)
AutomaticsExamined(p, v) ==
    InOrder(LAMBDA w, a : AutomaticExamined(p, w, a), v, p.signalOrder)
HRsLatched(p, v) == InOrder(LAMBDA w, a : HRLatched(p, w, a), v, p.signalOrder)
LinesLatched(p, v) ==
    InOrder(LAMBDA w, l : LineLatched(p, PortsLatched(p, w, l), l), v, p.lineOrder)

\* evaluateVitalRules() on the circuits as they are sampled now.
Scanned(p, v, clear) ==
    LET levers == LeversEvaluated(p, [v EXCEPT !.clear = clear])
        sticks == SticksUpdated(p, levers)
        shown  == AutomaticsExamined(p, RoutesExamined(p, sticks))
    IN LinesLatched(p, HRsLatched(p, shown))
=============================================================================
