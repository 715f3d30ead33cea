--------------------------- MODULE BlockScan_proofs ---------------------------
(***************************************************************************)
(* What a scan leaves, for any plant: the loops of evaluateVitalRules()    *)
(* over levers, sticks, routes, automatic signals and lines, and the facts *)
(* that signals read from each other while they are being computed.        *)
(*                                                                         *)
(* There is a lemma for one entry of each table and one for the loop over  *)
(* it.  A loop is followed by counting its entries.                        *)
(***************************************************************************)
EXTENDS Block, FiniteSetTheorems, SequenceTheorems, WellFoundedInduction, TLAPS

-----------------------------------------------------------------------------
(* Loops.                                                                  *)

\* A set of numbers that is not empty has a least one.
LEMMA LeastNumber ==
    ASSUME NEW T, T \subseteq Nat, T # {}
    PROVE  \E x \in T : \A y \in T : x <= y
PROOF
<1>1. PICK x \in T : \A y \in T : ~ (<<y, x>> \in OpToRel(<, Nat))
  BY NatLessThanWellFounded, WFMin
<1>2. \A y \in T : ~ (y < x)
  BY <1>1, Zenon DEF OpToRel
<1> QED
  BY <1>2

\* What holds of 0 and passes from each number to the next holds of all up to n.
LEMMA Counting ==
    ASSUME NEW n \in Nat, NEW G, 0 \in G,
           \A i \in Nat : i < n /\ i \in G => i + 1 \in G
    PROVE  \A i \in 0 .. n : i \in G
PROOF
<1> DEFINE T == {i \in 0 .. n : i \notin G}
<1>1. SUFFICES ASSUME T # {} PROVE FALSE
  OBVIOUS
<1>2. PICK m \in T : \A k \in T : m <= k
  <2>1. T \subseteq Nat
    OBVIOUS
  <2> QED
    BY <1>1, <2>1, LeastNumber
<1>3. m # 0 /\ m \in 0 .. n /\ m \notin G
  BY <1>2
<1>4. m - 1 \in Nat /\ m - 1 < n /\ m - 1 \in 0 .. n
  BY <1>3
<1>5. m - 1 \in G
  BY <1>2, <1>4
<1> QED
  BY <1>3, <1>4, <1>5

\* f is what a loop over s with step g leaves, step by step.
Loops(f, V, S, g, v, s) ==
    /\ f \in [0 .. Len(s) -> V]
    /\ f[0] = v
    /\ \A i \in 1 .. Len(s) :
         /\ i - 1 \in 0 .. Len(s) /\ s[i] \in S /\ f[i - 1] \in V
         /\ f[i] = g[<<f[i - 1], s[i]>>]

\* There is a function that follows the loop.
LEMMA LoopExists ==
    ASSUME NEW V, NEW S, NEW g \in [V \X S -> V], NEW v \in V, NEW s \in Seq(S)
    PROVE  \E f : Loops(f, V, S, g, v, s)
PROOF
<1> DEFINE Loop(f, m) ==
             /\ f \in [0 .. m -> V]
             /\ f[0] = v
             /\ \A i \in 1 .. m : f[i] = g[<<f[i - 1], s[i]>>]
           G == {m \in Nat : m <= Len(s) => \E f : Loop(f, m)}
<1>0. Len(s) \in Nat /\ \A i \in 1 .. Len(s) : s[i] \in S
  BY ElementOfSeq, LenProperties
<1>1. 0 \in G
  <2>1. Loop([i \in 0 .. 0 |-> v], 0)
    OBVIOUS
  <2> QED
    BY <2>1
<1>2. ASSUME NEW m \in Nat, m < Len(s), m \in G
      PROVE  m + 1 \in G
  <2>1. PICK h : Loop(h, m)
    BY <1>2
  <2> DEFINE f == [i \in 0 .. m + 1 |-> IF i = m + 1 THEN g[<<h[m], s[m + 1]>>] ELSE h[i]]
  <2>2. s[m + 1] \in S /\ h[m] \in V
    BY <1>0, <1>2, <2>1
  <2>3. f \in [0 .. m + 1 -> V] /\ f[0] = v
    BY <2>1, <2>2
  <2>4. ASSUME NEW i \in 1 .. m + 1
        PROVE  f[i] = g[<<f[i - 1], s[i]>>]
    <3>1. CASE i = m + 1
      <4>1. i - 1 = m /\ f[m] = h[m] /\ f[m + 1] = g[<<h[m], s[m + 1]>>]
        BY <3>1
      <4> QED
        BY <3>1, <4>1
    <3>2. CASE i # m + 1
      <4>1. i \in 1 .. m /\ i - 1 \in 0 .. m + 1 /\ i - 1 # m + 1
        BY <3>2
      <4> QED
        BY <2>1, <4>1
    <3> QED
      BY <3>1, <3>2
  <2>5. Loop(f, m + 1)
    BY <2>3, <2>4
  <2> HIDE DEF Loop
  <2> QED
    BY <1>2, <2>5
<1>3. Len(s) \in G
  <2>1. \A m \in Nat : m < Len(s) /\ m \in G => m + 1 \in G
    BY <1>2
  <2> HIDE DEF G
  <2>2. \A m \in 0 .. Len(s) : m \in G
    BY <1>0, <1>1, <2>1, Counting
  <2> QED
    BY <1>0, <2>2
<1>4. PICK f : Loop(f, Len(s))
  BY <1>0, <1>3
<1>5. ASSUME NEW i \in 1 .. Len(s)
      PROVE  i - 1 \in 0 .. Len(s) /\ s[i] \in S /\ f[i - 1] \in V
  BY <1>0, <1>4
<1> QED
  BY <1>4, <1>5 DEF Loops

\* Two functions that follow the same loop end alike.
LEMMA LoopIsOne ==
    ASSUME NEW n \in Nat, NEW f, NEW F, F[0] = f[0],
           \A i \in 1 .. n : F[i - 1] = f[i - 1] => F[i] = f[i]
    PROVE  F[n] = f[n]
PROOF
<1> DEFINE G == {i \in Nat : i <= n => F[i] = f[i]}
<1>1. 0 \in G
  OBVIOUS
<1>2. ASSUME NEW i \in Nat, i < n, i \in G
      PROVE  i + 1 \in G
  <2>1. i + 1 \in 1 .. n /\ (i + 1) - 1 = i /\ F[i] = f[i]
    BY <1>2
  <2>2. F[i + 1] = f[i + 1]
    BY <2>1
  <2> QED
    BY <2>2
<1>3. \A i \in Nat : i < n /\ i \in G => i + 1 \in G
  BY <1>2
<1> HIDE DEF G
<1>4. \A i \in 0 .. n : i \in G
  BY <1>1, <1>3, Counting
<1>5. n \in G
  BY <1>4
<1> QED
  BY <1>5 DEF G

-----------------------------------------------------------------------------
(* The parts of a scan, one by one.                                        *)

\* SignalControl evaluates one lever: the view stays one.
LEMMA LeverType ==
    ASSUME NEW p, NEW v \in View(p), NEW l \in Levers
    PROVE  LeverEvaluated(p, v, l) \in View(p)
PROOF
<1>1. v.sig[l] \in SignalState({0, 1})
  BY DEF View
<1>2. ASSUME NEW c \in BOOLEAN, NEW e \in BOOLEAN
      PROVE  EvaluateSignal(v.sig[l], c, e) \in SignalState({0, 1})
  BY <1>1 DEF EvaluateSignal, SignalState, Directions
<1> QED
  BY <1>2 DEF LeverEvaluated, View

\* AutomaticSignal updates its stick: the view stays one.
LEMMA StickType ==
    ASSUME NEW p, NEW v \in View(p), NEW a \in DOMAIN p.signals
    PROVE  StickUpdated(p, v, a) \in View(p)
  BY DEF StickUpdated, View

\* All masts are put to Stop before the routes are examined.
LEMMA DarkType ==
    ASSUME NEW p, NEW v \in View(p)
    PROVE  [v EXCEPT !.mast = [m \in DOMAIN v.mast |-> "STOP"]] \in View(p)
  BY DEF View, Aspects

\* A controlled route is examined: the view stays one.
LEMMA RouteType ==
    ASSUME NEW p, WellFormed(p), NEW v \in View(p), NEW r \in DOMAIN p.routes
    PROVE  RouteExamined(p, v, r) \in View(p)
PROOF
<1>1. Authority(p, r) \in Levers /\ p.routes[r].mast \in p.masts
  BY DEF WellFormed
<1>2. Knockdown(v.sig[Authority(p, r)]) \in SignalState({0, 1})
  <2>1. v.sig[Authority(p, r)] \in SignalState({0, 1})
    BY <1>1 DEF View
  <2> QED
    BY <2>1 DEF Knockdown, SignalState, Directions
<1>3. RouteIndication(p, v, r) \in Aspects
  BY DEF RouteIndication, Aspects
<1>4. MorePermissive(v.mast[p.routes[r].mast], RouteIndication(p, v, r)) \in Aspects
  BY <1>1, <1>3 DEF MorePermissive, View, Aspects
<1> QED
  BY <1>1, <1>2, <1>4 DEF RouteExamined, View

\* An automatic signal displays its indication: the view stays one.
LEMMA AutomaticType ==
    ASSUME NEW p, WellFormed(p), NEW v \in View(p), NEW a \in DOMAIN p.signals
    PROVE  AutomaticExamined(p, v, a) \in View(p)
PROOF
<1>1. a \in p.masts
  BY DEF WellFormed
<1>2. AutomaticIndication(p, v, a) \in Aspects
  BY DEF AutomaticIndication, Aspects
<1> QED
  BY <1>1, <1>2 DEF AutomaticExamined, View

\* A signal latches its HR: the view stays one.
LEMMA HRType ==
    ASSUME NEW p, NEW v \in View(p), NEW a \in DOMAIN p.signals
    PROVE  HRLatched(p, v, a) \in View(p)
  BY DEF HRLatched, View

\* A line latches whether a leaving signal proceeds: the view stays one.
LEMMA PortsType ==
    ASSUME NEW p, NEW v \in View(p), NEW l \in DOMAIN p.lines
    PROVE  PortsLatched(p, v, l) \in View(p)
  BY DEF PortsLatched, View

\* A line latches its home signal and its traffic: the view stays one.
LEMMA LineType ==
    ASSUME NEW p, NEW v \in View(p), NEW l \in DOMAIN p.lines
    PROVE  LineLatched(p, v, l) \in View(p)
  BY DEF LineLatched, View

\* The levers of a plant, one after the other, each from what the last one left.
LEMMA LeversLoop ==
    ASSUME NEW p, WellFormed(p), NEW v \in View(p)
    PROVE  \E f : /\ f[0] = v
                  /\ \A i \in 1 .. Len(p.leverOrder) :
                       /\ i - 1 \in 0 .. Len(p.leverOrder)
                       /\ p.leverOrder[i] \in Levers
                       /\ f[i - 1] \in View(p) /\ f[i] \in View(p)
                       /\ f[i] = LeverEvaluated(p, f[i - 1], p.leverOrder[i])
                  /\ LeversEvaluated(p, v) = f[Len(p.leverOrder)]
                  /\ LeversEvaluated(p, v) \in View(p)
PROOF
<1> DEFINE s == p.leverOrder
           S == Levers
           V == View(p)
           b == v
           g == [x \in V \X S |-> LeverEvaluated(p, x[1], x[2])]
           F == CHOOSE f : f = [i \in 0 .. Len(s) |->
                                  IF i = 0 THEN b ELSE LeverEvaluated(p, f[i - 1], s[i])]
<1>1. s \in Seq(S) /\ Len(s) \in Nat
  BY LenProperties DEF WellFormed
<1>2. g \in [V \X S -> V] /\ b \in V
  BY LeverType
<1>3. \A w \in V, x \in S : g[<<w, x>>] = LeverEvaluated(p, w, x) /\ g[<<w, x>>] \in V
  BY <1>2
<1>4. LeversEvaluated(p, v) = F[Len(s)]
  BY DEF LeversEvaluated, InOrder
<1> HIDE DEF g, V, S, b, s, F
<1>5. PICK f : Loops(f, V, S, g, b, s)
  BY <1>1, <1>2, LoopExists, Zenon
<1>6. ASSUME NEW i \in 1 .. Len(s)
      PROVE  f[i] = LeverEvaluated(p, f[i - 1], s[i]) /\ f[i] \in V
  BY <1>3, <1>5 DEF Loops
<1>7. f = [i \in 0 .. Len(s) |-> IF i = 0 THEN b ELSE LeverEvaluated(p, f[i - 1], s[i])]
  BY <1>1, <1>5, <1>6 DEF Loops
<1>8. F = [i \in 0 .. Len(s) |-> IF i = 0 THEN b ELSE LeverEvaluated(p, F[i - 1], s[i])]
  BY <1>7 DEF F
<1>9. /\ Len(s) \in Nat /\ F[0] = f[0]
      /\ \A i \in 1 .. Len(s) : F[i - 1] = f[i - 1] => F[i] = f[i]
  BY <1>1, <1>5, <1>6, <1>8 DEF Loops
<1>10. F[Len(s)] = f[Len(s)]
  BY <1>9, LoopIsOne, Zenon
<1>11. f[Len(s)] \in V
  BY <1>1, <1>5 DEF Loops
<1> QED
  BY <1>4, <1>5, <1>6, <1>10, <1>11 DEF Loops, V, S, b, s

\* So the sticks.
LEMMA SticksLoop ==
    ASSUME NEW p, WellFormed(p), NEW v \in View(p)
    PROVE  \E f : /\ f[0] = v
                  /\ \A i \in 1 .. Len(p.signalOrder) :
                       /\ i - 1 \in 0 .. Len(p.signalOrder)
                       /\ p.signalOrder[i] \in DOMAIN p.signals
                       /\ f[i - 1] \in View(p) /\ f[i] \in View(p)
                       /\ f[i] = StickUpdated(p, f[i - 1], p.signalOrder[i])
                  /\ SticksUpdated(p, v) = f[Len(p.signalOrder)]
                  /\ SticksUpdated(p, v) \in View(p)
PROOF
<1> DEFINE s == p.signalOrder
           S == DOMAIN p.signals
           V == View(p)
           b == v
           g == [x \in V \X S |-> StickUpdated(p, x[1], x[2])]
           F == CHOOSE f : f = [i \in 0 .. Len(s) |->
                                  IF i = 0 THEN b ELSE StickUpdated(p, f[i - 1], s[i])]
<1>1. s \in Seq(S) /\ Len(s) \in Nat
  BY LenProperties DEF WellFormed
<1>2. g \in [V \X S -> V] /\ b \in V
  BY StickType
<1>3. \A w \in V, x \in S : g[<<w, x>>] = StickUpdated(p, w, x) /\ g[<<w, x>>] \in V
  BY <1>2
<1>4. SticksUpdated(p, v) = F[Len(s)]
  BY DEF SticksUpdated, InOrder
<1> HIDE DEF g, V, S, b, s, F
<1>5. PICK f : Loops(f, V, S, g, b, s)
  BY <1>1, <1>2, LoopExists, Zenon
<1>6. ASSUME NEW i \in 1 .. Len(s)
      PROVE  f[i] = StickUpdated(p, f[i - 1], s[i]) /\ f[i] \in V
  BY <1>3, <1>5 DEF Loops
<1>7. f = [i \in 0 .. Len(s) |-> IF i = 0 THEN b ELSE StickUpdated(p, f[i - 1], s[i])]
  BY <1>1, <1>5, <1>6 DEF Loops
<1>8. F = [i \in 0 .. Len(s) |-> IF i = 0 THEN b ELSE StickUpdated(p, F[i - 1], s[i])]
  BY <1>7 DEF F
<1>9. /\ Len(s) \in Nat /\ F[0] = f[0]
      /\ \A i \in 1 .. Len(s) : F[i - 1] = f[i - 1] => F[i] = f[i]
  BY <1>1, <1>5, <1>6, <1>8 DEF Loops
<1>10. F[Len(s)] = f[Len(s)]
  BY <1>9, LoopIsOne, Zenon
<1>11. f[Len(s)] \in V
  BY <1>1, <1>5 DEF Loops
<1> QED
  BY <1>4, <1>5, <1>6, <1>10, <1>11 DEF Loops, V, S, b, s

\* So the controlled routes, from dark masts.
LEMMA RoutesLoop ==
    ASSUME NEW p, WellFormed(p), NEW v \in View(p)
    PROVE  \E f : /\ f[0] = [v EXCEPT !.mast = [m \in DOMAIN v.mast |-> "STOP"]]
                  /\ \A i \in 1 .. Len(p.routeOrder) :
                       /\ i - 1 \in 0 .. Len(p.routeOrder)
                       /\ p.routeOrder[i] \in DOMAIN p.routes
                       /\ f[i - 1] \in View(p) /\ f[i] \in View(p)
                       /\ f[i] = RouteExamined(p, f[i - 1], p.routeOrder[i])
                  /\ RoutesExamined(p, v) = f[Len(p.routeOrder)]
                  /\ RoutesExamined(p, v) \in View(p)
PROOF
<1> DEFINE s == p.routeOrder
           S == DOMAIN p.routes
           V == View(p)
           b == [v EXCEPT !.mast = [m \in DOMAIN v.mast |-> "STOP"]]
           g == [x \in V \X S |-> RouteExamined(p, x[1], x[2])]
           F == CHOOSE f : f = [i \in 0 .. Len(s) |->
                                  IF i = 0 THEN b ELSE RouteExamined(p, f[i - 1], s[i])]
<1>1. s \in Seq(S) /\ Len(s) \in Nat
  BY LenProperties DEF WellFormed
<1>2. g \in [V \X S -> V] /\ b \in V
  BY RouteType, DarkType
<1>3. \A w \in V, x \in S : g[<<w, x>>] = RouteExamined(p, w, x) /\ g[<<w, x>>] \in V
  BY <1>2
<1>4. RoutesExamined(p, v) = F[Len(s)]
  BY DEF RoutesExamined, InOrder
<1> HIDE DEF g, V, S, b, s, F
<1>5. PICK f : Loops(f, V, S, g, b, s)
  BY <1>1, <1>2, LoopExists, Zenon
<1>6. ASSUME NEW i \in 1 .. Len(s)
      PROVE  f[i] = RouteExamined(p, f[i - 1], s[i]) /\ f[i] \in V
  BY <1>3, <1>5 DEF Loops
<1>7. f = [i \in 0 .. Len(s) |-> IF i = 0 THEN b ELSE RouteExamined(p, f[i - 1], s[i])]
  BY <1>1, <1>5, <1>6 DEF Loops
<1>8. F = [i \in 0 .. Len(s) |-> IF i = 0 THEN b ELSE RouteExamined(p, F[i - 1], s[i])]
  BY <1>7 DEF F
<1>9. /\ Len(s) \in Nat /\ F[0] = f[0]
      /\ \A i \in 1 .. Len(s) : F[i - 1] = f[i - 1] => F[i] = f[i]
  BY <1>1, <1>5, <1>6, <1>8 DEF Loops
<1>10. F[Len(s)] = f[Len(s)]
  BY <1>9, LoopIsOne, Zenon
<1>11. f[Len(s)] \in V
  BY <1>1, <1>5 DEF Loops
<1> QED
  BY <1>4, <1>5, <1>6, <1>10, <1>11 DEF Loops, V, S, b, s

\* So the automatic signals.
LEMMA AutomaticsLoop ==
    ASSUME NEW p, WellFormed(p), NEW v \in View(p)
    PROVE  \E f : /\ f[0] = v
                  /\ \A i \in 1 .. Len(p.signalOrder) :
                       /\ i - 1 \in 0 .. Len(p.signalOrder)
                       /\ p.signalOrder[i] \in DOMAIN p.signals
                       /\ f[i - 1] \in View(p) /\ f[i] \in View(p)
                       /\ f[i] = AutomaticExamined(p, f[i - 1], p.signalOrder[i])
                  /\ AutomaticsExamined(p, v) = f[Len(p.signalOrder)]
                  /\ AutomaticsExamined(p, v) \in View(p)
PROOF
<1> DEFINE s == p.signalOrder
           S == DOMAIN p.signals
           V == View(p)
           b == v
           g == [x \in V \X S |-> AutomaticExamined(p, x[1], x[2])]
           F == CHOOSE f : f = [i \in 0 .. Len(s) |->
                                  IF i = 0 THEN b ELSE AutomaticExamined(p, f[i - 1], s[i])]
<1>1. s \in Seq(S) /\ Len(s) \in Nat
  BY LenProperties DEF WellFormed
<1>2. g \in [V \X S -> V] /\ b \in V
  BY AutomaticType
<1>3. \A w \in V, x \in S : g[<<w, x>>] = AutomaticExamined(p, w, x) /\ g[<<w, x>>] \in V
  BY <1>2
<1>4. AutomaticsExamined(p, v) = F[Len(s)]
  BY DEF AutomaticsExamined, InOrder
<1> HIDE DEF g, V, S, b, s, F
<1>5. PICK f : Loops(f, V, S, g, b, s)
  BY <1>1, <1>2, LoopExists, Zenon
<1>6. ASSUME NEW i \in 1 .. Len(s)
      PROVE  f[i] = AutomaticExamined(p, f[i - 1], s[i]) /\ f[i] \in V
  BY <1>3, <1>5 DEF Loops
<1>7. f = [i \in 0 .. Len(s) |-> IF i = 0 THEN b ELSE AutomaticExamined(p, f[i - 1], s[i])]
  BY <1>1, <1>5, <1>6 DEF Loops
<1>8. F = [i \in 0 .. Len(s) |-> IF i = 0 THEN b ELSE AutomaticExamined(p, F[i - 1], s[i])]
  BY <1>7 DEF F
<1>9. /\ Len(s) \in Nat /\ F[0] = f[0]
      /\ \A i \in 1 .. Len(s) : F[i - 1] = f[i - 1] => F[i] = f[i]
  BY <1>1, <1>5, <1>6, <1>8 DEF Loops
<1>10. F[Len(s)] = f[Len(s)]
  BY <1>9, LoopIsOne, Zenon
<1>11. f[Len(s)] \in V
  BY <1>1, <1>5 DEF Loops
<1> QED
  BY <1>4, <1>5, <1>6, <1>10, <1>11 DEF Loops, V, S, b, s

\* So the latching of the HRs.
LEMMA HRsLoop ==
    ASSUME NEW p, WellFormed(p), NEW v \in View(p)
    PROVE  \E f : /\ f[0] = v
                  /\ \A i \in 1 .. Len(p.signalOrder) :
                       /\ i - 1 \in 0 .. Len(p.signalOrder)
                       /\ p.signalOrder[i] \in DOMAIN p.signals
                       /\ f[i - 1] \in View(p) /\ f[i] \in View(p)
                       /\ f[i] = HRLatched(p, f[i - 1], p.signalOrder[i])
                  /\ HRsLatched(p, v) = f[Len(p.signalOrder)]
                  /\ HRsLatched(p, v) \in View(p)
PROOF
<1> DEFINE s == p.signalOrder
           S == DOMAIN p.signals
           V == View(p)
           b == v
           g == [x \in V \X S |-> HRLatched(p, x[1], x[2])]
           F == CHOOSE f : f = [i \in 0 .. Len(s) |->
                                  IF i = 0 THEN b ELSE HRLatched(p, f[i - 1], s[i])]
<1>1. s \in Seq(S) /\ Len(s) \in Nat
  BY LenProperties DEF WellFormed
<1>2. g \in [V \X S -> V] /\ b \in V
  BY HRType
<1>3. \A w \in V, x \in S : g[<<w, x>>] = HRLatched(p, w, x) /\ g[<<w, x>>] \in V
  BY <1>2
<1>4. HRsLatched(p, v) = F[Len(s)]
  BY DEF HRsLatched, InOrder
<1> HIDE DEF g, V, S, b, s, F
<1>5. PICK f : Loops(f, V, S, g, b, s)
  BY <1>1, <1>2, LoopExists, Zenon
<1>6. ASSUME NEW i \in 1 .. Len(s)
      PROVE  f[i] = HRLatched(p, f[i - 1], s[i]) /\ f[i] \in V
  BY <1>3, <1>5 DEF Loops
<1>7. f = [i \in 0 .. Len(s) |-> IF i = 0 THEN b ELSE HRLatched(p, f[i - 1], s[i])]
  BY <1>1, <1>5, <1>6 DEF Loops
<1>8. F = [i \in 0 .. Len(s) |-> IF i = 0 THEN b ELSE HRLatched(p, F[i - 1], s[i])]
  BY <1>7 DEF F
<1>9. /\ Len(s) \in Nat /\ F[0] = f[0]
      /\ \A i \in 1 .. Len(s) : F[i - 1] = f[i - 1] => F[i] = f[i]
  BY <1>1, <1>5, <1>6, <1>8 DEF Loops
<1>10. F[Len(s)] = f[Len(s)]
  BY <1>9, LoopIsOne, Zenon
<1>11. f[Len(s)] \in V
  BY <1>1, <1>5 DEF Loops
<1> QED
  BY <1>4, <1>5, <1>6, <1>10, <1>11 DEF Loops, V, S, b, s

\* So the lines.
LEMMA LinesLoop ==
    ASSUME NEW p, WellFormed(p), NEW v \in View(p)
    PROVE  \E f : /\ f[0] = v
                  /\ \A i \in 1 .. Len(p.lineOrder) :
                       /\ i - 1 \in 0 .. Len(p.lineOrder)
                       /\ p.lineOrder[i] \in DOMAIN p.lines
                       /\ f[i - 1] \in View(p) /\ f[i] \in View(p)
                       /\ f[i] = LineLatched(p, PortsLatched(p, f[i - 1], p.lineOrder[i]), p.lineOrder[i])
                  /\ LinesLatched(p, v) = f[Len(p.lineOrder)]
                  /\ LinesLatched(p, v) \in View(p)
PROOF
<1> DEFINE s == p.lineOrder
           S == DOMAIN p.lines
           V == View(p)
           b == v
           g == [x \in V \X S |-> LineLatched(p, PortsLatched(p, x[1], x[2]), x[2])]
           F == CHOOSE f : f = [i \in 0 .. Len(s) |->
                                  IF i = 0 THEN b ELSE LineLatched(p, PortsLatched(p, f[i - 1], s[i]), s[i])]
<1>1. s \in Seq(S) /\ Len(s) \in Nat
  BY LenProperties DEF WellFormed
<1>2. g \in [V \X S -> V] /\ b \in V
  BY LineType, PortsType
<1>3. \A w \in V, x \in S : g[<<w, x>>] = LineLatched(p, PortsLatched(p, w, x), x) /\ g[<<w, x>>] \in V
  BY <1>2
<1>4. LinesLatched(p, v) = F[Len(s)]
  BY DEF LinesLatched, InOrder
<1> HIDE DEF g, V, S, b, s, F
<1>5. PICK f : Loops(f, V, S, g, b, s)
  BY <1>1, <1>2, LoopExists, Zenon
<1>6. ASSUME NEW i \in 1 .. Len(s)
      PROVE  f[i] = LineLatched(p, PortsLatched(p, f[i - 1], s[i]), s[i]) /\ f[i] \in V
  BY <1>3, <1>5 DEF Loops
<1>7. f = [i \in 0 .. Len(s) |-> IF i = 0 THEN b ELSE LineLatched(p, PortsLatched(p, f[i - 1], s[i]), s[i])]
  BY <1>1, <1>5, <1>6 DEF Loops
<1>8. F = [i \in 0 .. Len(s) |-> IF i = 0 THEN b ELSE LineLatched(p, PortsLatched(p, F[i - 1], s[i]), s[i])]
  BY <1>7 DEF F
<1>9. /\ Len(s) \in Nat /\ F[0] = f[0]
      /\ \A i \in 1 .. Len(s) : F[i - 1] = f[i - 1] => F[i] = f[i]
  BY <1>1, <1>5, <1>6, <1>8 DEF Loops
<1>10. F[Len(s)] = f[Len(s)]
  BY <1>9, LoopIsOne, Zenon
<1>11. f[Len(s)] \in V
  BY <1>1, <1>5 DEF Loops
<1> QED
  BY <1>4, <1>5, <1>6, <1>10, <1>11 DEF Loops, V, S, b, s

-----------------------------------------------------------------------------
(* What a fact asserts.                                                    *)

\* The assertion of fact q[1] while the signals q[2] are being computed, by
\* what is heard of others.
HeardBy(p, v, heard, q) ==
    LET n == q[1].from
        on(fact) == fact = None \/ heard[<<fact, q[2] \cup {n}>>]
    IN IF n \in DOMAIN p.lines
       THEN CASE q[1].wire = "H" -> LineH(p, v, n)
              [] q[1].wire = "D" -> LineD(v, n)
              [] OTHER -> LineF(p, v, n)
       ELSE /\ n \notin q[2]
            /\ IF q[1].wire = "H"
               THEN /\ p.signals[n].approach \subseteq v.clear
                    /\ on(p.signals[n].h) \/ n \in v.sr
               ELSE /\ p.signals[n].governs \subseteq v.clear
                    /\ on(p.signals[n].h) /\ Uncut(p, v, n)

\* What a fact asserts depends on one other assertion at most: that of the fact
\* ahead, with one more signal being computed.
LEMMA HeardAlike ==
    ASSUME NEW p, NEW v, NEW q, NEW g, NEW h,
           /\ q[1].from \notin DOMAIN p.lines
           /\ q[1].from \notin q[2]
           /\ p.signals[q[1].from].h # None
           => g[<<p.signals[q[1].from].h, q[2] \cup {q[1].from}>>]
                = h[<<p.signals[q[1].from].h, q[2] \cup {q[1].from}>>]
    PROVE  HeardBy(p, v, g, q) = HeardBy(p, v, h, q)
PROOF
<1> DEFINE n == q[1].from
           fact == p.signals[n].h
<1>1. CASE n \in DOMAIN p.lines
  BY <1>1 DEF HeardBy
<1>2. CASE n \notin DOMAIN p.lines /\ n \in q[2]
  BY <1>2 DEF HeardBy
<1>3. CASE n \notin DOMAIN p.lines /\ n \notin q[2] /\ fact = None
  BY <1>3 DEF HeardBy
<1>4. CASE n \notin DOMAIN p.lines /\ n \notin q[2] /\ fact # None
  <2>1. g[<<fact, q[2] \cup {n}>>] = h[<<fact, q[2] \cup {n}>>]
    BY <1>4
  <2> QED
    BY <1>4, <2>1 DEF HeardBy
<1> QED
  BY <1>1, <1>2, <1>3, <1>4

\* Assertions can be computed for every fact: each asks with one more signal that
\* is being computed, and there are finitely many.
LEMMA HeardExists ==
    ASSUME NEW p, WellFormed(p), NEW v
    PROVE  \E h : h = [q \in Facts(p) \X SUBSET DOMAIN p.signals |-> HeardBy(p, v, h, q)]
PROOF
<1> DEFINE S == DOMAIN p.signals
           D == Facts(p) \X SUBSET S
           Q(k) == {q \in D : Cardinality(S \ q[2]) <= k}
           Heard(h, k) == h = [q \in Q(k) |-> HeardBy(p, v, h, q)]
           n == Cardinality(S)
           G == {k \in Nat : k <= n => \E h : Heard(h, k)}
<1>0. IsFiniteSet(S) /\ n \in Nat
  BY FS_CardinalityType DEF WellFormed
<1>1. ASSUME NEW q \in D
      PROVE  /\ q[1] \in Facts(p) /\ q[2] \in SUBSET S
             /\ q[1].from \in S \cup DOMAIN p.lines
             /\ IsFiniteSet(S \ q[2]) /\ Cardinality(S \ q[2]) \in 0 .. n
  <2>1. S \ q[2] \subseteq S
    OBVIOUS
  <2>2. IsFiniteSet(S \ q[2]) /\ Cardinality(S \ q[2]) <= n
    BY <1>0, <2>1, FS_Subset
  <2>3. Cardinality(S \ q[2]) \in Nat
    BY <2>2, FS_CardinalityType
  <2>4. q[1].from \in S \cup DOMAIN p.lines
    BY DEF Facts, Out
  <2> QED
    BY <1>0, <2>2, <2>3, <2>4
<1> HIDE DEF D, n
<1>2. 0 \in G
  <2> DEFINE h == [q \in Q(0) |-> HeardBy(p, v, <<>>, q)]
  <2>1. ASSUME NEW q \in Q(0)
        PROVE  HeardBy(p, v, <<>>, q) = HeardBy(p, v, h, q)
    <3>0. q \in D /\ Cardinality(S \ q[2]) <= 0
      BY <2>1
    <3>1. IsFiniteSet(S \ q[2]) /\ Cardinality(S \ q[2]) = 0
      BY <1>0, <1>1, <3>0
    <3>2. S \ q[2] = {}
      BY <3>1, FS_EmptySet
    <3>3. q[1].from \in DOMAIN p.lines \/ q[1].from \in q[2]
      BY <1>1, <3>0, <3>2
    <3> HIDE DEF h
    <3> QED
      BY <3>3, HeardAlike
  <2>2. Heard(h, 0)
    BY <2>1
  <2> HIDE DEF Heard, h
  <2> QED
    BY <2>2
<1>3. ASSUME NEW k \in Nat, k < n, k \in G
      PROVE  k + 1 \in G
  <2>1. PICK g : Heard(g, k)
    <3>1. k <= n
      BY <1>0, <1>3
    <3> HIDE DEF Heard
    <3> QED
      BY <1>3, <3>1
  <2> DEFINE h == [q \in Q(k + 1) |-> HeardBy(p, v, g, q)]
  <2>2. ASSUME NEW q \in Q(k + 1)
        PROVE  HeardBy(p, v, g, q) = HeardBy(p, v, h, q)
    <3> DEFINE m == q[1].from
               fact == p.signals[m].h
               r == <<fact, q[2] \cup {m}>>
    <3>1. q \in D /\ Cardinality(S \ q[2]) <= k + 1
      BY <2>2
    <3>2. SUFFICES ASSUME m \notin DOMAIN p.lines, m \notin q[2], fact # None
                   PROVE  g[r] = h[r]
      <4> HIDE DEF h
      <4> QED
        BY HeardAlike
    <3>3. m \in S /\ fact \in Facts(p)
      BY <1>1, <3>1, <3>2 DEF WellFormed
    <3>4. r \in D /\ r[1] = fact /\ r[2] = q[2] \cup {m}
      BY <1>1, <3>1, <3>3 DEF D
    <3>5. S \ r[2] = (S \ q[2]) \ {m} /\ m \in S \ q[2]
      BY <3>2, <3>3, <3>4
    <3>6. Cardinality(S \ r[2]) = Cardinality(S \ q[2]) - 1
      <4> DEFINE T == S \ q[2]
      <4>1. IsFiniteSet(T) /\ m \in T /\ S \ r[2] = T \ {m}
        BY <1>1, <3>1, <3>5
      <4> HIDE DEF T, r, m
      <4>2. Cardinality(T \ {m}) = Cardinality(T) - 1
        BY <4>1, FS_RemoveElement
      <4> QED
        BY <4>1, <4>2 DEF T
    <3>7. Cardinality(S \ r[2]) <= k /\ Cardinality(S \ r[2]) <= k + 1
      BY <1>0, <1>1, <1>3, <3>1, <3>6
    <3> HIDE DEF r, D
    <3>8. r \in Q(k) /\ r \in Q(k + 1)
      BY <3>4, <3>7
    <3>9. g[r] = HeardBy(p, v, g, r)
      BY <2>1, <3>8
    <3> QED
      BY <3>8, <3>9
  <2>3. Heard(h, k + 1)
    BY <2>2
  <2> HIDE DEF Heard, h
  <2> QED
    BY <1>3, <2>3
<1>4. PICK h : Heard(h, n)
  <2>1. \A k \in Nat : k < n /\ k \in G => k + 1 \in G
    BY <1>3
  <2> HIDE DEF G
  <2>2. n \in G
    BY <1>0, <1>2, <2>1, Counting
  <2> HIDE DEF Heard
  <2> QED
    BY <1>0, <2>2 DEF G
<1>5. Q(n) = D
  <2>1. ASSUME NEW q \in D
        PROVE  Cardinality(S \ q[2]) <= n
    <3>1. Cardinality(S \ q[2]) \in 0 .. n
      BY <1>1, <2>1
    <3> QED
      BY <1>0, <3>1
  <2> QED
    BY <2>1
<1>6. h = [q \in D |-> HeardBy(p, v, h, q)]
  BY <1>4, <1>5
<1> QED
  BY <1>6 DEF D

\* asserted(): a fact asserts what its signal or line makes of the fact ahead.
LEMMA AssertsIs ==
    ASSUME NEW p, WellFormed(p), NEW v, NEW q \in Facts(p) \X SUBSET DOMAIN p.signals
    PROVE  Asserts(p, v)[q] = HeardBy(p, v, Asserts(p, v), q)
PROOF
<1> DEFINE D == Facts(p) \X SUBSET DOMAIN p.signals
           A == CHOOSE h : h = [x \in D |-> HeardBy(p, v, h, x)]
<1>1. A = [x \in D |-> HeardBy(p, v, A, x)]
  BY HeardExists
<1>2. Asserts(p, v) = A
  BY DEF Asserts, HeardBy
<1> HIDE DEF A
<1> QED
  BY <1>1, <1>2

\* The H of a line is what ControlPointLine gives, whoever asks.
LEMMA LineHeard ==
    ASSUME NEW p, WellFormed(p), NEW v, NEW l \in DOMAIN p.lines,
           NEW B \in SUBSET DOMAIN p.signals
    PROVE  Asserts(p, v)[<<Out(l, "H"), B>>] = LineH(p, v, l)
PROOF
<1> DEFINE q == <<Out(l, "H"), B>>
<1>1. q \in Facts(p) \X SUBSET DOMAIN p.signals
  BY DEF Facts
<1>2. q[1].from = l /\ q[1].wire = "H"
  BY DEF Out
<1>3. Asserts(p, v)[q] = HeardBy(p, v, Asserts(p, v), q)
  BY <1>1, AssertsIs
<1> HIDE DEF q
<1>4. HeardBy(p, v, Asserts(p, v), q) = LineH(p, v, l)
  BY <1>2 DEF HeardBy
<1> QED
  BY <1>3, <1>4 DEF q

\* The H and the D of an automatic signal: its blocks, the fact ahead and its own
\* stick, and released when it is being computed already.
LEMMA SignalHeard ==
    ASSUME NEW p, WellFormed(p), NEW v, NEW a \in DOMAIN p.signals,
           NEW B \in SUBSET DOMAIN p.signals
    PROVE  /\ Asserts(p, v)[<<Out(a, "H"), B>>] =
                (/\ a \notin B
                 /\ p.signals[a].approach \subseteq v.clear
                 /\ \/ p.signals[a].h = None
                    \/ Asserts(p, v)[<<p.signals[a].h, B \cup {a}>>]
                    \/ a \in v.sr)
           /\ Asserts(p, v)[<<Out(a, "D"), B>>] =
                (/\ a \notin B
                 /\ p.signals[a].governs \subseteq v.clear
                 /\ \/ p.signals[a].h = None
                    \/ Asserts(p, v)[<<p.signals[a].h, B \cup {a}>>]
                 /\ Uncut(p, v, a))
PROOF
<1> DEFINE A == Asserts(p, v)
<1>0. a \notin DOMAIN p.lines
  BY DEF WellFormed
<1>1. ASSUME NEW w \in {"H", "D"}
      PROVE  A[<<Out(a, w), B>>] = HeardBy(p, v, A, <<Out(a, w), B>>)
  <2>1. <<Out(a, w), B>> \in Facts(p) \X SUBSET DOMAIN p.signals
    BY <1>1 DEF Facts
  <2> QED
    BY <2>1, AssertsIs
<1>2. \A w : Out(a, w).from = a /\ Out(a, w).wire = w
  BY DEF Out
<1> HIDE DEF A
<1>3. HeardBy(p, v, A, <<Out(a, "H"), B>>) =
        (/\ a \notin B
         /\ p.signals[a].approach \subseteq v.clear
         /\ \/ p.signals[a].h = None
            \/ A[<<p.signals[a].h, B \cup {a}>>]
            \/ a \in v.sr)
  BY <1>0, <1>2 DEF HeardBy
<1>4. HeardBy(p, v, A, <<Out(a, "D"), B>>) =
        (/\ a \notin B
         /\ p.signals[a].governs \subseteq v.clear
         /\ \/ p.signals[a].h = None
            \/ A[<<p.signals[a].h, B \cup {a}>>]
         /\ Uncut(p, v, a))
  <2> DEFINE q == <<Out(a, "D"), B>>
  <2>1. q[1].from = a /\ q[1].wire = "D" /\ q[2] = B
    BY <1>2
  <2> HIDE DEF q
  <2>2. q[1].wire # "H"
    BY <2>1
  <2>3. HeardBy(p, v, A, q) =
          (/\ a \notin q[2]
           /\ p.signals[a].governs \subseteq v.clear
           /\ \/ p.signals[a].h = None
              \/ A[<<p.signals[a].h, q[2] \cup {a}>>]
           /\ Uncut(p, v, a))
    BY <1>0, <2>1, <2>2, Zenon DEF HeardBy
  <2> QED
    BY <2>1, <2>3 DEF q
<1> QED
  BY <1>1, <1>3, <1>4 DEF A

\* evaluateVitalRules(): the view stays one.
LEMMA ScannedType ==
    ASSUME NEW p, WellFormed(p), NEW v \in View(p), NEW clear \in SUBSET p.circuits
    PROVE  Scanned(p, v, clear) \in View(p)
PROOF
<1>1. [v EXCEPT !.clear = clear] \in View(p)
  BY DEF View
<1>2. LeversEvaluated(p, [v EXCEPT !.clear = clear]) \in View(p)
  BY <1>1, LeversLoop
<1>3. SticksUpdated(p, LeversEvaluated(p, [v EXCEPT !.clear = clear])) \in View(p)
  BY <1>2, SticksLoop
<1> DEFINE u == SticksUpdated(p, LeversEvaluated(p, [v EXCEPT !.clear = clear]))
<1>4. AutomaticsExamined(p, RoutesExamined(p, u)) \in View(p)
  BY <1>3, RoutesLoop, AutomaticsLoop
<1>5. HRsLatched(p, AutomaticsExamined(p, RoutesExamined(p, u))) \in View(p)
  BY <1>4, HRsLoop
<1> QED
  BY <1>5, LinesLoop DEF Scanned

-----------------------------------------------------------------------------
(* What each part does to what the others read.                            *)

LockedAtStop(v) == \A l \in Levers : v.sig[l].timeLock => v.sig[l].active = "STOP"

\* A lever that is evaluated runs time at Stop only, and touches nothing else.
LEMMA LeverStep ==
    ASSUME NEW p, NEW v \in View(p), NEW l \in Levers, NEW w, w = LeverEvaluated(p, v, l),
           LockedAtStop(v)
    PROVE  /\ LockedAtStop(w)
           /\ w.clear = v.clear /\ w.sr = v.sr /\ w.hr = v.hr /\ w.cleared = v.cleared
           /\ w.mast = v.mast
PROOF
<1>1. PICK c, e : w = [v EXCEPT !.sig[l] = EvaluateSignal(v.sig[l], c, e)]
  BY DEF LeverEvaluated
<1>2. v.sig \in [Levers -> SignalState({0, 1})]
  BY DEF View
<1> DEFINE s == v.sig[l]
           x == EvaluateSignal(s, c, e)
<1>3. s \in SignalState({0, 1}) /\ (s.timeLock => s.active = "STOP")
  BY <1>2 DEF LockedAtStop
<1>4. x.timeLock => x.active = "STOP"
  BY <1>3 DEF EvaluateSignal, SignalState
<1>5. /\ w.sig = [v.sig EXCEPT ![l] = x]
      /\ w.clear = v.clear /\ w.sr = v.sr /\ w.hr = v.hr /\ w.cleared = v.cleared
      /\ w.mast = v.mast
  BY <1>1 DEF View
<1> HIDE DEF x
<1>6. LockedAtStop(w)
  BY <1>2, <1>4, <1>5 DEF LockedAtStop
<1> QED
  BY <1>5, <1>6

\* So after all levers.
LEMMA LeversDone ==
    ASSUME NEW p, WellFormed(p), NEW v \in View(p), NEW w, w = LeversEvaluated(p, v),
           LockedAtStop(v)
    PROVE  /\ w \in View(p) /\ LockedAtStop(w)
           /\ w.clear = v.clear /\ w.sr = v.sr /\ w.hr = v.hr /\ w.cleared = v.cleared
           /\ w.mast = v.mast
PROOF
<1> DEFINE n == Len(p.leverOrder)
           Kept(u) == /\ LockedAtStop(u)
                      /\ u.clear = v.clear /\ u.sr = v.sr /\ u.hr = v.hr
                      /\ u.cleared = v.cleared /\ u.mast = v.mast
<1>0. n \in Nat
  BY LenProperties DEF WellFormed
<1>1. PICK f : /\ f[0] = v
               /\ \A i \in 1 .. n :
                    /\ i - 1 \in 0 .. n
                    /\ p.leverOrder[i] \in Levers
                    /\ f[i - 1] \in View(p) /\ f[i] \in View(p)
                    /\ f[i] = LeverEvaluated(p, f[i - 1], p.leverOrder[i])
               /\ w = f[n] /\ w \in View(p)
  BY LeversLoop
<1> DEFINE G == {i \in Nat : i <= n => Kept(f[i])}
<1>2. 0 \in G
  BY <1>1
<1>3. ASSUME NEW i \in Nat, i < n, i \in G
      PROVE  i + 1 \in G
  <2>1. i + 1 \in 1 .. n /\ (i + 1) - 1 = i /\ Kept(f[i])
    BY <1>0, <1>3
  <2>2. /\ f[i] \in View(p) /\ p.leverOrder[i + 1] \in Levers
        /\ f[i + 1] = LeverEvaluated(p, f[i], p.leverOrder[i + 1])
    BY <1>1, <2>1
  <2>3. Kept(f[i + 1])
    BY <2>1, <2>2, LeverStep
  <2> QED
    BY <2>3
<1>4. \A i \in Nat : i < n /\ i \in G => i + 1 \in G
  BY <1>3
<1> HIDE DEF G, n
<1>5. n \in G
  BY <1>0, <1>2, <1>4, Counting
<1> QED
  BY <1>0, <1>1, <1>5 DEF G

\* A stick that is set: a train has passed the signal at Clear.
Passed(p, v, a) == a \in v.hr /\ ~(p.signals[a].governs \subseteq v.clear)

\* The signal's stick was kept though it was asked whether it could go.
KeptUp(p, v, a) ==
    \E u : u.clear = v.clear /\ u.sig = v.sig /\ u.cleared = v.cleared
           /\ ~On(p, u, p.signals[a].h)

\* A stick goes up when a train has passed at Clear only, and one that stays up
\* has not seen the fact ahead asserted.
LEMMA StickStep ==
    ASSUME NEW p, NEW v \in View(p), NEW a \in DOMAIN p.signals,
           NEW w, w = StickUpdated(p, v, a)
    PROVE  /\ \A b \in w.sr : b \in v.sr \/ (b = a /\ Passed(p, v, a))
           /\ a \in w.sr => Passed(p, v, a) \/ ~On(p, v, p.signals[a].h)
           /\ w.clear = v.clear /\ w.sig = v.sig /\ w.hr = v.hr /\ w.cleared = v.cleared
           /\ w.mast = v.mast
PROOF
<1>1. CASE Passed(p, v, a)
  <2>1. w = [v EXCEPT !.sr = v.sr \cup {a}]
    BY <1>1 DEF StickUpdated, Passed
  <2> QED
    BY <1>1, <2>1 DEF View
<1>2. CASE ~Passed(p, v, a) /\ On(p, v, p.signals[a].h)
  <2>1. w = [v EXCEPT !.sr = v.sr \ {a}]
    BY <1>2 DEF StickUpdated, Passed
  <2> QED
    BY <2>1 DEF View
<1>3. CASE ~Passed(p, v, a) /\ ~On(p, v, p.signals[a].h)
  <2>1. w = v
    BY <1>3 DEF StickUpdated, Passed
  <2> QED
    BY <1>3, <2>1
<1> QED
  BY <1>1, <1>2, <1>3

\* So after all sticks.
LEMMA SticksDone ==
    ASSUME NEW p, WellFormed(p), NEW v \in View(p), NEW w, w = SticksUpdated(p, v)
    PROVE  /\ w \in View(p)
           /\ w.clear = v.clear /\ w.sig = v.sig /\ w.hr = v.hr /\ w.cleared = v.cleared
           /\ w.mast = v.mast
           /\ \A a \in w.sr : a \in v.sr \/ Passed(p, v, a)
           /\ \A a \in w.sr : a \in ToSet(p.signalOrder) => Passed(p, v, a) \/ KeptUp(p, v, a)
PROOF
<1> DEFINE s == p.signalOrder
           n == Len(s)
           Kept(u) == /\ u.clear = v.clear /\ u.sig = v.sig /\ u.hr = v.hr
                      /\ u.cleared = v.cleared /\ u.mast = v.mast
                      /\ \A a \in u.sr : a \in v.sr \/ Passed(p, v, a)
           Seen(u, i) == \A j \in 1 .. i :
                           s[j] \in u.sr => Passed(p, v, s[j]) \/ KeptUp(p, v, s[j])
<1>0. n \in Nat
  BY LenProperties DEF WellFormed
<1>1. PICK f : /\ f[0] = v
               /\ \A i \in 1 .. n :
                    /\ i - 1 \in 0 .. n
                    /\ s[i] \in DOMAIN p.signals
                    /\ f[i - 1] \in View(p) /\ f[i] \in View(p)
                    /\ f[i] = StickUpdated(p, f[i - 1], s[i])
               /\ w = f[n] /\ w \in View(p)
  BY SticksLoop
<1> DEFINE G == {i \in Nat : i <= n => Kept(f[i]) /\ Seen(f[i], i)}
<1>2. 0 \in G
  BY <1>1
<1>3. ASSUME NEW i \in Nat, i < n, i \in G
      PROVE  i + 1 \in G
  <2>1. i + 1 \in 1 .. n /\ (i + 1) - 1 = i /\ Kept(f[i]) /\ Seen(f[i], i)
    BY <1>0, <1>3
  <2> DEFINE u == f[i]
             x == f[i + 1]
             a == s[i + 1]
  <2>2. u \in View(p) /\ a \in DOMAIN p.signals /\ x = StickUpdated(p, u, a)
    BY <1>1, <2>1
  <2>3. /\ \A b \in x.sr : b \in u.sr \/ (b = a /\ Passed(p, u, a))
        /\ a \in x.sr => Passed(p, u, a) \/ ~On(p, u, p.signals[a].h)
        /\ x.clear = u.clear /\ x.sig = u.sig /\ x.hr = u.hr /\ x.cleared = u.cleared
        /\ x.mast = u.mast
    BY <2>2, StickStep
  <2> HIDE DEF u, x, a
  <2>4. Passed(p, u, a) => Passed(p, v, a)
    BY <2>1 DEF Passed, u
  <2>5. ~On(p, u, p.signals[a].h) => KeptUp(p, v, a)
    BY <2>1 DEF KeptUp, u
  <2>6. Kept(x)
    BY <2>1, <2>3, <2>4 DEF u
  <2>7. ASSUME NEW j \in 1 .. i + 1, s[j] \in x.sr
        PROVE  Passed(p, v, s[j]) \/ KeptUp(p, v, s[j])
    <3>1. CASE s[j] = a
      BY <2>3, <2>4, <2>5, <2>7, <3>1
    <3>2. CASE s[j] # a
      <4>1. j \in 1 .. i
        BY <3>2 DEF a
      <4>2. s[j] \in u.sr
        BY <2>3, <2>7, <3>2
      <4> QED
        BY <2>1, <4>1, <4>2 DEF u
    <3> QED
      BY <3>1, <3>2
  <2> QED
    BY <2>6, <2>7 DEF x
<1>4. \A i \in Nat : i < n /\ i \in G => i + 1 \in G
  BY <1>3
<1> HIDE DEF G, n
<1>5. n \in G
  BY <1>0, <1>2, <1>4, Counting
<1>6. Kept(w) /\ Seen(w, n)
  BY <1>0, <1>1, <1>5 DEF G
<1>7. ASSUME NEW a \in w.sr, a \in ToSet(s)
      PROVE  Passed(p, v, a) \/ KeptUp(p, v, a)
  <2>1. PICK j \in 1 .. n : a = s[j]
    BY <1>7, LenProperties DEF ToSet, n, WellFormed
  <2> QED
    BY <1>6, <1>7, <2>1
<1> QED
  BY <1>1, <1>6, <1>7

-----------------------------------------------------------------------------
\* The circuits, sticks and lines that the home facts of a chain are made of.
SameAhead(u, v) ==
    /\ u.clear = v.clear /\ u.sr = v.sr /\ u.cleared = v.cleared
    /\ \A l \in Levers : u.sig[l].timeLock = v.sig[l].timeLock

\* A fact was asserted at such a time, whatever signals were being computed.
AheadUp(p, v, fact) ==
    \E u : \E B \in SUBSET DOMAIN p.signals :
      SameAhead(u, v) /\ (fact = None \/ Asserts(p, u)[<<fact, B>>])

\* A fact that was asserted is so for whoever reads the same.
LEMMA AheadKept ==
    ASSUME NEW p, NEW u, NEW v, NEW fact, AheadUp(p, u, fact), SameAhead(u, v)
    PROVE  AheadUp(p, v, fact)
PROOF
<1>1. PICK w : \E B \in SUBSET DOMAIN p.signals :
           SameAhead(w, u) /\ (fact = None \/ Asserts(p, w)[<<fact, B>>])
  BY Zenon DEF AheadUp
<1>2. SameAhead(w, v)
  BY <1>1 DEF SameAhead
<1> QED
  BY <1>1, <1>2, Zenon DEF AheadUp

\* A fact that is asserted now was asserted.
LEMMA OnNow ==
    ASSUME NEW p, NEW v, NEW fact, On(p, v, fact)
    PROVE  AheadUp(p, v, fact)
PROOF
<1>1. SameAhead(v, v)
  BY DEF SameAhead
<1> QED
  BY <1>1 DEF AheadUp, On

\* The lever was for route r, and its route equation was fulfilled.
ShownFor(p, v, r) ==
    /\ v.sig[Authority(p, r)].active = p.routes[r].direction
    /\ ~Occupied(v, p.routes[r].entrance)
    /\ p.routes[r].blocks \subseteq v.clear
    /\ \A fact \in p.routes[r].home : AheadUp(p, v, fact)

\* A route that is examined knocks its own lever down or nobody's, and its mast
\* proceeds only for what was shown to it.
LEMMA RouteStep ==
    ASSUME NEW p, WellFormed(p), NEW v \in View(p), NEW r \in DOMAIN p.routes,
           NEW w, w = RouteExamined(p, v, r), NEW a, a = Authority(p, r),
           NEW m, m = p.routes[r].mast
    PROVE  /\ w.clear = v.clear /\ w.sr = v.sr /\ w.hr = v.hr /\ w.cleared = v.cleared
           /\ \A l \in Levers : l # a => w.sig[l] = v.sig[l]
           /\ w.sig[a] # v.sig[a] =>
                /\ w.sig[a] = Knockdown(v.sig[a])
                /\ v.sig[a].active = p.routes[r].direction
                /\ Occupied(v, p.routes[r].entrance)
           /\ \A x \in p.masts : x # m => w.mast[x] = v.mast[x]
           /\ w.mast[m] # "STOP" => v.mast[m] # "STOP" \/ ShownFor(p, v, r)
PROOF
<1>0. a \in Levers /\ m \in p.masts
  BY DEF WellFormed
<1>1. CASE w = v
  BY <1>1
<1>2. CASE w = [v EXCEPT !.traversing = v.traversing \ {r}]
  <2>1. w.clear = v.clear /\ w.sr = v.sr /\ w.hr = v.hr /\ w.cleared = v.cleared
        /\ w.sig = v.sig /\ w.mast = v.mast
    BY <1>2 DEF View
  <2> QED
    BY <2>1
<1>3. CASE /\ HeldFor(p, v, r) /\ Occupied(v, p.routes[r].entrance)
           /\ w = [v EXCEPT !.sig[a] = Knockdown(v.sig[a]),
                            !.traversing = v.traversing \cup {r}]
  <2>1. /\ w.clear = v.clear /\ w.sr = v.sr /\ w.hr = v.hr /\ w.cleared = v.cleared
        /\ w.sig = [v.sig EXCEPT ![a] = Knockdown(v.sig[a])] /\ w.mast = v.mast
    BY <1>3 DEF View
  <2>2. v.sig \in [Levers -> SignalState({0, 1})]
    BY DEF View
  <2> QED
    BY <1>0, <1>3, <2>1, <2>2 DEF HeldFor
<1>4. CASE /\ HeldFor(p, v, r) /\ ~Occupied(v, p.routes[r].entrance)
           /\ w = [v EXCEPT !.traversing = v.traversing \ {r},
                            !.mast[m] = MorePermissive(v.mast[m], RouteIndication(p, v, r))]
  <2> DEFINE x == RouteIndication(p, v, r)
  <2>1. /\ w.clear = v.clear /\ w.sr = v.sr /\ w.hr = v.hr /\ w.cleared = v.cleared
        /\ w.sig = v.sig /\ w.mast = [v.mast EXCEPT ![m] = MorePermissive(v.mast[m], x)]
    BY <1>4 DEF View
  <2>2. v.mast \in [p.masts -> Aspects]
    BY DEF View
  <2>3. x # "STOP" => ShownFor(p, v, r)
    <3>1. x # "STOP" => RouteClear(p, v, r)
      BY DEF RouteIndication
    <3> QED
      BY <1>4, <3>1, OnNow DEF ShownFor, HeldFor, RouteClear
  <2> HIDE DEF x
  <2>4. w.mast[m] = MorePermissive(v.mast[m], x)
    BY <1>0, <2>1, <2>2
  <2>5. w.mast[m] # "STOP" => v.mast[m] # "STOP" \/ x # "STOP"
    BY <2>4 DEF MorePermissive
  <2> QED
    BY <2>1, <2>2, <2>3, <2>5
<1> QED
  BY <1>1, <1>2, <1>3, <1>4 DEF RouteExamined

\* After all routes a mast proceeds for one of its own; a lever whose entrance
\* circuits are free is not knocked down.
LEMMA RoutesDone ==
    ASSUME NEW p, WellFormed(p), NEW v \in View(p), NEW w, w = RoutesExamined(p, v),
           LockedAtStop(v)
    PROVE  /\ w \in View(p) /\ LockedAtStop(w) /\ SameAhead(w, v) /\ w.hr = v.hr
           /\ \A m \in p.masts : w.mast[m] # "STOP" =>
                \E r \in RoutesOf(p, m) :
                  p.routes[r].direction # "STOP" => ShownFor(p, v, r)
           /\ \A l \in Levers : w.sig[l].active \in {v.sig[l].active, "STOP"}
           /\ \A r \in DOMAIN p.routes :
                /\ v.sig[Authority(p, r)].active = p.routes[r].direction
                /\ \A q \in DOMAIN p.routes :
                     /\ Authority(p, q) = Authority(p, r)
                     /\ p.routes[q].direction = p.routes[r].direction
                     => ~Occupied(v, p.routes[q].entrance)
                => w.sig[Authority(p, r)].active = p.routes[r].direction
PROOF
<1> DEFINE s == p.routeOrder
           n == Len(s)
           dark == [v EXCEPT !.mast = [m \in DOMAIN v.mast |-> "STOP"]]
           Levers1(u) ==
             \A l \in Levers :
               /\ u.sig[l].timeLock = v.sig[l].timeLock
               /\ u.sig[l].active \in {v.sig[l].active, "STOP"}
           Masts(u) ==
             \A m \in p.masts : u.mast[m] # "STOP" =>
                \E r \in RoutesOf(p, m) :
                  p.routes[r].direction # "STOP" => ShownFor(p, v, r)
           Free(r) == /\ v.sig[Authority(p, r)].active = p.routes[r].direction
                      /\ \A q \in DOMAIN p.routes :
                           /\ Authority(p, q) = Authority(p, r)
                           /\ p.routes[q].direction = p.routes[r].direction
                           => ~Occupied(v, p.routes[q].entrance)
           Kept(u) ==
             /\ u.clear = v.clear /\ u.sr = v.sr /\ u.cleared = v.cleared /\ u.hr = v.hr
             /\ Levers1(u) /\ Masts(u)
             /\ \A r \in DOMAIN p.routes :
                  Free(r) => u.sig[Authority(p, r)].active = p.routes[r].direction
<1>0. n \in Nat
  BY LenProperties DEF WellFormed
<1>1. PICK f : /\ f[0] = dark
               /\ \A i \in 1 .. n :
                    /\ i - 1 \in 0 .. n
                    /\ s[i] \in DOMAIN p.routes
                    /\ f[i - 1] \in View(p) /\ f[i] \in View(p)
                    /\ f[i] = RouteExamined(p, f[i - 1], s[i])
               /\ w = f[n] /\ w \in View(p)
  BY RoutesLoop
<1>2. Kept(dark)
  <2>1. /\ dark.clear = v.clear /\ dark.sr = v.sr /\ dark.cleared = v.cleared
        /\ dark.hr = v.hr /\ dark.sig = v.sig
        /\ \A m \in p.masts : dark.mast[m] = "STOP"
    BY DEF View
  <2> HIDE DEF dark
  <2> QED
    BY <2>1
<1> DEFINE G == {i \in Nat : i <= n => Kept(f[i])}
<1>3. ASSUME NEW i \in Nat, i < n, i \in G
      PROVE  i + 1 \in G
  <2>1. i + 1 \in 1 .. n /\ (i + 1) - 1 = i /\ Kept(f[i])
    BY <1>0, <1>3
  <2> DEFINE u == f[i]
             x == f[i + 1]
             r == s[i + 1]
             a == Authority(p, r)
             m == p.routes[r].mast
  <2>2. u \in View(p) /\ r \in DOMAIN p.routes /\ x = RouteExamined(p, u, r)
    BY <1>1, <2>1
  <2>3. a \in Levers /\ m \in p.masts /\ r \in RoutesOf(p, m)
    BY <2>2 DEF WellFormed, RoutesOf
  <2>a. a = Authority(p, r) /\ m = p.routes[r].mast
    OBVIOUS
  <2>6. Kept(u)
    BY <2>1
  <2> HIDE DEF u, x, r, a, m
  <2>4. /\ x.clear = u.clear /\ x.sr = u.sr /\ x.hr = u.hr /\ x.cleared = u.cleared
        /\ \A l \in Levers : l # a => x.sig[l] = u.sig[l]
        /\ x.sig[a] # u.sig[a] =>
             /\ x.sig[a] = Knockdown(u.sig[a])
             /\ u.sig[a].active = p.routes[r].direction
             /\ Occupied(u, p.routes[r].entrance)
        /\ \A y \in p.masts : y # m => x.mast[y] = u.mast[y]
        /\ x.mast[m] # "STOP" => u.mast[m] # "STOP" \/ ShownFor(p, u, r)
    BY <2>2, <2>a, RouteStep
  <2>5. u.sig[a] \in SignalState({0, 1})
    BY <2>2, <2>3 DEF View
  <2>7. \/ x.sig[a] = u.sig[a]
        \/ /\ x.sig[a].active = "STOP" /\ x.sig[a].timeLock = u.sig[a].timeLock
           /\ u.sig[a].active = p.routes[r].direction
           /\ Occupied(u, p.routes[r].entrance)
    BY <2>4, <2>5 DEF Knockdown, SignalState
  <2>8. Levers1(x)
    BY <2>3, <2>4, <2>6, <2>7
  <2>9. ShownFor(p, u, r) /\ p.routes[r].direction # "STOP" => ShownFor(p, v, r)
    <3>1. SUFFICES ASSUME ShownFor(p, u, r), p.routes[r].direction # "STOP"
                   PROVE  ShownFor(p, v, r)
      OBVIOUS
    <3>2. v.sig[a].active = p.routes[r].direction
      BY <2>3, <2>6, <3>1 DEF ShownFor, a
    <3>3. SameAhead(u, v)
      BY <2>6 DEF SameAhead
    <3>4. \A fact \in p.routes[r].home : AheadUp(p, v, fact)
      BY <3>1, <3>3, AheadKept DEF ShownFor
    <3>5. ~Occupied(v, p.routes[r].entrance) /\ p.routes[r].blocks \subseteq v.clear
      BY <2>6, <3>1 DEF ShownFor, Occupied
    <3> QED
      BY <3>2, <3>4, <3>5 DEF ShownFor, a
  <2>10. Masts(x)
    <3>1. ASSUME NEW y \in p.masts, x.mast[y] # "STOP"
          PROVE  \E q \in RoutesOf(p, y) :
                   p.routes[q].direction # "STOP" => ShownFor(p, v, q)
      <4>1. CASE u.mast[y] # "STOP"
        BY <2>6, <4>1
      <4>2. CASE u.mast[y] = "STOP"
        <5>1. y = m /\ ShownFor(p, u, r)
          BY <2>4, <3>1, <4>2
        <5> QED
          BY <2>3, <2>9, <5>1
      <4> QED
        BY <4>1, <4>2
    <3> QED
      BY <3>1
  <2>11. ASSUME NEW q \in DOMAIN p.routes, Free(q)
         PROVE  x.sig[Authority(p, q)].active = p.routes[q].direction
    <3>1. Authority(p, q) \in Levers
      BY DEF WellFormed
    <3>2. u.sig[Authority(p, q)].active = p.routes[q].direction
      BY <2>6, <2>11
    <3>3. CASE Authority(p, q) = a /\ x.sig[a] # u.sig[a]
      <4>1. p.routes[r].direction = p.routes[q].direction /\ Occupied(u, p.routes[r].entrance)
        BY <2>4, <3>2, <3>3
      <4>2. Occupied(v, p.routes[r].entrance)
        BY <2>6, <4>1 DEF Occupied
      <4> QED
        BY <2>2, <2>11, <3>3, <4>1, <4>2 DEF a, r
    <3>4. CASE ~(Authority(p, q) = a /\ x.sig[a] # u.sig[a])
      BY <2>4, <3>1, <3>2, <3>4
    <3> QED
      BY <3>3, <3>4
  <2>12. x.clear = v.clear /\ x.sr = v.sr /\ x.cleared = v.cleared /\ x.hr = v.hr
    BY <2>4, <2>6
  <2>13. Kept(x)
    BY <2>8, <2>10, <2>11, <2>12
  <2> QED
    BY <2>13 DEF x
<1>4. \A i \in Nat : i < n /\ i \in G => i + 1 \in G
  BY <1>3
<1>5. 0 \in G
  BY <1>1, <1>2
<1> HIDE DEF G, n
<1>6. n \in G
  BY <1>0, <1>5, <1>4, Counting
<1>7. Kept(w)
  BY <1>0, <1>1, <1>6 DEF G
<1>8. LockedAtStop(w)
  <2>1. \A l \in Levers : /\ w.sig[l].timeLock = v.sig[l].timeLock
                          /\ w.sig[l].active \in {v.sig[l].active, "STOP"}
    BY <1>7
  <2> QED
    BY <2>1 DEF LockedAtStop
<1>9. SameAhead(w, v)
  BY <1>7 DEF SameAhead
<1> QED
  BY <1>1, <1>7, <1>8, <1>9


-----------------------------------------------------------------------------
\* Signal a had its blocks clear and the fact ahead of it asserted.
Heeded(p, v, a) == p.signals[a].governs \subseteq v.clear /\ AheadUp(p, v, p.signals[a].h)

\* What a signal heeds stays so for whoever reads the same.
LEMMA HeededKept ==
    ASSUME NEW p, NEW u, NEW v, NEW a, Heeded(p, u, a), SameAhead(u, v)
    PROVE  Heeded(p, v, a)
PROOF
<1>1. AheadUp(p, v, p.signals[a].h)
  BY AheadKept DEF Heeded
<1> QED
  BY <1>1 DEF Heeded, SameAhead

\* An automatic signal proceeds with its blocks clear and the fact ahead asserted.
LEMMA AutomaticStep ==
    ASSUME NEW p, WellFormed(p), NEW v \in View(p), NEW a \in DOMAIN p.signals,
           NEW w, w = AutomaticExamined(p, v, a)
    PROVE  /\ w.clear = v.clear /\ w.sr = v.sr /\ w.hr = v.hr /\ w.cleared = v.cleared
           /\ w.sig = v.sig
           /\ \A m \in p.masts : m # a => w.mast[m] = v.mast[m]
           /\ w.mast[a] # "STOP" => Heeded(p, v, a)
PROOF
<1> DEFINE x == AutomaticIndication(p, v, a)
<1>1. a \in p.masts /\ v.mast \in [p.masts -> Aspects]
  BY DEF WellFormed, View
<1>2. x # "STOP" => Heeded(p, v, a)
  <2>1. x # "STOP" => p.signals[a].governs \subseteq v.clear /\ On(p, v, p.signals[a].h)
    BY DEF AutomaticIndication
  <2> HIDE DEF x
  <2> QED
    BY <2>1, OnNow DEF Heeded
<1>3. /\ w.clear = v.clear /\ w.sr = v.sr /\ w.hr = v.hr /\ w.cleared = v.cleared
      /\ w.sig = v.sig /\ w.mast = [v.mast EXCEPT ![a] = x]
  BY DEF AutomaticExamined, View
<1> HIDE DEF x
<1> QED
  BY <1>1, <1>2, <1>3

\* So after all automatic signals.
LEMMA AutomaticsDone ==
    ASSUME NEW p, WellFormed(p), NEW v \in View(p), NEW w, w = AutomaticsExamined(p, v)
    PROVE  /\ w \in View(p) /\ w.sig = v.sig /\ w.hr = v.hr /\ SameAhead(w, v)
           /\ \A m \in p.masts : m \notin DOMAIN p.signals => w.mast[m] = v.mast[m]
           /\ \A a \in DOMAIN p.signals :
                w.mast[a] # "STOP" => v.mast[a] # "STOP" \/ Heeded(p, v, a)
PROOF
<1> DEFINE s == p.signalOrder
           n == Len(s)
           Kept(u) ==
             /\ u.sig = v.sig /\ u.hr = v.hr /\ u.clear = v.clear /\ u.sr = v.sr
             /\ u.cleared = v.cleared
             /\ \A m \in p.masts : m \notin DOMAIN p.signals => u.mast[m] = v.mast[m]
             /\ \A a \in DOMAIN p.signals :
                  u.mast[a] # "STOP" => v.mast[a] # "STOP" \/ Heeded(p, v, a)
<1>0. n \in Nat
  BY LenProperties DEF WellFormed
<1>1. PICK f : /\ f[0] = v
               /\ \A i \in 1 .. n :
                    /\ i - 1 \in 0 .. n
                    /\ s[i] \in DOMAIN p.signals
                    /\ f[i - 1] \in View(p) /\ f[i] \in View(p)
                    /\ f[i] = AutomaticExamined(p, f[i - 1], s[i])
               /\ w = f[n] /\ w \in View(p)
  BY AutomaticsLoop
<1> DEFINE G == {i \in Nat : i <= n => Kept(f[i])}
<1>2. 0 \in G
  BY <1>1
<1>3. ASSUME NEW i \in Nat, i < n, i \in G
      PROVE  i + 1 \in G
  <2>1. i + 1 \in 1 .. n /\ (i + 1) - 1 = i /\ Kept(f[i])
    BY <1>0, <1>3
  <2> DEFINE u == f[i]
             x == f[i + 1]
             b == s[i + 1]
  <2>2. u \in View(p) /\ b \in DOMAIN p.signals /\ x = AutomaticExamined(p, u, b)
    BY <1>1, <2>1
  <2>3. /\ x.clear = u.clear /\ x.sr = u.sr /\ x.hr = u.hr /\ x.cleared = u.cleared
        /\ x.sig = u.sig
        /\ \A m \in p.masts : m # b => x.mast[m] = u.mast[m]
        /\ x.mast[b] # "STOP" => Heeded(p, u, b)
    BY <2>2, AutomaticStep
  <2>4. Kept(u) /\ DOMAIN p.signals \subseteq p.masts
    BY <2>1 DEF WellFormed
  <2> HIDE DEF u, x, b
  <2>5. SameAhead(u, v)
    BY <2>4 DEF SameAhead
  <2>6. Heeded(p, u, b) => Heeded(p, v, b)
    BY <2>5, HeededKept
  <2>7. \A a \in DOMAIN p.signals :
          x.mast[a] # "STOP" => v.mast[a] # "STOP" \/ Heeded(p, v, a)
    BY <2>3, <2>4, <2>6
  <2>8. \A m \in p.masts : m \notin DOMAIN p.signals => x.mast[m] = v.mast[m]
    BY <2>2, <2>3, <2>4
  <2>9. Kept(x)
    BY <2>3, <2>4, <2>7, <2>8
  <2> QED
    BY <2>9 DEF x
<1>4. \A i \in Nat : i < n /\ i \in G => i + 1 \in G
  BY <1>3
<1> HIDE DEF G, n
<1>5. n \in G
  BY <1>0, <1>2, <1>4, Counting
<1>6. Kept(w)
  BY <1>0, <1>1, <1>5 DEF G
<1>7. SameAhead(w, v)
  BY <1>6 DEF SameAhead
<1> QED
  BY <1>1, <1>6, <1>7

\* An HR is latched up with the blocks clear and the fact ahead asserted.
LEMMA HRStep ==
    ASSUME NEW p, WellFormed(p), NEW v \in View(p), NEW a \in DOMAIN p.signals,
           NEW w, w = HRLatched(p, v, a)
    PROVE  /\ w.clear = v.clear /\ w.sr = v.sr /\ w.cleared = v.cleared
           /\ w.sig = v.sig /\ w.mast = v.mast
           /\ \A b : b # a => (b \in w.hr <=> b \in v.hr)
           /\ a \in w.hr => Heeded(p, v, a)
PROOF
<1> DEFINE up == IF HR(p, v, a) THEN v.hr \cup {a} ELSE v.hr \ {a}
<1>1. /\ w.clear = v.clear /\ w.sr = v.sr /\ w.cleared = v.cleared
      /\ w.sig = v.sig /\ w.mast = v.mast /\ w.hr = up
  BY DEF HRLatched, View
<1>2. HR(p, v, a) => Heeded(p, v, a)
  <2>1. SUFFICES ASSUME HR(p, v, a) PROVE Heeded(p, v, a)
    OBVIOUS
  <2>2. Out(a, "D") # None
    BY DEF WellFormed, Facts
  <2>3. Asserts(p, v)[<<Out(a, "D"), {}>>]
    BY <2>1, <2>2 DEF HR, On
  <2>4. /\ p.signals[a].governs \subseteq v.clear
        /\ p.signals[a].h = None \/ Asserts(p, v)[<<p.signals[a].h, {} \cup {a}>>]
    <3>1. {} \in SUBSET DOMAIN p.signals
      OBVIOUS
    <3> QED
      BY <2>3, <3>1, SignalHeard
  <2>5. SameAhead(v, v) /\ {} \cup {a} \in SUBSET DOMAIN p.signals
    BY DEF SameAhead
  <2>6. AheadUp(p, v, p.signals[a].h)
    BY <2>4, <2>5, Zenon DEF AheadUp
  <2> QED
    BY <2>4, <2>6 DEF Heeded
<1> QED
  BY <1>1, <1>2

\* So after all HRs.
LEMMA HRsDone ==
    ASSUME NEW p, WellFormed(p), NEW v \in View(p), NEW w, w = HRsLatched(p, v)
    PROVE  /\ w \in View(p) /\ w.sig = v.sig /\ w.mast = v.mast /\ SameAhead(w, v)
           /\ \A a \in w.hr : a \in ToSet(p.signalOrder) => Heeded(p, v, a)
PROOF
<1> DEFINE s == p.signalOrder
           n == Len(s)
           Kept(u) == /\ u.sig = v.sig /\ u.mast = v.mast /\ u.clear = v.clear
                      /\ u.sr = v.sr /\ u.cleared = v.cleared
           Seen(u, i) == \A j \in 1 .. i : s[j] \in u.hr => Heeded(p, v, s[j])
<1>0. n \in Nat
  BY LenProperties DEF WellFormed
<1>1. PICK f : /\ f[0] = v
               /\ \A i \in 1 .. n :
                    /\ i - 1 \in 0 .. n
                    /\ s[i] \in DOMAIN p.signals
                    /\ f[i - 1] \in View(p) /\ f[i] \in View(p)
                    /\ f[i] = HRLatched(p, f[i - 1], s[i])
               /\ w = f[n] /\ w \in View(p)
  BY HRsLoop
<1> DEFINE G == {i \in Nat : i <= n => Kept(f[i]) /\ Seen(f[i], i)}
<1>2. 0 \in G
  BY <1>1
<1>3. ASSUME NEW i \in Nat, i < n, i \in G
      PROVE  i + 1 \in G
  <2>1. i + 1 \in 1 .. n /\ (i + 1) - 1 = i /\ Kept(f[i]) /\ Seen(f[i], i)
    BY <1>0, <1>3
  <2> DEFINE u == f[i]
             x == f[i + 1]
             a == s[i + 1]
  <2>2. u \in View(p) /\ a \in DOMAIN p.signals /\ x = HRLatched(p, u, a)
    BY <1>1, <2>1
  <2>3. /\ x.clear = u.clear /\ x.sr = u.sr /\ x.cleared = u.cleared
        /\ x.sig = u.sig /\ x.mast = u.mast
        /\ \A b : b # a => (b \in x.hr <=> b \in u.hr)
        /\ a \in x.hr => Heeded(p, u, a)
    BY <2>2, HRStep
  <2>4. Kept(u) /\ Seen(u, i)
    BY <2>1
  <2> HIDE DEF u, x, a
  <2>5. SameAhead(u, v)
    BY <2>4 DEF SameAhead
  <2>6. Heeded(p, u, a) => Heeded(p, v, a)
    BY <2>5, HeededKept
  <2>7. ASSUME NEW j \in 1 .. i + 1, s[j] \in x.hr
        PROVE  Heeded(p, v, s[j])
    <3>1. CASE s[j] = a
      BY <2>3, <2>6, <2>7, <3>1
    <3>2. CASE s[j] # a
      <4>1. j \in 1 .. i
        BY <3>2 DEF a
      <4> QED
        BY <2>3, <2>4, <2>7, <3>2, <4>1
    <3> QED
      BY <3>1, <3>2
  <2>8. Kept(x)
    BY <2>3, <2>4
  <2> QED
    BY <2>7, <2>8 DEF x
<1>4. \A i \in Nat : i < n /\ i \in G => i + 1 \in G
  BY <1>3
<1> HIDE DEF G, n
<1>5. n \in G
  BY <1>0, <1>2, <1>4, Counting
<1>6. Kept(w) /\ Seen(w, n)
  BY <1>0, <1>1, <1>5 DEF G
<1>7. ASSUME NEW a \in w.hr, a \in ToSet(s)
      PROVE  Heeded(p, v, a)
  <2>1. PICK j \in 1 .. n : a = s[j]
    BY <1>7, LenProperties DEF ToSet, n, WellFormed
  <2> QED
    BY <1>6, <1>7, <2>1
<1>8. SameAhead(w, v)
  BY <1>6 DEF SameAhead
<1> QED
  BY <1>1, <1>6, <1>7, <1>8


\* A leaving signal of line l proceeds, as the line latches it.
Leaves(p, v, l) ==
    \E m \in p.lines[l].leaving : MastProceed(p, [v EXCEPT !.cleared = @ \ {l}], m)

\* A leaving signal of line l proceeded, whatever the lines had latched.
HasLeave(p, v, l) ==
    \E u : /\ u.clear = v.clear /\ u.sr = v.sr /\ u.sig = v.sig
           /\ \E m \in p.lines[l].leaving : MastProceed(p, u, m)

SameSignals(u, v) ==
    u.clear = v.clear /\ u.sr = v.sr /\ u.hr = v.hr /\ u.sig = v.sig /\ u.mast = v.mast

\* A line latches its own signals, and nothing of the others.
LEMMA LineStep ==
    ASSUME NEW p, NEW v \in View(p), NEW l \in DOMAIN p.lines,
           NEW w, w = LineLatched(p, PortsLatched(p, v, l), l)
    PROVE  /\ SameSignals(w, v)
           /\ \A k : k # l => (k \in w.cleared <=> k \in v.cleared)
           /\ l \in w.cleared <=> Leaves(p, v, l)
PROOF
<1> DEFINE u == PortsLatched(p, v, l)
           set == IF Leaves(p, v, l) THEN v.cleared \cup {l} ELSE v.cleared \ {l}
           x == LineLatched(p, u, l)
<1>1. u = [v EXCEPT !.cleared = set]
  <2>1. [v EXCEPT !.cleared = @ \ {l}].cleared \subseteq v.cleared
    BY DEF View
  <2>2. Leaves(p, v, l) <=>
          \E m \in p.lines[l].leaving : MastProceed(p, [v EXCEPT !.cleared = @ \ {l}], m)
    BY Zenon DEF Leaves
  <2> QED
    BY <2>2, Zenon DEF PortsLatched
<1>2. u \in View(p)
  BY PortsType
<1>3. SameSignals(u, v) /\ u.cleared = set
  BY <1>1 DEF View, SameSignals
<1>4. x.clear = u.clear /\ x.sr = u.sr /\ x.hr = u.hr /\ x.sig = u.sig /\ x.mast = u.mast
      /\ x.cleared = u.cleared
  <2> HIDE DEF u
  <2> QED
    BY <1>2 DEF LineLatched, View
<1>5. w = x
  OBVIOUS
<1> HIDE DEF x, u
<1> QED
  BY <1>3, <1>4, <1>5 DEF SameSignals

\* A leaving signal that proceeded did so for what is read at the end.
LEMMA LeaveKept ==
    ASSUME NEW p, NEW u, NEW v \in View(p), NEW l, Leaves(p, u, l), SameSignals(u, v),
           u \in View(p)
    PROVE  HasLeave(p, v, l)
PROOF
<1> DEFINE x == [u EXCEPT !.cleared = @ \ {l}]
<1>1. x.clear = v.clear /\ x.sr = v.sr /\ x.sig = v.sig
  BY DEF View, SameSignals
<1>2. \E m \in p.lines[l].leaving : MastProceed(p, x, m)
  BY Zenon DEF Leaves
<1> HIDE DEF x
<1> QED
  BY <1>1, <1>2, Zenon DEF HasLeave

\* After all lines, one that is latched had a leaving signal that proceeded, and
\* the one that is visited first has seen what the scan displayed.
LEMMA LinesDone ==
    ASSUME NEW p, WellFormed(p), NEW v \in View(p), NEW w, w = LinesLatched(p, v)
    PROVE  /\ w \in View(p) /\ SameSignals(w, v)
           /\ \A l \in ToSet(p.lineOrder) : l \in w.cleared => HasLeave(p, v, l)
           /\ /\ Len(p.lineOrder) > 0
              /\ \A j \in 2 .. Len(p.lineOrder) : p.lineOrder[j] # p.lineOrder[1]
              /\ Leaves(p, v, p.lineOrder[1])
              => p.lineOrder[1] \in w.cleared
PROOF
<1> DEFINE s == p.lineOrder
           n == Len(s)
           Seen(u, i) == \A j \in 1 .. i : s[j] \in u.cleared => HasLeave(p, v, s[j])
           Once == (\A j \in 2 .. n : s[j] # s[1]) /\ Leaves(p, v, s[1])
<1>0. n \in Nat
  BY LenProperties DEF WellFormed
<1>1. PICK f : /\ f[0] = v
               /\ \A i \in 1 .. n :
                    /\ i - 1 \in 0 .. n
                    /\ s[i] \in DOMAIN p.lines
                    /\ f[i - 1] \in View(p) /\ f[i] \in View(p)
                    /\ f[i] = LineLatched(p, PortsLatched(p, f[i - 1], s[i]), s[i])
               /\ w = f[n] /\ w \in View(p)
  BY LinesLoop
<1> DEFINE G == {i \in Nat : i <= n =>
                   /\ SameSignals(f[i], v) /\ Seen(f[i], i)
                   /\ i > 0 /\ Once => s[1] \in f[i].cleared}
<1>2. 0 \in G
  BY <1>1 DEF SameSignals
<1>3. ASSUME NEW i \in Nat, i < n, i \in G
      PROVE  i + 1 \in G
  <2>1. /\ i + 1 \in 1 .. n /\ (i + 1) - 1 = i
        /\ SameSignals(f[i], v) /\ Seen(f[i], i)
        /\ i > 0 /\ Once => s[1] \in f[i].cleared
    BY <1>0, <1>3
  <2> DEFINE u == f[i]
             x == f[i + 1]
             l == s[i + 1]
  <2>2. /\ u \in View(p) /\ l \in DOMAIN p.lines
        /\ x = LineLatched(p, PortsLatched(p, u, l), l)
    BY <1>1, <2>1
  <2>3. /\ SameSignals(x, u)
        /\ \A k : k # l => (k \in x.cleared <=> k \in u.cleared)
        /\ l \in x.cleared <=> Leaves(p, u, l)
    BY <2>2, LineStep
  <2>4. SameSignals(u, v) /\ Seen(u, i) /\ (i > 0 /\ Once => s[1] \in u.cleared)
    BY <2>1
  <2>5. i = 0 => u = v
    BY <1>1
  <2> HIDE DEF u, x, l
  <2>6. SameSignals(x, v)
    BY <2>3, <2>4 DEF SameSignals
  <2>7. Leaves(p, u, l) => HasLeave(p, v, l)
    BY <2>2, <2>4, LeaveKept
  <2>8. ASSUME NEW j \in 1 .. i + 1, s[j] \in x.cleared
        PROVE  HasLeave(p, v, s[j])
    <3>1. CASE s[j] = l
      BY <2>3, <2>7, <2>8, <3>1
    <3>2. CASE s[j] # l
      <4>1. j \in 1 .. i
        BY <3>2 DEF l
      <4> QED
        BY <2>3, <2>4, <2>8, <3>2, <4>1
    <3> QED
      BY <3>1, <3>2
  <2>9. ASSUME Once
        PROVE  s[1] \in x.cleared
    <3>1. CASE i = 0
      BY <2>3, <2>5, <2>9, <3>1 DEF l
    <3>2. CASE i # 0
      <4>1. i + 1 \in 2 .. n
        BY <1>0, <1>3, <3>2
      <4>2. l # s[1]
        BY <2>9, <4>1 DEF l
      <4> QED
        BY <2>3, <2>4, <2>9, <3>2, <4>2
    <3> QED
      BY <3>1, <3>2
  <2>10. SameSignals(x, v) /\ Seen(x, i + 1) /\ (i + 1 > 0 /\ Once => s[1] \in x.cleared)
    BY <2>6, <2>8, <2>9
  <2> QED
    BY <2>10 DEF x
<1>4. \A i \in Nat : i < n /\ i \in G => i + 1 \in G
  BY <1>3
<1> HIDE DEF G, n, Once
<1>5. n \in G
  BY <1>0, <1>2, <1>4, Counting
<1>6. SameSignals(w, v) /\ Seen(w, n) /\ (n > 0 /\ Once => s[1] \in w.cleared)
  BY <1>0, <1>1, <1>5 DEF G
<1>7. ASSUME NEW l \in ToSet(s), l \in w.cleared
      PROVE  HasLeave(p, v, l)
  <2>1. PICK j \in 1 .. n : l = s[j]
    BY <1>7, LenProperties DEF ToSet, n, WellFormed
  <2> QED
    BY <1>6, <1>7, <2>1
<1> QED
  BY <1>1, <1>6, <1>7 DEF Once, n
=============================================================================
