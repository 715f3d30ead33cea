----------------------------- MODULE Block_proofs -----------------------------
(***************************************************************************)
(* Absolute permissive block, of any length and with any trains: no two    *)
(* trains on one circuit, the far end locked out, and one end cleared.     *)
(*                                                                         *)
(* An H that is asserted at one place speaks for all places beyond, by the *)
(* chain of the signals' H up to the line at the far end.  BlockInv says   *)
(* what follows for masts and trains; the trains' moves keep it because of *)
(* what the masts promise, and the scan because of where trains stand.     *)
(***************************************************************************)
EXTENDS BlockScan_proofs

-----------------------------------------------------------------------------
(* The row of places.                                                      *)

\* The place at distance k from the end that trains of this way go to.
At(p, way, k) == IF way = "SOUTH" THEN Len(p.track) - k ELSE 1 + k

\* The places that there are, in that order.
Row(p, way) ==
    LET n == Len(p.track)
        P(k) == At(p, way, k)
    IN /\ n \in Nat /\ n > 3 /\ DOMAIN p.track = 1 .. n
       /\ \A i \in 1 .. n : \E k \in 0 .. n - 1 : i = P(k)
       /\ \A k \in 0 .. n - 1 : P(k) \in 1 .. n
       /\ \A k \in 1 .. n : Ahead(way, P(k)) = P(k - 1)
       /\ \A k \in 0 .. n : Ahead(Opposite(way), P(k)) = P(k + 1)
       /\ Final(p, way) = P(0) /\ First(p, way) = P(n - 1) /\ Second(p, way) = P(n - 2)
       /\ \A k \in 0 .. n - 1 : P(k) \in SignalPlaces(p, way) <=> k \in 1 .. n - 3
       /\ \A k \in 0 .. n - 1 : Beyond(p, way, P(k)) = {P(j) : j \in 0 .. k}
       /\ \A j, k \in 0 .. n - 1 : P(j) = P(k) => j = k

\* A track of more than three circuits is such a row.
LEMMA Places ==
    ASSUME NEW p, WellFormed(p), Len(p.track) > 3, NEW way \in Ways
    PROVE  Row(p, way)
PROOF
<1> DEFINE n == Len(p.track)
<1>1. n \in Nat /\ DOMAIN p.track = 1 .. n /\ n > 3
  BY LenProperties DEF WellFormed
<1> HIDE DEF n
<1>2. CASE way = "SOUTH"
  <2>1. /\ \A k : At(p, way, k) = n - k
        /\ \A i : Ahead(way, i) = i + 1 /\ Ahead(Opposite(way), i) = i - 1
        /\ Final(p, way) = n /\ First(p, way) = 1 /\ Second(p, way) = 2
        /\ \A i : Beyond(p, way, i) = {j \in 1 .. n : j >= i}
    BY <1>1, <1>2 DEF At, Ahead, Opposite, Final, First, Second, Beyond, n
  <2>2. SignalPlaces(p, way) = 1 .. n \ {1, 2, n}
    BY <1>1, <2>1 DEF SignalPlaces
  <2>3. ASSUME NEW i \in 1 .. n
        PROVE  \E k \in 0 .. n - 1 : i = n - k
    <3>1. n - i \in 0 .. n - 1 /\ i = n - (n - i)
      BY <1>1
    <3> QED
      BY <3>1
  <2>4. ASSUME NEW k \in 0 .. n - 1
        PROVE  {j \in 1 .. n : j >= n - k} = {n - j : j \in 0 .. k}
    <3>1. ASSUME NEW j \in 1 .. n, j >= n - k
          PROVE  j \in {n - x : x \in 0 .. k}
      <4>1. n - j \in 0 .. k /\ j = n - (n - j)
        BY <1>1, <2>4, <3>1
      <4> QED
        BY <4>1
    <3>2. \A j \in 0 .. k : n - j \in 1 .. n /\ n - j >= n - k
      BY <1>1, <2>4
    <3> QED
      BY <3>1, <3>2
  <2>5. \A k \in 0 .. n - 1 : n - k \in 1 .. n /\ (n - k \in 1 .. n \ {1, 2, n} <=> k \in 1 .. n - 3)
    BY <1>1
  <2>6. \A k \in 0 .. n : (n - k) - 1 = n - (k + 1)
    BY <1>1
  <2>7. \A k \in 1 .. n : (n - k) + 1 = n - (k - 1)
    BY <1>1
  <2>8. n = n - 0 /\ 1 = n - (n - 1) /\ 2 = n - (n - 2)
        /\ \A j, k \in 0 .. n - 1 : n - j = n - k => j = k
    BY <1>1
  <2>9. \A k \in 0 .. n - 1 : At(p, way, k) \in SignalPlaces(p, way) <=> k \in 1 .. n - 3
    BY <2>1, <2>2, <2>5
  <2>10. ASSUME NEW k \in 0 .. n - 1
         PROVE  Beyond(p, way, At(p, way, k)) = {At(p, way, j) : j \in 0 .. k}
    <3>1. {At(p, way, j) : j \in 0 .. k} = {n - j : j \in 0 .. k}
      BY <2>1
    <3>2. Beyond(p, way, At(p, way, k)) = {j \in 1 .. n : j >= n - k}
      BY <2>1
    <3>3. {j \in 1 .. n : j >= n - k} = {n - j : j \in 0 .. k}
      BY <2>4
    <3> QED
      BY <3>1, <3>2, <3>3
  <2>11. /\ \A k \in 1 .. n : Ahead(way, At(p, way, k)) = At(p, way, k - 1)
         /\ \A k \in 0 .. n : Ahead(Opposite(way), At(p, way, k)) = At(p, way, k + 1)
    BY <2>1, <2>6, <2>7
  <2>12. /\ \A i \in 1 .. n : \E k \in 0 .. n - 1 : i = At(p, way, k)
         /\ \A k \in 0 .. n - 1 : At(p, way, k) \in 1 .. n
    BY <2>1, <2>3, <2>5
  <2>13. /\ Final(p, way) = At(p, way, 0) /\ First(p, way) = At(p, way, n - 1)
         /\ Second(p, way) = At(p, way, n - 2)
         /\ \A j, k \in 0 .. n - 1 : At(p, way, j) = At(p, way, k) => j = k
    BY <2>1, <2>8
  <2> QED
    BY <1>1, <2>9, <2>10, <2>11, <2>12, <2>13, Zenon DEF Row, n
<1>3. CASE way = "NORTH"
  <2>1. /\ \A k : At(p, way, k) = 1 + k
        /\ \A i : Ahead(way, i) = i - 1 /\ Ahead(Opposite(way), i) = i + 1
        /\ Final(p, way) = 1 /\ First(p, way) = n /\ Second(p, way) = n - 1
        /\ \A i : Beyond(p, way, i) = {j \in 1 .. n : j <= i}
    BY <1>1, <1>3 DEF At, Ahead, Opposite, Final, First, Second, Beyond, n
  <2>2. SignalPlaces(p, way) = 1 .. n \ {n, n - 1, 1}
    BY <1>1, <2>1 DEF SignalPlaces
  <2>3. ASSUME NEW i \in 1 .. n
        PROVE  \E k \in 0 .. n - 1 : i = 1 + k
    <3>1. i - 1 \in 0 .. n - 1 /\ i = 1 + (i - 1)
      BY <1>1
    <3> QED
      BY <3>1
  <2>4. ASSUME NEW k \in 0 .. n - 1
        PROVE  {j \in 1 .. n : j <= 1 + k} = {1 + j : j \in 0 .. k}
    <3>1. ASSUME NEW j \in 1 .. n, j <= 1 + k
          PROVE  j \in {1 + x : x \in 0 .. k}
      <4>1. j - 1 \in 0 .. k /\ j = 1 + (j - 1)
        BY <1>1, <2>4, <3>1
      <4> QED
        BY <4>1
    <3>2. \A j \in 0 .. k : 1 + j \in 1 .. n /\ 1 + j <= 1 + k
      BY <1>1, <2>4
    <3> QED
      BY <3>1, <3>2
  <2>5. \A k \in 0 .. n - 1 : 1 + k \in 1 .. n
                              /\ (1 + k \in 1 .. n \ {n, n - 1, 1} <=> k \in 1 .. n - 3)
    BY <1>1
  <2>6. \A k \in 0 .. n : (1 + k) + 1 = 1 + (k + 1)
    BY <1>1
  <2>7. \A k \in 1 .. n : (1 + k) - 1 = 1 + (k - 1)
    BY <1>1
  <2>8. 1 = 1 + 0 /\ n = 1 + (n - 1) /\ n - 1 = 1 + (n - 2)
        /\ \A j, k \in 0 .. n - 1 : 1 + j = 1 + k => j = k
    BY <1>1
  <2>9. \A k \in 0 .. n - 1 : At(p, way, k) \in SignalPlaces(p, way) <=> k \in 1 .. n - 3
    BY <2>1, <2>2, <2>5
  <2>10. ASSUME NEW k \in 0 .. n - 1
         PROVE  Beyond(p, way, At(p, way, k)) = {At(p, way, j) : j \in 0 .. k}
    <3>1. {At(p, way, j) : j \in 0 .. k} = {1 + j : j \in 0 .. k}
      BY <2>1
    <3>2. Beyond(p, way, At(p, way, k)) = {j \in 1 .. n : j <= 1 + k}
      BY <2>1
    <3>3. {j \in 1 .. n : j <= 1 + k} = {1 + j : j \in 0 .. k}
      BY <2>4
    <3> QED
      BY <3>1, <3>2, <3>3
  <2>11. /\ \A k \in 1 .. n : Ahead(way, At(p, way, k)) = At(p, way, k - 1)
         /\ \A k \in 0 .. n : Ahead(Opposite(way), At(p, way, k)) = At(p, way, k + 1)
    BY <2>1, <2>6, <2>7
  <2>12. /\ \A i \in 1 .. n : \E k \in 0 .. n - 1 : i = At(p, way, k)
         /\ \A k \in 0 .. n - 1 : At(p, way, k) \in 1 .. n
    BY <2>1, <2>3, <2>5
  <2>13. /\ Final(p, way) = At(p, way, 0) /\ First(p, way) = At(p, way, n - 1)
         /\ Second(p, way) = At(p, way, n - 2)
         /\ \A j, k \in 0 .. n - 1 : At(p, way, j) = At(p, way, k) => j = k
    BY <2>1, <2>8
  <2> QED
    BY <1>1, <2>9, <2>10, <2>11, <2>12, <2>13, Zenon DEF Row, n
<1> QED
  BY <1>2, <1>3 DEF Ways

-----------------------------------------------------------------------------
(* A chain of signals.                                                     *)

\* What is so when the H of what lies at place i is asserted.
UpFrom(p, v, way, i) ==
    /\ p.track[Ahead(Opposite(way), i)] \in v.clear
    /\ \/ ClearFrom(p, way, i, v.clear) /\ p.far[way] \notin v.cleared
       \/ StickUp(p, way, v.sr)

\* The H at the far end is that of the line.
LEMMA FinalUp ==
    ASSUME NEW p, WellFormed(p), Len(p.track) > 3, NEW way \in Ways, FarLine(p, way), NEW v,
           NEW B \in SUBSET DOMAIN p.signals
    PROVE  Asserts(p, v)[<<HAt(p, way, Final(p, way)), B>>] = LineH(p, v, p.far[way])
  BY LineHeard DEF FarLine, HAt

\* An H that is asserted, anywhere in the chain: the circuit before it is clear,
\* and all beyond are too unless a stick is up for this way.
LEMMA ChainUp ==
    ASSUME NEW p, WellFormed(p), Len(p.track) > 3,
           NEW way \in Ways, ChainOfSignals(p, way), FarLine(p, way), NEW v,
           NEW B \in SUBSET DOMAIN p.signals,
           NEW i \in SignalPlaces(p, way) \cup {Final(p, way)},
           Asserts(p, v)[<<HAt(p, way, i), B>>]
    PROVE  UpFrom(p, v, way, i)
PROOF
<1> DEFINE n == Len(p.track)
           P(k) == At(p, way, k)
           G == {k \in Nat : k <= n - 3 =>
                   \A X \in SUBSET DOMAIN p.signals :
                     Asserts(p, v)[<<HAt(p, way, P(k)), X>>] => UpFrom(p, v, way, P(k))}
<1>0. /\ n \in Nat /\ n > 3 /\ DOMAIN p.track = 1 .. n
      /\ \A j \in 1 .. n : \E k \in 0 .. n - 1 : j = P(k)
      /\ \A k \in 0 .. n - 1 : P(k) \in 1 .. n
      /\ \A k \in 1 .. n : Ahead(way, P(k)) = P(k - 1)
      /\ \A k \in 0 .. n : Ahead(Opposite(way), P(k)) = P(k + 1)
      /\ Final(p, way) = P(0)
      /\ \A k \in 0 .. n - 1 : P(k) \in SignalPlaces(p, way) <=> k \in 1 .. n - 3
      /\ \A k \in 0 .. n - 1 : Beyond(p, way, P(k)) = {P(j) : j \in 0 .. k}
      /\ \A j, k \in 0 .. n - 1 : P(j) = P(k) => j = k
  BY Places, Zenon DEF Row
<1>n. n \in Nat /\ n > 3
  BY <1>0
<1> HIDE DEF n, P
<1>1. 0 \in G
  <2>1. ASSUME NEW X \in SUBSET DOMAIN p.signals,
               Asserts(p, v)[<<HAt(p, way, P(0)), X>>]
        PROVE  UpFrom(p, v, way, P(0))
    <3>0. Asserts(p, v)[<<HAt(p, way, Final(p, way)), X>>]
      BY <1>0, <2>1
    <3> HIDE DEF G
    <3>1. LineH(p, v, p.far[way])
      BY <3>0, FinalUp
    <3>2. /\ {p.track[Final(p, way)], p.track[Second(p, Opposite(way))]} \subseteq v.clear
          /\ p.far[way] \notin v.cleared
      BY <3>1 DEF LineH, FarLine, Cut
    <3>3. Second(p, Opposite(way)) = Ahead(Opposite(way), P(0))
      BY <1>0 DEF Second, Final
    <3>4. Beyond(p, way, P(0)) = {P(0)}
      <4>1. 0 \in 0 .. n - 1 /\ {P(j) : j \in 0 .. 0} = {P(0)}
        BY <1>0
      <4> QED
        BY <1>0, <4>1
    <3> QED
      BY <1>0, <3>2, <3>3, <3>4 DEF UpFrom, ClearFrom
  <2> QED
    BY <2>1
<1>2. ASSUME NEW k \in Nat, k < n - 3, k \in G
      PROVE  k + 1 \in G
  <2>1. ASSUME NEW X \in SUBSET DOMAIN p.signals,
               Asserts(p, v)[<<HAt(p, way, P(k + 1)), X>>]
        PROVE  UpFrom(p, v, way, P(k + 1))
    <3> DEFINE a == p.guard[way][P(k + 1)]
    <3>1. /\ k + 1 \in 1 .. n - 3 /\ k + 1 \in 0 .. n - 1 /\ k \in 0 .. n - 1 /\ k + 1 \in 1 .. n
          /\ k \in 0 .. n /\ k <= n - 3
      BY <1>n, <1>2
    <3>2. P(k + 1) \in SignalPlaces(p, way) /\ P(k + 1) # Final(p, way)
      BY <1>0, <3>1 DEF SignalPlaces
    <3>3. /\ a \in DOMAIN p.signals
          /\ p.signals[a].approach = {p.track[Ahead(Opposite(way), P(k + 1))]}
          /\ p.signals[a].h = HAt(p, way, P(k))
      <4>1. Ahead(way, P(k + 1)) = P(k)
        BY <1>0, <3>1
      <4> QED
        BY <3>2, <4>1 DEF ChainOfSignals
    <3>4. HAt(p, way, P(k + 1)) = Out(a, "H")
      BY <3>2 DEF HAt
    <3>5. /\ p.track[Ahead(Opposite(way), P(k + 1))] \in v.clear
          /\ \/ p.signals[a].h = None
             \/ Asserts(p, v)[<<p.signals[a].h, X \cup {a}>>]
             \/ a \in v.sr
      <4> HIDE DEF a
      <4>1. Asserts(p, v)[<<Out(a, "H"), X>>]
        BY <2>1, <3>4
      <4>2. p.signals[a].approach \subseteq v.clear
            /\ \/ p.signals[a].h = None
               \/ Asserts(p, v)[<<p.signals[a].h, X \cup {a}>>]
               \/ a \in v.sr
        BY <3>3, <4>1, SignalHeard
      <4> QED
        BY <3>3, <4>2
    <3>6. p.signals[a].h # None
      <4>1. p.signals[a].h \in Facts(p)
        <5>0. \A x \in DOMAIN p.signals \cup DOMAIN p.lines : Out(x, "H") \in Facts(p)
          BY DEF Facts
        <5>1. CASE P(k) = Final(p, way)
          <6>1. p.far[way] \in DOMAIN p.lines
            BY DEF FarLine
          <6>2. p.signals[a].h = Out(p.far[way], "H")
            BY <3>3, <5>1 DEF HAt
          <6> QED
            BY <5>0, <6>1, <6>2
        <5>2. CASE P(k) # Final(p, way)
          <6>1. k \in 1 .. n - 3
            BY <1>0, <3>1, <5>2
          <6>2. P(k) \in SignalPlaces(p, way)
            BY <1>0, <3>1, <6>1
          <6>3. p.guard[way][P(k)] \in DOMAIN p.signals
            BY <6>2 DEF ChainOfSignals
          <6>4. p.signals[a].h = Out(p.guard[way][P(k)], "H")
            BY <3>3, <5>2 DEF HAt
          <6> QED
            BY <5>0, <6>3, <6>4
        <5> QED
          BY <5>1, <5>2
      <4> QED
        BY <4>1 DEF WellFormed
    <3>7. CASE a \in v.sr
      BY <3>2, <3>5, <3>7 DEF UpFrom, StickUp
    <3>8. CASE Asserts(p, v)[<<p.signals[a].h, X \cup {a}>>]
      <4>1. X \cup {a} \in SUBSET DOMAIN p.signals
        BY <3>3
      <4>2. UpFrom(p, v, way, P(k))
        BY <1>2, <3>1, <3>3, <3>8, <4>1
      <4>3. Ahead(Opposite(way), P(k)) = P(k + 1)
        BY <1>0, <3>1
      <4>4. p.track[P(k + 1)] \in v.clear
        BY <4>2, <4>3 DEF UpFrom
      <4>5. Beyond(p, way, P(k + 1)) = Beyond(p, way, P(k)) \cup {P(k + 1)}
        <5>1. 0 .. k + 1 = (0 .. k) \cup {k + 1}
          BY <3>1
        <5>2. {P(j) : j \in 0 .. k + 1} = {P(j) : j \in 0 .. k} \cup {P(k + 1)}
          BY <5>1
        <5> QED
          BY <1>0, <3>1, <5>2
      <4> QED
        BY <3>5, <4>2, <4>4, <4>5 DEF UpFrom, ClearFrom
    <3> QED
      BY <3>5, <3>6, <3>7, <3>8
  <2> QED
    BY <2>1
<1>3. \A k \in Nat : k < n - 3 /\ k \in G => k + 1 \in G
  BY <1>2
<1> HIDE DEF G
<1>4. \A k \in 0 .. n - 3 : k \in G
  <2>1. n - 3 \in Nat
    BY <1>0
  <2> QED
    BY <1>1, <1>3, <2>1, Counting
<1>5. PICK k \in 0 .. n - 3 : i = P(k)
  <2>1. CASE i = Final(p, way)
    BY <1>0, <2>1
  <2>2. CASE i \in SignalPlaces(p, way)
    <3>1. i \in 1 .. n
      BY <1>0, <2>2 DEF SignalPlaces
    <3>2. PICK k \in 0 .. n - 1 : i = P(k)
      BY <1>0, <3>1
    <3>3. k \in 1 .. n - 3
      BY <1>0, <2>2, <3>2
    <3> QED
      BY <1>0, <3>2, <3>3
  <2> QED
    BY <2>1, <2>2
<1>6. UpFrom(p, v, way, P(k))
  <2>1. k \in G /\ k <= n - 3
    BY <1>n, <1>4
  <2>2. Asserts(p, v)[<<HAt(p, way, P(k)), B>>]
    BY <1>5
  <2> QED
    BY <2>1, <2>2 DEF G
<1> QED
  BY <1>5, <1>6

\* And it is asserted where all that is so, from the far end back.
LEMMA ChainHolds ==
    ASSUME NEW p, WellFormed(p), Len(p.track) > 3,
           NEW way \in Ways, ChainOfSignals(p, way), FarLine(p, way), NEW v,
           NEW i \in SignalPlaces(p, way) \cup {Final(p, way)},
           ClearFrom(p, way, Ahead(Opposite(way), i), v.clear),
           p.far[way] \notin v.cleared, ~InTime(p, v, p.far[way])
    PROVE  Asserts(p, v)[<<HAt(p, way, i), {}>>]
PROOF
<1> DEFINE n == Len(p.track)
           P(k) == At(p, way, k)
<1>0. /\ n \in Nat /\ n > 3 /\ DOMAIN p.track = 1 .. n
      /\ \A j \in 1 .. n : \E k \in 0 .. n - 1 : j = P(k)
      /\ \A k \in 0 .. n - 1 : P(k) \in 1 .. n
      /\ \A k \in 1 .. n : Ahead(way, P(k)) = P(k - 1)
      /\ \A k \in 0 .. n : Ahead(Opposite(way), P(k)) = P(k + 1)
      /\ Final(p, way) = P(0)
      /\ \A k \in 0 .. n - 1 : P(k) \in SignalPlaces(p, way) <=> k \in 1 .. n - 3
      /\ \A k \in 0 .. n - 1 : Beyond(p, way, P(k)) = {P(j) : j \in 0 .. k}
      /\ \A j, k \in 0 .. n - 1 : P(j) = P(k) => j = k
  BY Places, Zenon DEF Row
<1>n. n \in Nat /\ n > 3
  BY <1>0
<1> HIDE DEF n, P
<1>1. PICK m \in 0 .. n - 3 : i = P(m)
  <2>1. CASE i = Final(p, way)
    BY <1>0, <2>1
  <2>2. CASE i \in SignalPlaces(p, way)
    <3>1. i \in 1 .. n
      BY <1>0, <2>2 DEF SignalPlaces
    <3>2. PICK k \in 0 .. n - 1 : i = P(k)
      BY <1>0, <3>1
    <3>3. k \in 1 .. n - 3
      BY <1>0, <2>2, <3>2
    <3> QED
      BY <1>0, <3>2, <3>3
  <2> QED
    BY <2>1, <2>2
<1>2. \A j \in 0 .. m + 1 : p.track[P(j)] \in v.clear
  <2>1. m \in 0 .. n /\ m + 1 \in 0 .. n - 1
    BY <1>0
  <2>2. Ahead(Opposite(way), i) = P(m + 1)
    BY <1>0, <1>1, <2>1
  <2>3. Beyond(p, way, P(m + 1)) = {P(j) : j \in 0 .. m + 1}
    BY <1>0, <2>1
  <2> QED
    BY <2>2, <2>3 DEF ClearFrom
<1> DEFINE Free(X, k) == \A j \in 1 .. k : p.guard[way][P(j)] \notin X
           G == {k \in Nat : k <= m =>
                   \A X \in SUBSET DOMAIN p.signals :
                     Free(X, k) => Asserts(p, v)[<<HAt(p, way, P(k)), X>>]}
<1>3. 0 \in G
  <2>1. Second(p, Opposite(way)) = P(1)
    BY <1>0 DEF Second, Final
  <2>2. p.track[P(0)] \in v.clear /\ p.track[P(1)] \in v.clear
    <3>1. 0 \in 0 .. m + 1 /\ 1 \in 0 .. m + 1
      OBVIOUS
    <3> QED
      BY <1>2, <3>1
  <2>3. LineH(p, v, p.far[way])
    BY <1>0, <2>1, <2>2 DEF LineH, FarLine, Cut
  <2>4. \A X \in SUBSET DOMAIN p.signals : Asserts(p, v)[<<HAt(p, way, P(0)), X>>]
    BY <1>0, <2>3, FinalUp DEF n
  <2> QED
    BY <2>4
<1>4. ASSUME NEW k \in Nat, k < m, k \in G
      PROVE  k + 1 \in G
  <2>1. ASSUME NEW X \in SUBSET DOMAIN p.signals, Free(X, k + 1)
        PROVE  Asserts(p, v)[<<HAt(p, way, P(k + 1)), X>>]
    <3> DEFINE a == p.guard[way][P(k + 1)]
    <3>1. /\ k + 1 \in 1 .. n - 3 /\ k + 1 \in 0 .. n - 1 /\ k \in 0 .. n - 1 /\ k + 1 \in 1 .. n
          /\ k + 1 \in 0 .. n /\ k <= m /\ k + 2 \in 0 .. m + 1
          /\ (k + 1) + 1 = k + 2 /\ (k + 1) - 1 = k
      <4> HIDE DEF G
      <4> QED
        BY <1>n, <1>4
    <3>2. P(k + 1) \in SignalPlaces(p, way) /\ P(k + 1) # Final(p, way)
      BY <1>0, <3>1 DEF SignalPlaces
    <3>3. /\ a \in DOMAIN p.signals
          /\ p.signals[a].approach = {p.track[P(k + 2)]}
          /\ p.signals[a].h = HAt(p, way, P(k))
      <4>1. Ahead(way, P(k + 1)) = P(k) /\ Ahead(Opposite(way), P(k + 1)) = P(k + 2)
        BY <1>0, <3>1
      <4> QED
        BY <3>2, <4>1 DEF ChainOfSignals
    <3>4. HAt(p, way, P(k + 1)) = Out(a, "H")
      BY <3>2 DEF HAt
    <3>5. a \notin X
      BY <2>1, <3>1
    <3>6. Free(X \cup {a}, k)
      <4>1. ASSUME NEW j \in 1 .. k
            PROVE  p.guard[way][P(j)] \notin X \cup {a}
        <5>1. j \in 1 .. k + 1 /\ j \in 1 .. n - 3 /\ j \in 0 .. n - 1 /\ j # k + 1
          BY <1>0, <3>1
        <5>2. P(j) \in SignalPlaces(p, way) /\ P(j) # P(k + 1)
          BY <1>0, <3>1, <5>1
        <5>3. p.guard[way][P(j)] # a
          BY <3>2, <5>2 DEF ChainOfSignals
        <5> QED
          BY <2>1, <5>1, <5>3
      <4> QED
        BY <4>1
    <3>7. X \cup {a} \in SUBSET DOMAIN p.signals
      BY <3>3
    <3>8. Asserts(p, v)[<<p.signals[a].h, X \cup {a}>>]
      <4> HIDE DEF Free, a
      <4> QED
        BY <1>4, <3>1, <3>3, <3>6, <3>7
    <3>9. p.signals[a].approach \subseteq v.clear
      BY <1>2, <3>1, <3>3
    <3> HIDE DEF a
    <3> QED
      BY <3>3, <3>4, <3>5, <3>8, <3>9, SignalHeard
  <2> HIDE DEF Free
  <2> QED
    BY <2>1
<1>5. \A k \in Nat : k < m /\ k \in G => k + 1 \in G
  BY <1>4
<1>6. Free({}, m)
  BY SMT
<1> HIDE DEF G, Free
<1>7. m \in Nat /\ m \in G
  <2>1. m \in Nat /\ m \in 0 .. m
    BY <1>n
  <2> QED
    BY <1>3, <1>5, <2>1, Counting
<1>8. Asserts(p, v)[<<HAt(p, way, P(m)), {}>>]
  <2>1. \A X \in SUBSET DOMAIN p.signals :
          Free(X, m) => Asserts(p, v)[<<HAt(p, way, P(m)), X>>]
    BY <1>7 DEF G
  <2>2. {} \in SUBSET DOMAIN p.signals
    OBVIOUS
  <2> QED
    BY <1>6, <2>1, <2>2
<1> QED
  BY <1>1, <1>8

-----------------------------------------------------------------------------
(* A scan, by what its parts leave.                                        *)

\* b is what the levers left, d the sticks and e the signals.
ScanParts(p, v, clear, b, d, e, w) ==
    /\ b \in View(p) /\ d \in View(p) /\ e \in View(p) /\ w \in View(p)
    /\ LockedAtStop(b) /\ LockedAtStop(e) /\ LockedAtStop(w)
    /\ w.clear = clear
    /\ b.clear = clear /\ b.sr = v.sr /\ b.hr = v.hr /\ b.cleared = v.cleared
    /\ d.clear = clear /\ d.sig = b.sig /\ d.cleared = v.cleared /\ d.sr = w.sr
    /\ \A a \in w.sr : a \in v.sr \/ Passed(p, b, a)
    /\ \A a \in w.sr : a \in ToSet(p.signalOrder) => Passed(p, b, a) \/ KeptUp(p, b, a)
    /\ \A m \in p.masts : w.mast[m] # "STOP" =>
         \/ \E r \in RoutesOf(p, m) : p.routes[r].direction # "STOP" => ShownFor(p, d, r)
         \/ m \in DOMAIN p.signals /\ Heeded(p, d, m)
    /\ \A a \in w.hr : a \in ToSet(p.signalOrder) => Heeded(p, d, a)
    /\ \A l \in Levers : w.sig[l].active \in {d.sig[l].active, "STOP"}
    /\ \A r \in DOMAIN p.routes :
         /\ d.sig[Authority(p, r)].active = p.routes[r].direction
         /\ \A q \in DOMAIN p.routes :
              /\ Authority(p, q) = Authority(p, r)
              /\ p.routes[q].direction = p.routes[r].direction
              => ~Occupied(d, p.routes[q].entrance)
         => w.sig[Authority(p, r)].active = p.routes[r].direction
    /\ SameSignals(w, e) /\ e.cleared = v.cleared
    /\ \A l \in ToSet(p.lineOrder) : l \in w.cleared => HasLeave(p, w, l)
    /\ /\ Len(p.lineOrder) > 0
       /\ \A j \in 2 .. Len(p.lineOrder) : p.lineOrder[j] # p.lineOrder[1]
       /\ Leaves(p, e, p.lineOrder[1])
       => p.lineOrder[1] \in w.cleared

\* A scan has such parts.
LEMMA ScanDone ==
    ASSUME NEW p, WellFormed(p), NEW v \in View(p), LockedAtStop(v),
           NEW clear \in SUBSET p.circuits, NEW w, w = Scanned(p, v, clear)
    PROVE  \E b, d, e : ScanParts(p, v, clear, b, d, e, w)
PROOF
<1> DEFINE a == [v EXCEPT !.clear = clear]
           b == LeversEvaluated(p, a)
           d == SticksUpdated(p, b)
           x == RoutesExamined(p, d)
           y == AutomaticsExamined(p, x)
           e == HRsLatched(p, y)
<1>0. w = LinesLatched(p, e)
  BY DEF Scanned
<1>1. /\ a \in View(p) /\ LockedAtStop(a)
      /\ a.clear = clear /\ a.sr = v.sr /\ a.hr = v.hr /\ a.cleared = v.cleared
  BY DEF View, LockedAtStop
<1> HIDE DEF a
<1>2. /\ b \in View(p) /\ LockedAtStop(b)
      /\ b.clear = clear /\ b.sr = v.sr /\ b.hr = v.hr /\ b.cleared = v.cleared
  BY <1>1, LeversDone
<1> HIDE DEF b
<1>3. /\ d \in View(p)
      /\ d.clear = b.clear /\ d.sig = b.sig /\ d.hr = b.hr /\ d.cleared = b.cleared
      /\ \A k \in d.sr : k \in b.sr \/ Passed(p, b, k)
      /\ \A k \in d.sr : k \in ToSet(p.signalOrder) => Passed(p, b, k) \/ KeptUp(p, b, k)
  BY <1>2, SticksDone
<1> HIDE DEF d
<1>4. LockedAtStop(d)
  BY <1>2, <1>3 DEF LockedAtStop
<1>5. /\ x \in View(p) /\ LockedAtStop(x) /\ SameAhead(x, d)
      /\ \A m \in p.masts : x.mast[m] # "STOP" =>
           \E r \in RoutesOf(p, m) : p.routes[r].direction # "STOP" => ShownFor(p, d, r)
      /\ \A l \in Levers : x.sig[l].active \in {d.sig[l].active, "STOP"}
      /\ \A r \in DOMAIN p.routes :
           /\ d.sig[Authority(p, r)].active = p.routes[r].direction
           /\ \A q \in DOMAIN p.routes :
                /\ Authority(p, q) = Authority(p, r)
                /\ p.routes[q].direction = p.routes[r].direction
                => ~Occupied(d, p.routes[q].entrance)
           => x.sig[Authority(p, r)].active = p.routes[r].direction
  BY <1>3, <1>4, RoutesDone
<1> HIDE DEF x
<1>6. /\ y \in View(p) /\ y.sig = x.sig /\ SameAhead(y, x)
      /\ \A m \in p.masts : m \notin DOMAIN p.signals => y.mast[m] = x.mast[m]
      /\ \A k \in DOMAIN p.signals :
           y.mast[k] # "STOP" => x.mast[k] # "STOP" \/ Heeded(p, x, k)
  BY <1>5, AutomaticsDone
<1> HIDE DEF y
<1>7. /\ e \in View(p) /\ e.sig = y.sig /\ e.mast = y.mast /\ SameAhead(e, y)
      /\ \A k \in e.hr : k \in ToSet(p.signalOrder) => Heeded(p, y, k)
  BY <1>6, HRsDone
<1> HIDE DEF e
<1>8. /\ w \in View(p) /\ SameSignals(w, e)
      /\ \A l \in ToSet(p.lineOrder) : l \in w.cleared => HasLeave(p, e, l)
      /\ /\ Len(p.lineOrder) > 0
         /\ \A j \in 2 .. Len(p.lineOrder) : p.lineOrder[j] # p.lineOrder[1]
         /\ Leaves(p, e, p.lineOrder[1])
         => p.lineOrder[1] \in w.cleared
  BY <1>0, <1>7, LinesDone
<1>9. SameAhead(y, d)
  BY <1>5, <1>6 DEF SameAhead
<1>10. \A k : (Heeded(p, x, k) => Heeded(p, d, k)) /\ (Heeded(p, y, k) => Heeded(p, d, k))
  BY <1>5, <1>9, HeededKept
<1>11. \A l : HasLeave(p, e, l) => HasLeave(p, w, l)
  BY <1>8 DEF HasLeave, SameSignals
<1>12. w.clear = clear /\ d.sr = w.sr /\ e.cleared = v.cleared /\ w.sig = x.sig /\ w.hr = e.hr
       /\ w.mast = y.mast
  BY <1>2, <1>3, <1>5, <1>6, <1>7, <1>8 DEF SameAhead, SameSignals
<1>13. LockedAtStop(w) /\ LockedAtStop(e)
  BY <1>5, <1>6, <1>7, <1>12 DEF LockedAtStop
<1>14. ASSUME NEW m \in p.masts, w.mast[m] # "STOP"
       PROVE  \/ \E r \in RoutesOf(p, m) : p.routes[r].direction # "STOP" => ShownFor(p, d, r)
              \/ m \in DOMAIN p.signals /\ Heeded(p, d, m)
  <2>1. CASE x.mast[m] # "STOP"
    BY <1>5, <2>1
  <2>2. CASE x.mast[m] = "STOP"
    BY <1>6, <1>10, <1>12, <1>14, <2>2
  <2> QED
    BY <2>1, <2>2
<1>15. \A k \in w.hr : k \in ToSet(p.signalOrder) => Heeded(p, d, k)
  BY <1>7, <1>10, <1>12
<1>16. \A l \in ToSet(p.lineOrder) : l \in w.cleared => HasLeave(p, w, l)
  BY <1>8, <1>11
<1>17. /\ \A l \in Levers : w.sig[l].active \in {d.sig[l].active, "STOP"}
       /\ \A r \in DOMAIN p.routes :
            /\ d.sig[Authority(p, r)].active = p.routes[r].direction
            /\ \A q \in DOMAIN p.routes :
                 /\ Authority(p, q) = Authority(p, r)
                 /\ p.routes[q].direction = p.routes[r].direction
                 => ~Occupied(d, p.routes[q].entrance)
            => w.sig[Authority(p, r)].active = p.routes[r].direction
  BY <1>5, <1>12
<1>18. /\ d.clear = clear /\ d.cleared = v.cleared
       /\ \A k \in w.sr : k \in v.sr \/ Passed(p, b, k)
       /\ \A k \in w.sr : k \in ToSet(p.signalOrder) => Passed(p, b, k) \/ KeptUp(p, b, k)
  BY <1>2, <1>3, <1>12
<1>19. ScanParts(p, v, clear, b, d, e, w)
  BY <1>2, <1>3, <1>7, <1>8, <1>12, <1>13, <1>14, <1>15, <1>16, <1>17, <1>18, Zenon
     DEF ScanParts
<1> QED
  BY <1>19

-----------------------------------------------------------------------------
(* Places next to each other, and the ends.                                *)

\* The two ends of a track, and the places next to them.
LEMMA Endpoints ==
    ASSUME NEW p, WellFormed(p), Len(p.track) > 3, NEW way \in Ways
    PROVE  /\ Opposite(way) \in Ways /\ Opposite(way) # way /\ Opposite(Opposite(way)) = way
           /\ First(p, way) \in DOMAIN p.track /\ Final(p, way) \in DOMAIN p.track
           /\ Second(p, way) \in DOMAIN p.track
           /\ First(p, way) # Final(p, way)
           /\ Final(p, way) = First(p, Opposite(way)) /\ First(p, way) = Final(p, Opposite(way))
           /\ Ahead(way, First(p, way)) = Second(p, way)
           /\ Second(p, way) # First(p, way) /\ Second(p, way) # Final(p, way)
           /\ Ahead(way, Second(p, way)) \in SignalPlaces(p, way)
           /\ Ahead(Opposite(way), Ahead(way, Second(p, way))) = Second(p, way)
           /\ Second(p, Opposite(way)) \in SignalPlaces(p, way)
           /\ Beyond(p, way, First(p, way)) = DOMAIN p.track
PROOF
<1> DEFINE n == Len(p.track)
<1>1. n \in Nat /\ DOMAIN p.track = 1 .. n /\ n > 3
  BY LenProperties DEF WellFormed
<1> HIDE DEF n
<1>2. CASE way = "SOUTH"
  <2>1. /\ Opposite(way) = "NORTH" /\ Opposite("NORTH") = way
        /\ \A k : Ahead(way, k) = k + 1 /\ Ahead("NORTH", k) = k - 1
        /\ First(p, way) = 1 /\ First(p, "NORTH") = n
    BY <1>1, <1>2 DEF Ahead, Opposite, First, n
  <2>2. /\ Final(p, way) = n /\ Final(p, "NORTH") = 1
        /\ Second(p, way) = 1 + 1 /\ Second(p, "NORTH") = n - 1
        /\ Beyond(p, way, 1) = {x \in 1 .. n : x >= 1}
    BY <1>1, <1>2, <2>1 DEF Final, Second, Beyond
  <2>3. SignalPlaces(p, way) = 1 .. n \ {1, 1 + 1, n}
    BY <1>1, <2>1, <2>2 DEF SignalPlaces
  <2>4. /\ 1 \in 1 .. n /\ n \in 1 .. n /\ 1 + 1 \in 1 .. n /\ 1 # n
        /\ 1 + 1 # 1 /\ 1 + 1 # n
        /\ (1 + 1) + 1 \in 1 .. n \ {1, 1 + 1, n}
        /\ n - 1 \in 1 .. n \ {1, 1 + 1, n}
        /\ ((1 + 1) + 1) - 1 = 1 + 1
        /\ {x \in 1 .. n : x >= 1} = 1 .. n
    BY <1>1
  <2>5. Opposite(way) \in Ways /\ Opposite(way) # way
    BY <1>2, <2>1 DEF Ways
  <2> QED
    BY <1>1, <2>1, <2>2, <2>3, <2>4, <2>5
<1>3. CASE way = "NORTH"
  <2>1. /\ Opposite(way) = "SOUTH" /\ Opposite("SOUTH") = way
        /\ \A k : Ahead(way, k) = k - 1 /\ Ahead("SOUTH", k) = k + 1
        /\ First(p, way) = n /\ First(p, "SOUTH") = 1
    BY <1>1, <1>3 DEF Ahead, Opposite, First, n
  <2>2. /\ Final(p, way) = 1 /\ Final(p, "SOUTH") = n
        /\ Second(p, way) = n - 1 /\ Second(p, "SOUTH") = 1 + 1
        /\ Beyond(p, way, n) = {x \in 1 .. n : x <= n}
    BY <1>1, <1>3, <2>1 DEF Final, Second, Beyond
  <2>3. SignalPlaces(p, way) = 1 .. n \ {n, n - 1, 1}
    BY <1>1, <2>1, <2>2 DEF SignalPlaces
  <2>4. /\ 1 \in 1 .. n /\ n \in 1 .. n /\ n - 1 \in 1 .. n /\ n # 1
        /\ n - 1 # n /\ n - 1 # 1
        /\ (n - 1) - 1 \in 1 .. n \ {n, n - 1, 1}
        /\ 1 + 1 \in 1 .. n \ {n, n - 1, 1}
        /\ ((n - 1) - 1) + 1 = n - 1
        /\ {x \in 1 .. n : x <= n} = 1 .. n
    BY <1>1
  <2>5. Opposite(way) \in Ways /\ Opposite(way) # way
    BY <1>3, <2>1 DEF Ways
  <2> QED
    BY <1>1, <2>1, <2>2, <2>3, <2>4, <2>5
<1> QED
  BY <1>2, <1>3 DEF Ways

\* A place and the one ahead of it.
LEMMA NextPlace ==
    ASSUME NEW p, WellFormed(p), Len(p.track) > 3, NEW way \in Ways,
           NEW i \in DOMAIN p.track, i # Final(p, way), NEW j, j = Ahead(way, i)
    PROVE  /\ j \in DOMAIN p.track /\ Ahead(Opposite(way), j) = i /\ j # i
           /\ j # First(p, way)
           /\ j \in SignalPlaces(p, way) \cup {Second(p, way), Final(p, way)}
           /\ j = Second(p, way) => i = First(p, way)
           /\ Beyond(p, way, i) = Beyond(p, way, j) \cup {i}
           /\ j \in Beyond(p, way, j)
           /\ ~ Follows(way, j, i) /\ Follows(way, i, j)
           /\ \A k \in DOMAIN p.track : Follows(way, i, k) /\ k # j => Follows(way, j, k)
           /\ \A k \in DOMAIN p.track : Follows(way, j, k) => Follows(way, i, k)
PROOF
<1> DEFINE n == Len(p.track)
<1>1. n \in Nat /\ DOMAIN p.track = 1 .. n /\ n > 3
  BY LenProperties DEF WellFormed
<1> HIDE DEF n
<1>2. CASE way = "SOUTH"
  <2>1. /\ j = i + 1 /\ Ahead(Opposite(way), j) = j - 1
        /\ Final(p, way) = n /\ First(p, way) = 1 /\ Second(p, way) = 2
        /\ \A k : Beyond(p, way, k) = {x \in 1 .. n : x >= k}
        /\ \A k, x : Follows(way, k, x) <=> k < x
        /\ SignalPlaces(p, way) = 1 .. n \ {1, 2, n}
    BY <1>1, <1>2 DEF Ahead, Opposite, Final, First, Second, Beyond, SignalPlaces, Follows, n
  <2>2. /\ j \in 1 .. n /\ j - 1 = i /\ j # i /\ j # 1
        /\ j = 2 => i = 1
        /\ {x \in 1 .. n : x >= i} = {x \in 1 .. n : x >= j} \cup {i}
        /\ j >= j /\ ~(j < i) /\ i < j
        /\ \A k \in 1 .. n : i < k /\ k # j => j < k
        /\ \A k \in 1 .. n : j < k => i < k
    BY <1>1, <2>1
  <2> QED
    BY <1>1, <2>1, <2>2
<1>3. CASE way = "NORTH"
  <2>1. /\ j = i - 1 /\ Ahead(Opposite(way), j) = j + 1
        /\ Final(p, way) = 1 /\ First(p, way) = n /\ Second(p, way) = n - 1
        /\ \A k : Beyond(p, way, k) = {x \in 1 .. n : x <= k}
        /\ \A k, x : Follows(way, k, x) <=> x < k
        /\ SignalPlaces(p, way) = 1 .. n \ {n, n - 1, 1}
    BY <1>1, <1>3 DEF Ahead, Opposite, Final, First, Second, Beyond, SignalPlaces, Follows, n
  <2>2. /\ j \in 1 .. n /\ j + 1 = i /\ j # i /\ j # n
        /\ j = n - 1 => i = n
        /\ {x \in 1 .. n : x <= i} = {x \in 1 .. n : x <= j} \cup {i}
        /\ j <= j /\ ~(i < j) /\ j < i
        /\ \A k \in 1 .. n : k < i /\ k # j => k < j
        /\ \A k \in 1 .. n : k < j => k < i
    BY <1>1, <2>1
  <2> QED
    BY <1>1, <2>1, <2>2
<1> QED
  BY <1>2, <1>3 DEF Ways

\* One of two places follows the other, and is beyond it.
LEMMA Following ==
    ASSUME NEW p, WellFormed(p), NEW way \in Ways,
           NEW i \in DOMAIN p.track, NEW j \in DOMAIN p.track
    PROVE  /\ Follows(Opposite(way), i, j) <=> Follows(way, j, i)
           /\ Follows(way, i, j) <=> j \in Beyond(p, way, i) /\ j # i
           /\ ~(Follows(way, i, j) /\ Follows(way, j, i))
           /\ i # j => Follows(way, i, j) \/ Follows(way, j, i)
           /\ i \in Beyond(p, way, i)
           /\ \A k \in DOMAIN p.track :
                k \in Beyond(p, way, j) /\ j \in Beyond(p, way, i) => k \in Beyond(p, way, i)
PROOF
<1> DEFINE n == Len(p.track)
<1>1. n \in Nat /\ DOMAIN p.track = 1 .. n
  BY LenProperties DEF WellFormed
<1> HIDE DEF n
<1>2. CASE way = "SOUTH"
  BY <1>1, <1>2 DEF Opposite, Beyond, Ways, Follows
<1>3. CASE way = "NORTH"
  BY <1>1, <1>3 DEF Opposite, Beyond, Ways, Follows
<1> QED
  BY <1>2, <1>3 DEF Ways

-----------------------------------------------------------------------------
(* What an entry signal at proceed has asked for.                          *)

\* As ChainUp, for a fact that a route or a signal has read.
LEMMA AheadSeen ==
    ASSUME NEW p, WellFormed(p), Chained(p), NEW way \in Ways, NEW v,
           NEW i \in SignalPlaces(p, way) \cup {Final(p, way)},
           AheadUp(p, v, HAt(p, way, i))
    PROVE  UpFrom(p, v, way, i)
PROOF
<1>1. Len(p.track) > 3 /\ ChainOfSignals(p, way) /\ FarLine(p, way)
  BY DEF Chained
<1>2. HAt(p, way, i) # None
  <2>1. i \in SignalPlaces(p, way) => p.guard[way][i] \in DOMAIN p.signals
    BY <1>1 DEF ChainOfSignals
  <2>2. HAt(p, way, i) \in Facts(p)
    BY <1>1, <2>1 DEF HAt, FarLine, Facts
  <2> QED
    BY <2>2 DEF WellFormed
<1>3. PICK u : \E B \in SUBSET DOMAIN p.signals :
           SameAhead(u, v) /\ (HAt(p, way, i) = None \/ Asserts(p, u)[<<HAt(p, way, i), B>>])
  BY Zenon DEF AheadUp
<1>4. PICK B \in SUBSET DOMAIN p.signals : Asserts(p, u)[<<HAt(p, way, i), B>>]
  BY <1>2, <1>3
<1>5. UpFrom(p, u, way, i)
  BY <1>1, <1>4, ChainUp
<1>6. u.clear = v.clear /\ u.sr = v.sr /\ u.cleared = v.cleared
  BY <1>3 DEF SameAhead
<1> QED
  BY <1>5, <1>6 DEF UpFrom

\* An entry signal was at proceed, or will be.
EntryOpen(p, way, v) ==
    \E u : \E r \in EntryRoutes(p, way) :
      /\ u.clear = v.clear /\ u.sr = v.sr /\ ShownFor(p, u, r)
      /\ v.sig[Authority(p, r)].active = p.routes[r].direction

\* A leaving route that was shown has the first two circuits clear, and all of
\* them when no stick is up; then the line ahead was not cut either.
LEMMA EntryShown ==
    ASSUME NEW p, WellFormed(p), Chained(p), NEW way \in Ways, NEW u,
           NEW r \in EntryRoutes(p, way), ShownFor(p, u, r)
    PROVE  /\ AheadClear(p, u, way, First(p, way))
           /\ p.track[Second(p, way)] \in u.clear
           /\ StickUp(p, way, u.sr) \/ p.far[way] \notin u.cleared
PROOF
<1> DEFINE f == First(p, way)
           s == Second(p, way)
           i == Ahead(way, s)
<1>1. /\ p.routes[r].blocks = {p.track[f]}
      /\ p.routes[r].home = {HAt(p, way, i)}
  BY DEF Chained, ControlPoint
<1>2. /\ Len(p.track) > 3
      /\ f \in DOMAIN p.track /\ s \in DOMAIN p.track /\ f # Final(p, way) /\ s # Final(p, way)
      /\ s = Ahead(way, f) /\ i \in SignalPlaces(p, way) /\ Ahead(Opposite(way), i) = s
  BY Endpoints DEF Chained
<1>3. Beyond(p, way, f) = Beyond(p, way, i) \cup {f, s}
  <2>1. Beyond(p, way, f) = Beyond(p, way, s) \cup {f}
    BY <1>2, NextPlace
  <2>2. Beyond(p, way, s) = Beyond(p, way, i) \cup {s}
    BY <1>2, NextPlace
  <2> QED
    BY <2>1, <2>2
<1> HIDE DEF f, s, i
<1>4. p.track[f] \in u.clear /\ AheadUp(p, u, HAt(p, way, i))
  BY <1>1 DEF ShownFor
<1>5. UpFrom(p, u, way, i)
  BY <1>2, <1>4, AheadSeen
<1> QED
  BY <1>2, <1>3, <1>4, <1>5 DEF UpFrom, AheadClear, ClearFrom, f, s

\* So when the signal is open.
LEMMA EntryOpened ==
    ASSUME NEW p, WellFormed(p), Chained(p), NEW way \in Ways, NEW v, EntryOpen(p, way, v)
    PROVE  /\ AheadClear(p, v, way, First(p, way))
           /\ p.track[Second(p, way)] \in v.clear
PROOF
<1>1. PICK u : \E r \in EntryRoutes(p, way) :
                 u.clear = v.clear /\ u.sr = v.sr /\ ShownFor(p, u, r)
  BY Zenon DEF EntryOpen
<1>2. PICK r \in EntryRoutes(p, way) : ShownFor(p, u, r)
  BY <1>1
<1>3. AheadClear(p, u, way, First(p, way)) /\ p.track[Second(p, way)] \in u.clear
  BY <1>2, EntryShown
<1> QED
  BY <1>1, <1>3 DEF AheadClear

\* With the lever over for leaving, the line of this control point, which opposing
\* trains run to, is not cut by release time: a lever that runs time is at Stop.
LEMMA NotInTime ==
    ASSUME NEW p, WellFormed(p), Chained(p), NEW way \in Ways, NEW v, LockedAtStop(v),
           NEW r \in EntryRoutes(p, Opposite(way)),
           v.sig[Authority(p, r)].active = p.routes[r].direction
    PROVE  ~ InTime(p, v, p.far[way])
PROOF
<1>1. /\ Opposite(way) \in Ways /\ p.lines[p.far[way]].leaving = {EntryMast(p, Opposite(way))}
  BY DEF Chained, FarLine, Ways, Opposite
<1>2. LeavingRoutes(p, p.far[way]) = EntryRoutes(p, Opposite(way))
  BY <1>1 DEF LeavingRoutes, EntryRoutes
<1>3. /\ p.routes[r].direction # "STOP"
      /\ \A s \in EntryRoutes(p, Opposite(way)) : Authority(p, s) = Authority(p, r)
  BY <1>1 DEF Chained, ControlPoint, EntryRoutes, RoutesOf
<1>4. Authority(p, r) \in Levers
  BY DEF EntryRoutes, RoutesOf, WellFormed
<1>5. ~ v.sig[Authority(p, r)].timeLock
  BY <1>3, <1>4 DEF LockedAtStop
<1> QED
  BY <1>2, <1>3, <1>5 DEF InTime

\* When the entry signal of the other way is open, and all circuits are clear,
\* the sticks of this way go down.
LEMMA SticksReleased ==
    ASSUME NEW p, WellFormed(p), Chained(p), NEW way \in Ways,
           NEW v, NEW clear, NEW b, NEW d, NEW e, NEW w, ScanParts(p, v, clear, b, d, e, w),
           RelaysInOrder(p, v), EntryOpen(p, Opposite(way), w),
           \A i \in DOMAIN p.track : p.track[i] \in clear
    PROVE  ~ StickUp(p, way, w.sr)
PROOF
<1>1. SUFFICES ASSUME NEW i \in SignalPlaces(p, way), p.guard[way][i] \in w.sr PROVE FALSE
  BY DEF StickUp
<1> DEFINE a == p.guard[way][i]
           j == Ahead(way, i)
<1>2. /\ b.clear = clear /\ b.cleared = v.cleared /\ LockedAtStop(b)
      /\ a \in v.sr \/ Passed(p, b, a)
      /\ a \in ToSet(p.signalOrder) => Passed(p, b, a) \/ KeptUp(p, b, a)
      /\ d.sig = b.sig
      /\ \A l \in Levers : w.sig[l].active \in {d.sig[l].active, "STOP"}
  BY <1>1, Zenon DEF ScanParts
<1>3. Len(p.track) > 3 /\ ChainOfSignals(p, way) /\ FarLine(p, way)
      /\ ToSet(p.signalOrder) = DOMAIN p.signals
  BY DEF Chained
<1>4. /\ a \in DOMAIN p.signals /\ p.signals[a].governs = {p.track[i]}
      /\ p.signals[a].h = HAt(p, way, j)
  BY <1>3 DEF ChainOfSignals
<1>5. /\ i \in DOMAIN p.track /\ i # Final(p, way) /\ i # First(p, way) /\ i # Second(p, way)
  BY DEF SignalPlaces
<1>6. /\ j \in DOMAIN p.track /\ Ahead(Opposite(way), j) = i
      /\ j \in SignalPlaces(p, way) \cup {Final(p, way)}
  BY <1>3, <1>5, NextPlace
<1> HIDE DEF a, j
<1>7. ~ Passed(p, b, a)
  BY <1>2, <1>4, <1>5 DEF Passed
<1>8. p.far[way] \notin v.cleared
  <2>1. StickUp(p, way, v.sr)
    BY <1>2, <1>7 DEF StickUp, a
  <2> QED
    BY <2>1 DEF RelaysInOrder
<1>9. PICK u : /\ u.clear = b.clear /\ u.sig = b.sig /\ u.cleared = b.cleared
               /\ ~On(p, u, p.signals[a].h)
  BY <1>2, <1>3, <1>4, <1>7 DEF KeptUp
<1>10. PICK r \in EntryRoutes(p, Opposite(way)) :
            w.sig[Authority(p, r)].active = p.routes[r].direction
  BY Zenon DEF EntryOpen
<1>11. u.sig[Authority(p, r)].active = p.routes[r].direction
  <2>1. Authority(p, r) \in Levers
    BY DEF EntryRoutes, RoutesOf, WellFormed
  <2>2. p.routes[r].direction # "STOP"
    BY <1>10 DEF Chained, EntryRoutes, RoutesOf
  <2> QED
    BY <1>2, <1>9, <1>10, <2>1, <2>2
<1>12. ~ InTime(p, u, p.far[way])
  <2>1. LockedAtStop(u)
    BY <1>2, <1>9 DEF LockedAtStop
  <2> QED
    BY <1>11, <2>1, NotInTime
<1>13. ClearFrom(p, way, Ahead(Opposite(way), j), u.clear)
  BY <1>2, <1>9 DEF ClearFrom, Beyond
<1>14. Asserts(p, u)[<<HAt(p, way, j), {}>>]
  BY <1>2, <1>3, <1>6, <1>8, <1>9, <1>12, <1>13, ChainHolds
<1> QED
  BY <1>4, <1>9, <1>14 DEF On

-----------------------------------------------------------------------------
(* The relays after a scan.                                                *)

\* What an automatic signal has heeded: its circuit clear, and those beyond it
\* unless a stick is up.
LEMMA HeededAhead ==
    ASSUME NEW p, WellFormed(p), Chained(p), NEW way \in Ways,
           NEW i \in SignalPlaces(p, way), NEW d, NEW w, d.clear = w.clear, d.sr = w.sr,
           Heeded(p, d, p.guard[way][i])
    PROVE  AheadClear(p, w, way, i)
PROOF
<1> DEFINE a == p.guard[way][i]
           j == Ahead(way, i)
<1>1. Len(p.track) > 3 /\ ChainOfSignals(p, way)
  BY DEF Chained
<1>2. /\ p.signals[a].governs = {p.track[i]}
      /\ p.signals[a].h = HAt(p, way, j)
  BY <1>1 DEF ChainOfSignals
<1>3. /\ i \in DOMAIN p.track /\ i # Final(p, way) /\ i # First(p, way)
  BY DEF SignalPlaces
<1>4. /\ j \in SignalPlaces(p, way) \cup {Final(p, way)}
      /\ Beyond(p, way, i) = Beyond(p, way, j) \cup {i}
  BY <1>1, <1>3, NextPlace
<1> HIDE DEF a, j
<1>5. p.track[i] \in d.clear /\ AheadUp(p, d, HAt(p, way, j))
  BY <1>2 DEF Heeded, a
<1>6. UpFrom(p, d, way, j)
  BY <1>4, <1>5, AheadSeen
<1> QED
  BY <1>4, <1>5, <1>6 DEF UpFrom, AheadClear, ClearFrom

\* A leaving signal that proceeds after a scan does so for a leaving route.
LEMMA EntryProceeds ==
    ASSUME NEW p, WellFormed(p), Chained(p), NEW way \in Ways,
           NEW v, NEW clear, NEW b, NEW d, NEW e, NEW w, ScanParts(p, v, clear, b, d, e, w),
           Proceeds(w, EntryMast(p, way))
    PROVE  \E r \in EntryRoutes(p, way) :
             ShownFor(p, d, r) /\ w.sig[Authority(p, r)].active = p.routes[r].direction
PROOF
<1> DEFINE m == EntryMast(p, way)
<1>1. ControlPoint(p, way)
  BY DEF Chained
<1>2. m \in p.masts /\ m \notin DOMAIN p.signals
  <2>1. First(p, way) \in DOMAIN p.track
    BY Endpoints DEF Chained
  <2> QED
    BY <1>1, <2>1 DEF ControlPoint, EntryMast, WellFormed
<1>3. PICK r \in RoutesOf(p, m) : p.routes[r].direction # "STOP" => ShownFor(p, d, r)
  BY <1>2 DEF ScanParts, Proceeds
<1>4. r \in EntryRoutes(p, way) /\ r \in DOMAIN p.routes /\ ShownFor(p, d, r)
  BY <1>3 DEF EntryRoutes, RoutesOf, Chained
<1>5. ASSUME NEW q \in DOMAIN p.routes, Authority(p, q) = Authority(p, r),
             p.routes[q].direction = p.routes[r].direction
      PROVE  ~Occupied(d, p.routes[q].entrance)
  <2>1. p.routes[q].entrance = p.routes[r].entrance
    BY <1>1, <1>4, <1>5 DEF ControlPoint
  <2> QED
    BY <1>4, <2>1 DEF ShownFor
<1>6. w.sig[Authority(p, r)].active = p.routes[r].direction
  BY <1>4, <1>5 DEF ScanParts, ShownFor
<1> QED
  BY <1>4, <1>6

\* So it is open.
LEMMA ProceedsOpen ==
    ASSUME NEW p, WellFormed(p), Chained(p), NEW way \in Ways,
           NEW v, NEW clear, NEW b, NEW d, NEW e, NEW w, ScanParts(p, v, clear, b, d, e, w),
           Proceeds(w, EntryMast(p, way))
    PROVE  EntryOpen(p, way, w)
PROOF
<1>1. PICK r \in EntryRoutes(p, way) :
           ShownFor(p, d, r) /\ w.sig[Authority(p, r)].active = p.routes[r].direction
  BY EntryProceeds
<1>2. d.clear = w.clear /\ d.sr = w.sr
  BY Zenon DEF ScanParts
<1> QED
  BY <1>1, <1>2, Zenon DEF EntryOpen

\* A line that latches a leaving signal has an open one.
LEMMA LeaveOpen ==
    ASSUME NEW p, WellFormed(p), Chained(p), NEW way \in Ways, NEW w,
           HasLeave(p, w, p.far[way])
    PROVE  EntryOpen(p, Opposite(way), w)
PROOF
<1>1. p.lines[p.far[way]].leaving = {EntryMast(p, Opposite(way))}
  BY DEF Chained, FarLine
<1>2. PICK u : /\ u.clear = w.clear /\ u.sr = w.sr /\ u.sig = w.sig
               /\ MastProceed(p, u, EntryMast(p, Opposite(way)))
  BY <1>1 DEF HasLeave
<1>3. PICK r \in EntryRoutes(p, Opposite(way)) :
           ~Occupied(u, p.routes[r].entrance) /\ RouteIndication(p, u, r) # "STOP"
  BY <1>2 DEF MastProceed, EntryRoutes
<1>4. HeldFor(p, u, r) /\ RouteClear(p, u, r)
  BY <1>3 DEF RouteIndication
<1>5. \A fact \in p.routes[r].home : AheadUp(p, u, fact)
  BY <1>4, OnNow DEF RouteClear
<1>6. ShownFor(p, u, r) /\ w.sig[Authority(p, r)].active = p.routes[r].direction
  BY <1>2, <1>3, <1>4, <1>5 DEF ShownFor, HeldFor, RouteClear
<1> QED
  BY <1>2, <1>6, Zenon DEF EntryOpen

\* With both ways' entry signals open, all circuits are clear.
LEMMA OpenClear ==
    ASSUME NEW p, WellFormed(p), Chained(p), NEW way \in Ways, NEW w,
           EntryOpen(p, way, w), ~ StickUp(p, way, w.sr)
    PROVE  \A i \in DOMAIN p.track : p.track[i] \in w.clear
PROOF
<1>1. Beyond(p, way, First(p, way)) = DOMAIN p.track
  BY Endpoints DEF Chained
<1>2. AheadClear(p, w, way, First(p, way))
  BY EntryOpened
<1> QED
  BY <1>1, <1>2 DEF AheadClear, ClearFrom

\* With a stick up for one way, the leaving signal of the other is not open:
\* tumble-down has released the facts it reads.
LEMMA StickStops ==
    ASSUME NEW p, WellFormed(p), Chained(p), NEW way \in Ways,
           NEW v, NEW clear, NEW b, NEW d, NEW e, NEW w, ScanParts(p, v, clear, b, d, e, w),
           RelaysInOrder(p, v), StickUp(p, way, w.sr),
           StickUp(p, Opposite(way), w.sr) => \A i \in DOMAIN p.track : p.track[i] \in clear
    PROVE  ~ EntryOpen(p, Opposite(way), w)
PROOF
<1>1. SUFFICES ASSUME EntryOpen(p, Opposite(way), w) PROVE FALSE
  OBVIOUS
<1>2. Opposite(way) \in Ways
  BY DEF Opposite, Ways
<1>3. w.clear = clear
  BY Zenon DEF ScanParts
<1>4. \A i \in DOMAIN p.track : p.track[i] \in clear
  <2>1. CASE StickUp(p, Opposite(way), w.sr)
    BY <2>1
  <2>2. CASE ~ StickUp(p, Opposite(way), w.sr)
    BY <1>1, <1>2, <1>3, <2>2, OpenClear
  <2> QED
    BY <2>1, <2>2
<1> QED
  BY <1>1, <1>4, SticksReleased

\* When both entry signals proceed, the line that is latched first sees it.
LEMMA BothLatched ==
    ASSUME NEW p, WellFormed(p), Chained(p),
           NEW v, NEW clear, NEW b, NEW d, NEW e, NEW w, ScanParts(p, v, clear, b, d, e, w),
           \A way \in Ways : Proceeds(w, EntryMast(p, way)) /\ ~StickUp(p, way, w.sr)
    PROVE  \E way \in Ways : p.far[way] \in w.cleared
PROOF
<1>1. PICK way \in Ways : p.lineOrder = <<p.far[way], p.far[Opposite(way)]>>
  BY DEF Chained, Ways, Opposite
<1> DEFINE o == Opposite(way)
           l == p.far[way]
           m == EntryMast(p, o)
           x == [e EXCEPT !.cleared = e.cleared \ {l}]
<1>2. o \in Ways /\ Opposite(o) = way /\ o # way
  BY DEF Ways, Opposite
<1>3. /\ Len(p.track) > 3 /\ FarLine(p, way) /\ FarLine(p, o) /\ ControlPoint(p, o)
      /\ ChainOfSignals(p, o) /\ IsInjective(p.track)
  BY <1>2 DEF Chained
<1>4. e \in View(p) /\ w.clear = clear /\ SameSignals(w, e) /\ LockedAtStop(e)
      /\ e.cleared = v.cleared /\ d.cleared = v.cleared /\ d.clear = clear /\ d.sr = w.sr
  BY Zenon DEF ScanParts
<1>5. /\ x.clear = clear /\ x.sr = w.sr /\ x.sig = w.sig /\ x.cleared = v.cleared \ {l}
  BY <1>4 DEF View, SameSignals
<1> HIDE DEF x
<1>6. PICK r \in EntryRoutes(p, o) :
           ShownFor(p, d, r) /\ w.sig[Authority(p, r)].active = p.routes[r].direction
  BY <1>2, EntryProceeds
<1>7. \A i \in DOMAIN p.track : p.track[i] \in clear
  <2>1. EntryOpen(p, o, w)
    BY <1>2, ProceedsOpen
  <2> QED
    BY <1>2, <1>4, <2>1, OpenClear
<1>8. On(p, x, HAt(p, o, Ahead(o, Second(p, o))))
  <2> DEFINE i == Ahead(o, Second(p, o))
  <2>1. i \in SignalPlaces(p, o)
    BY <1>2, <1>3, Endpoints
  <2>2. ClearFrom(p, o, Ahead(Opposite(o), i), x.clear)
    BY <1>5, <1>7 DEF ClearFrom, Beyond
  <2>3. p.far[o] \notin x.cleared
    <3>1. StickUp(p, o, d.sr) \/ p.far[o] \notin d.cleared
      BY <1>2, <1>6, EntryShown
    <3> QED
      BY <1>2, <1>4, <1>5, <3>1
  <2>4. ~InTime(p, x, p.far[o])
    <3>1. PICK s \in EntryRoutes(p, way) :
               w.sig[Authority(p, s)].active = p.routes[s].direction
      BY EntryProceeds
    <3>2. LockedAtStop(x)
      BY <1>4, <1>5 DEF LockedAtStop, SameSignals
    <3> QED
      BY <1>2, <1>5, <3>1, <3>2, NotInTime
  <2> HIDE DEF i
  <2>5. Asserts(p, x)[<<HAt(p, o, i), {}>>]
    BY <1>2, <1>3, <2>1, <2>2, <2>3, <2>4, ChainHolds
  <2> QED
    BY <2>5 DEF On, i
<1>9. MastProceed(p, x, m)
  <2>1. p.routes[r].home = {HAt(p, o, Ahead(o, Second(p, o)))}
    BY <1>3, <1>6 DEF ControlPoint
  <2>2. RouteClear(p, x, r) /\ HeldFor(p, x, r) /\ ~Occupied(x, p.routes[r].entrance)
    BY <1>4, <1>5, <1>6, <1>8, <2>1 DEF RouteClear, HeldFor, Occupied, ShownFor
  <2>3. RouteIndication(p, x, r) # "STOP"
    BY <2>2 DEF RouteIndication
  <2> QED
    BY <1>6, <2>2, <2>3 DEF MastProceed, EntryRoutes
<1>10. Leaves(p, e, l)
  <2>1. m \in p.lines[l].leaving
    BY <1>3 DEF FarLine
  <2> QED
    BY <1>9, <2>1, Zenon DEF Leaves, x
<1>11. p.far[o] # l
  <2>1. SUFFICES ASSUME p.far[o] = l PROVE FALSE
    OBVIOUS
  <2>2. /\ First(p, way) \in DOMAIN p.track /\ Final(p, way) \in DOMAIN p.track
        /\ Second(p, way) \in DOMAIN p.track /\ First(p, way) # Final(p, way)
        /\ Final(p, o) = First(p, way) /\ Second(p, o) \in DOMAIN p.track
        /\ Second(p, o) # First(p, way)
    BY <1>2, <1>3, Endpoints
  <2>3. p.track[First(p, way)] \in {p.track[Final(p, way)], p.track[Second(p, o)]}
    BY <1>2, <1>3, <2>1, <2>2 DEF FarLine
  <2> QED
    BY <1>3, <2>2, <2>3 DEF IsInjective
<1>12. /\ Len(p.lineOrder) > 0 /\ p.lineOrder[1] = l
       /\ \A j \in 2 .. Len(p.lineOrder) : p.lineOrder[j] # p.lineOrder[1]
  BY <1>1, <1>11
<1>13. l \in w.cleared
  BY <1>10, <1>12 DEF ScanParts
<1> QED
  BY <1>13

\* RelaysInOrder holds after a scan, from what the scan found and kept.
LEMMA RelaysScanned ==
    ASSUME NEW p, WellFormed(p), Chained(p),
           NEW v, NEW clear, NEW b, NEW d, NEW e, NEW w, ScanParts(p, v, clear, b, d, e, w),
           RelaysInOrder(p, v),
           (\A way \in Ways : StickUp(p, way, w.sr)) =>
             \A i \in DOMAIN p.track : p.track[i] \in clear
    PROVE  RelaysInOrder(p, w)
PROOF
<1>1. d.clear = w.clear /\ d.sr = w.sr /\ LockedAtStop(w) /\ w \in View(p)
  BY Zenon DEF ScanParts
<1>2. ASSUME NEW way \in Ways, NEW i \in SignalPlaces(p, way)
      PROVE  /\ Proceeds(w, p.guard[way][i]) => AheadClear(p, w, way, i)
             /\ p.guard[way][i] \in w.hr => AheadClear(p, w, way, i)
  <2> DEFINE a == p.guard[way][i]
  <2>1. a \in DOMAIN p.signals /\ a \in p.masts
    BY DEF Chained, ChainOfSignals, WellFormed
  <2>2. \A r \in RoutesOf(p, a) : FALSE
    BY <2>1 DEF Chained, RoutesOf
  <2> HIDE DEF a
  <2>3. Proceeds(w, a) => Heeded(p, d, a)
    BY <2>1, <2>2 DEF ScanParts, Proceeds
  <2>4. a \in w.hr => Heeded(p, d, a)
    BY <2>1 DEF ScanParts, Chained
  <2> QED
    BY <1>1, <2>3, <2>4, HeededAhead DEF a
<1>3. ASSUME NEW way \in Ways, Proceeds(w, EntryMast(p, way))
      PROVE  /\ AheadClear(p, w, way, First(p, way))
             /\ p.track[Second(p, way)] \in w.clear
  BY <1>3, ProceedsOpen, EntryOpened
<1>4. ASSUME NEW way \in Ways, Proceeds(w, ExitMast(p, way))
      PROVE  /\ p.track[Final(p, way)] \in w.clear
             /\ ~Proceeds(w, EntryMast(p, Opposite(way)))
  <2> DEFINE m == ExitMast(p, way)
             o == Opposite(way)
  <2>1. o \in Ways /\ Opposite(o) = way /\ ControlPoint(p, o) /\ ControlPoint(p, way)
    BY DEF Opposite, Ways, Chained
  <2>2. m \in p.masts /\ m \notin DOMAIN p.signals
    <3>1. Final(p, way) \in DOMAIN p.track
      BY Endpoints DEF Chained
    <3> QED
      BY <2>1, <3>1 DEF ControlPoint, ExitMast, WellFormed
  <2>3. PICK s \in RoutesOf(p, m) : p.routes[s].direction # "STOP" => ShownFor(p, d, s)
    BY <1>4, <2>2 DEF ScanParts, Proceeds
  <2>4. s \in DOMAIN p.routes /\ ShownFor(p, d, s)
    BY <2>3 DEF RoutesOf, Chained
  <2>5. p.track[Final(p, way)] \in w.clear
    BY <1>1, <2>1, <2>3, <2>4 DEF ControlPoint, ShownFor
  <2>6. ASSUME Proceeds(w, EntryMast(p, o))
        PROVE  FALSE
    <3>1. PICK r \in EntryRoutes(p, o) : ShownFor(p, d, r)
      BY <2>1, <2>6, EntryProceeds
    <3>2. Authority(p, s) = Authority(p, r) /\ p.routes[s].direction # p.routes[r].direction
      BY <2>1, <2>3, <3>1 DEF ControlPoint
    <3> QED
      BY <2>4, <3>1, <3>2 DEF ShownFor
  <2> QED
    BY <2>5, <2>6
<1>5. ASSUME NEW way \in Ways, StickUp(p, way, w.sr)
      PROVE  /\ ~Proceeds(w, EntryMast(p, Opposite(way)))
             /\ p.far[way] \notin w.cleared
  <2>1. Opposite(way) \in Ways /\ \A x \in Ways : x = way \/ x = Opposite(way)
    BY DEF Opposite, Ways
  <2>2. ~ EntryOpen(p, Opposite(way), w)
    BY <1>5, <2>1, StickStops
  <2>3. ~Proceeds(w, EntryMast(p, Opposite(way)))
    BY <2>1, <2>2, ProceedsOpen
  <2>4. p.far[way] \in ToSet(p.lineOrder)
    BY DEF Chained, Ways, ToSet
  <2>5. p.far[way] \in w.cleared => HasLeave(p, w, p.far[way])
    BY <2>4 DEF ScanParts
  <2> QED
    BY <2>2, <2>3, <2>5, LeaveOpen
<1>6. ASSUME \A way \in Ways : Proceeds(w, EntryMast(p, way))
      PROVE  \E way \in Ways : p.far[way] \in w.cleared
  <2>1. ASSUME NEW way \in Ways
        PROVE  ~ StickUp(p, way, w.sr)
    <3>1. Opposite(way) \in Ways
      BY DEF Opposite, Ways
    <3> QED
      BY <1>5, <1>6, <3>1
  <2> QED
    BY <1>6, <2>1, BothLatched
<1>7. \A l \in Levers : w.sig[l].timeLock => w.sig[l].active = "STOP"
  BY <1>1 DEF LockedAtStop
<1> QED
  BY <1>2, <1>3, <1>4, <1>5, <1>6, <1>7 DEF RelaysInOrder

-----------------------------------------------------------------------------
(* Trains that move, two by two.                                           *)

PlacesOf(p) == [way : Ways, rear : DOMAIN p.track, front : DOMAIN p.track]

\* A stick that is up for a way has no train that runs against it.
BehindSticks(p, v, x) == ~ StickUp(p, Opposite(x.way), v.sr)

\* Where a train stands, field by field.
LEMMA PlaceType ==
    ASSUME NEW p, NEW x \in PlacesOf(p)
    PROVE  /\ x.way \in Ways /\ x.rear \in DOMAIN p.track /\ x.front \in DOMAIN p.track
           /\ Opposite(x.way) \in Ways
  BY DEF PlacesOf, Opposite, Ways

\* The rear of a train that comes towards a place, or on it, is not nearer.
LEMMA RearBehind ==
    ASSUME NEW p, WellFormed(p), Len(p.track) > 3, NEW way \in Ways, NEW v, NEW on,
           NEW y \in PlacesOf(p), y.way = Opposite(way), Sampled(p, v, on, y),
           NEW i \in DOMAIN p.track, y.front \in Beyond(p, way, i),
           ClearFrom(p, way, i, v.clear)
    PROVE  on /\ y.rear = Final(p, way) /\ y.front = Final(p, way)
PROOF
<1>1. /\ y.rear \in DOMAIN p.track /\ y.front \in DOMAIN p.track /\ Opposite(way) \in Ways
      /\ Opposite(Opposite(way)) = way /\ First(p, Opposite(way)) = Final(p, way)
  BY PlaceType, Endpoints
<1>2. y.rear \in Beyond(p, way, i)
  <2>1. CASE y.front = y.rear
    BY <2>1
  <2>2. CASE y.front = Ahead(Opposite(way), y.rear) /\ y.rear # First(p, way)
    <3>1. Follows(Opposite(way), y.rear, y.front)
      BY <1>1, <2>2, NextPlace, Endpoints
    <3>2. y.rear \in Beyond(p, way, y.front)
      BY <1>1, <3>1, Following
    <3> QED
      BY <1>1, <3>2, Following
  <2>3. CASE y.front = Ahead(Opposite(way), y.rear) /\ y.rear = First(p, way)
    <3>1. Len(p.track) \in Nat /\ DOMAIN p.track = 1 .. Len(p.track)
      BY LenProperties DEF WellFormed
    <3> QED
      BY <1>1, <2>3, <3>1 DEF Ahead, First, Opposite, Ways
  <2> QED
    BY <2>1, <2>2, <2>3 DEF Sampled
<1>3. p.track[y.rear] \in v.clear
  BY <1>2 DEF ClearFrom
<1> QED
  BY <1>1, <1>3 DEF Sampled

\* A train that enters at a signal that proceeds has nobody at its place, and
\* nobody facing away from it.
LEMMA ArriveApart ==
    ASSUME NEW p, WellFormed(p), Chained(p), NEW v, RelaysInOrder(p, v), NEW way \in Ways,
           Proceeds(v, EntryMast(p, way)),
           NEW x \in PlacesOf(p), x.way = way, x.rear = First(p, way), x.front = First(p, way),
           NEW on, NEW y \in PlacesOf(p), Sampled(p, v, on, y), BehindSticks(p, v, y),
           ~(on /\ First(p, way) \in {y.rear, y.front} /\ y.way = way)
    PROVE  InOrderAt(p, x, y) /\ InOrderAt(p, y, x)
PROOF
<1> DEFINE o == Opposite(way)
           f == First(p, way)
           s == Second(p, way)
<1>1. /\ Len(p.track) > 3 /\ o \in Ways /\ o # way /\ Opposite(o) = way
      /\ f \in DOMAIN p.track /\ s \in DOMAIN p.track /\ s # f
      /\ First(p, o) = Final(p, way) /\ f # Final(p, way) /\ s # Final(p, way)
      /\ Ahead(way, f) = s /\ Second(p, o) \in SignalPlaces(p, way)
      /\ Beyond(p, way, f) = DOMAIN p.track
      /\ \A w \in Ways : w = way \/ w = o
  <2>1. Len(p.track) > 3
    BY DEF Chained
  <2> QED
    BY <2>1, Endpoints DEF Ways, Opposite
<1>2. /\ y.way \in Ways /\ y.rear \in DOMAIN p.track /\ y.front \in DOMAIN p.track
  BY PlaceType
<1>3. /\ p.track[f] \in v.clear /\ p.track[s] \in v.clear
      /\ ClearFrom(p, way, f, v.clear) \/ StickUp(p, way, v.sr)
  BY DEF RelaysInOrder, AheadClear
<1> HIDE DEF o, f, s
<1>4. CASE y.way = way
  <2>1. f \notin {y.rear, y.front}
    BY <1>3, <1>4 DEF Sampled, f
  <2>2. s \notin {y.rear, y.front}
    <3>1. y.rear # s
      BY <1>1, <1>3, <1>4 DEF Sampled, f
    <3>2. y.front = s => y.rear = f
      <4>1. SUFFICES ASSUME y.front = s, y.rear # f PROVE FALSE
        OBVIOUS
      <4>2. s = Ahead(way, y.rear)
        BY <1>4, <3>1, <4>1 DEF Sampled
      <4>3. y.rear # Final(p, way)
        <5>1. Len(p.track) \in Nat /\ DOMAIN p.track = 1 .. Len(p.track)
          BY LenProperties DEF WellFormed
        <5> QED
          BY <1>1, <4>2, <5>1 DEF Ahead, First, Final, Opposite, Ways
      <4> QED
        BY <1>1, <1>2, <4>1, <4>2, <4>3, NextPlace DEF s, f
    <3> QED
      BY <2>1, <3>1, <3>2
  <2> QED
    BY <1>1, <1>4, <2>1, <2>2 DEF InOrderAt, f, s, o
<1>5. CASE y.way = o
  <2>1. ClearFrom(p, way, f, v.clear)
    BY <1>1, <1>3, <1>5 DEF BehindSticks
  <2>2. y.rear = Final(p, way) /\ y.front = Final(p, way)
    BY <1>1, <1>2, <1>5, <2>1, RearBehind DEF o
  <2>3. Follows(way, f, Final(p, way)) /\ Follows(o, Final(p, way), f)
    <3>1. Final(p, way) \in Beyond(p, way, f)
      BY <1>1, <1>2, <2>2
    <3> QED
      BY <1>1, <1>2, <2>2, <3>1, Following DEF o
  <2>4. Second(p, o) # f
    BY <1>1 DEF SignalPlaces, f
  <2> QED
    BY <1>1, <1>5, <2>2, <2>3, <2>4 DEF InOrderAt, f, s, o
<1> QED
  BY <1>1, <1>2, <1>4, <1>5

\* A place with one ahead is not the last.
LEMMA AheadInside ==
    ASSUME NEW p, WellFormed(p), Len(p.track) > 3, NEW way \in Ways,
           NEW i \in DOMAIN p.track, Ahead(way, i) \in DOMAIN p.track
    PROVE  i # Final(p, way)
PROOF
<1>1. Len(p.track) \in Nat /\ DOMAIN p.track = 1 .. Len(p.track)
  BY LenProperties DEF WellFormed
<1> QED
  BY <1>1 DEF Ahead, First, Final, Opposite, Ways

\* Nothing is beyond the last place.
LEMMA BeyondFinal ==
    ASSUME NEW p, WellFormed(p), Len(p.track) > 3, NEW way \in Ways
    PROVE  Beyond(p, way, Final(p, way)) = {Final(p, way)}
PROOF
<1>1. Len(p.track) \in Nat /\ DOMAIN p.track = 1 .. Len(p.track)
  BY LenProperties DEF WellFormed
<1> QED
  BY <1>1 DEF Beyond, First, Final, Opposite, Ways

\* What the signal at the next place promises, where there is one.
LEMMA NextClear ==
    ASSUME NEW p, WellFormed(p), Chained(p), NEW v, RelaysInOrder(p, v), NEW way \in Ways,
           NEW j \in SignalPlaces(p, way) \cup {Final(p, way)},
           p.guard[way][j] # None => v.mast[p.guard[way][j]] # "STOP"
    PROVE  /\ p.track[j] \in v.clear
           /\ j # Final(p, way) => AheadClear(p, v, way, j)
           /\ j = Final(p, way) => ~Proceeds(v, EntryMast(p, Opposite(way)))
PROOF
<1>1. CASE j = Final(p, way)
  <2>1. Opposite(way) \in Ways /\ Opposite(Opposite(way)) = way
    BY DEF Opposite, Ways
  <2>2. ExitMast(p, way) # None
    BY <2>1 DEF Chained, ControlPoint
  <2>3. Proceeds(v, ExitMast(p, way))
    BY <1>1, <2>2 DEF Proceeds, ExitMast
  <2> QED
    BY <1>1, <2>3 DEF RelaysInOrder
<1>2. CASE j # Final(p, way)
  <2>1. j \in SignalPlaces(p, way)
    BY <1>2
  <2>2. p.guard[way][j] # None
    BY <2>1 DEF Chained, ChainOfSignals, WellFormed
  <2>3. AheadClear(p, v, way, j)
    BY <2>1, <2>2 DEF RelaysInOrder, Proceeds
  <2> QED
    BY <1>2, <2>3 DEF AheadClear
<1> QED
  BY <1>1, <1>2

\* A train whose head goes on keeps its order with every other train.
LEMMA AdvanceApart ==
    ASSUME NEW p, WellFormed(p), Chained(p), NEW v, RelaysInOrder(p, v),
           NEW x \in PlacesOf(p), NEW way, way = x.way, NEW i, i = x.rear, i = x.front,
           i # Final(p, way), NEW j, j = Ahead(way, i),
           NEW z \in PlacesOf(p), z.way = way, z.rear = i, z.front = j,
           Sampled(p, v, FALSE, x), BehindSticks(p, v, x),
           p.guard[way][j] # None => v.mast[p.guard[way][j]] # "STOP",
           NEW on, NEW y \in PlacesOf(p), Sampled(p, v, on, y), BehindSticks(p, v, y),
           ~(on /\ j \in {y.rear, y.front} /\ y.way = way),
           InOrderAt(p, x, y), InOrderAt(p, y, x)
    PROVE  InOrderAt(p, z, y) /\ InOrderAt(p, y, z)
PROOF
<1> DEFINE o == Opposite(way)
<1>1. /\ Len(p.track) > 3 /\ way \in Ways /\ i \in DOMAIN p.track
      /\ o \in Ways /\ o # way /\ Opposite(o) = way
      /\ First(p, o) = Final(p, way) /\ First(p, way) # Final(p, way)
      /\ Second(p, o) \in SignalPlaces(p, way)
      /\ Beyond(p, o, First(p, o)) = DOMAIN p.track
      /\ \A w \in Ways : w = way \/ w = o
  <2>1. Len(p.track) > 3 /\ way \in Ways /\ i \in DOMAIN p.track
    BY PlaceType DEF Chained
  <2> QED
    BY <2>1, Endpoints DEF Ways, Opposite
<1>2. y.way \in Ways /\ y.rear \in DOMAIN p.track /\ y.front \in DOMAIN p.track
  BY PlaceType
<1>3. /\ j \in DOMAIN p.track /\ j # i /\ j # First(p, way)
      /\ j \in SignalPlaces(p, way) \cup {Second(p, way), Final(p, way)}
      /\ j = Second(p, way) => i = First(p, way)
      /\ \A k \in DOMAIN p.track : Follows(way, i, k) /\ k # j => Follows(way, j, k)
      /\ j \in Beyond(p, way, j)
  BY <1>1, NextPlace
<1> HIDE DEF o
<1>4. p.track[i] \notin v.clear
  BY DEF Sampled
<1>5. CASE y.way = way
  <2>1. j \notin {y.rear, y.front}
    <3>1. CASE j = Second(p, way)
      BY <1>3, <3>1 DEF InOrderAt
    <3>2. CASE j # Second(p, way)
      <4>1. p.track[j] \in v.clear
        BY <1>1, <1>3, <3>2, NextClear
      <4> QED
        BY <1>5, <4>1 DEF Sampled
    <3> QED
      BY <3>1, <3>2
  <2>2. i \notin {y.rear, y.front}
    BY <1>1, <1>5 DEF InOrderAt
  <2>3. y.front = First(p, way) => Second(p, way) \notin {i, j}
    BY <1>3, <1>5, <2>2 DEF InOrderAt
  <2> QED
    BY <1>1, <1>3, <1>5, <2>1, <2>2, <2>3 DEF InOrderAt, o
<1>6. CASE y.way = o
  <2>0. ~ StickUp(p, way, v.sr) /\ ~ StickUp(p, o, v.sr)
    BY <1>1, <1>6 DEF BehindSticks, o
  <2>1. Follows(way, i, y.front)
    BY <1>6 DEF InOrderAt, o
  <2>2. y.front # j
    <3>1. CASE j = Second(p, way)
      BY <1>3, <3>1 DEF InOrderAt
    <3>2. CASE j \in SignalPlaces(p, way)
      <4>1. j # Final(p, way)
        BY <3>2 DEF SignalPlaces
      <4>2. ClearFrom(p, way, j, v.clear)
        BY <1>1, <2>0, <3>2, <4>1, NextClear DEF AheadClear
      <4> QED
        BY <1>1, <1>3, <1>6, <4>1, <4>2, RearBehind DEF o
    <3>3. CASE j = Final(p, way)
      <4>1. SUFFICES ASSUME y.front = j PROVE FALSE
        OBVIOUS
      <4>2. p.track[j] \in v.clear /\ ~Proceeds(v, EntryMast(p, o))
        BY <1>1, <3>3, NextClear DEF o
      <4>3. ClearFrom(p, way, j, v.clear) /\ y.front \in Beyond(p, way, j)
        BY <1>1, <3>3, <4>1, <4>2, BeyondFinal DEF ClearFrom
      <4>4. on
        BY <1>1, <1>3, <1>6, <4>3, RearBehind DEF o
      <4> QED
        BY <1>1, <1>6, <3>3, <4>1, <4>2, <4>4 DEF Sampled
    <3> QED
      BY <1>3, <3>1, <3>2, <3>3
  <2>3. Follows(way, j, y.front)
    BY <1>2, <1>3, <2>1, <2>2
  <2>4. Follows(o, y.front, j)
    BY <1>1, <1>2, <1>3, <2>3, Following DEF o
  <2>5. y.front = First(p, o) => Second(p, o) \notin {i, j}
    <3>1. SUFFICES ASSUME y.front = First(p, o), j = Second(p, o) PROVE FALSE
      BY <1>6 DEF InOrderAt
    <3>2. ClearFrom(p, way, j, v.clear)
      <4>1. j # Final(p, way) /\ j \in SignalPlaces(p, way)
        BY <1>1, <3>1 DEF SignalPlaces
      <4> QED
        BY <1>1, <2>0, <4>1, NextClear DEF AheadClear
    <3>3. on
      <4>1. y.front \in Beyond(p, way, j)
        BY <1>1, <1>2, <1>3, <2>3, Following
      <4> QED
        BY <1>1, <1>3, <1>6, <3>2, <4>1, RearBehind DEF o
    <3>4. Proceeds(v, EntryMast(p, o))
      BY <1>6, <3>1, <3>3 DEF Sampled
    <3>5. ClearFrom(p, o, First(p, o), v.clear)
      BY <1>1, <2>0, <3>4 DEF RelaysInOrder, AheadClear
    <3> QED
      BY <1>1, <1>4, <3>5 DEF ClearFrom
  <2> QED
    BY <1>1, <1>3, <1>6, <2>3, <2>4, <2>5 DEF InOrderAt, o
<1> QED
  BY <1>1, <1>2, <1>5, <1>6

\* And what it covered when the circuits were sampled is not clear.
LEMMA AdvanceSampled ==
    ASSUME NEW p, WellFormed(p), Len(p.track) > 3, NEW v,
           NEW x \in PlacesOf(p), x.rear = x.front, x.front # Final(p, x.way),
           NEW z \in PlacesOf(p), z.way = x.way, z.rear = x.rear,
           z.front = Ahead(x.way, x.front), Sampled(p, v, FALSE, x)
    PROVE  Sampled(p, v, TRUE, z)
PROOF
<1>1. x.way \in Ways /\ x.front \in DOMAIN p.track
  BY PlaceType
<1>2. z.front # First(p, x.way)
  BY <1>1, NextPlace
<1> QED
  BY <1>2 DEF Sampled

\* A train that pulls clear behind covers less of what was sampled.
LEMMA PullSampled ==
    ASSUME NEW p, WellFormed(p), Len(p.track) > 3, NEW v,
           NEW x \in PlacesOf(p), x.rear # x.front,
           NEW z \in PlacesOf(p), z.way = x.way, z.rear = x.front, z.front = x.front,
           Sampled(p, v, FALSE, x)
    PROVE  Sampled(p, v, TRUE, z)
PROOF
<1>1. x.way \in Ways /\ x.front \in DOMAIN p.track /\ x.rear \in DOMAIN p.track
  BY PlaceType
<1>2. x.front = Ahead(x.way, x.rear) /\ p.track[x.front] \notin v.clear
  BY DEF Sampled
<1>3. z.front # First(p, x.way)
  BY <1>1, <1>2, AheadInside, NextPlace
<1> QED
  BY <1>2, <1>3 DEF Sampled

\* And it keeps its order with every other train.
LEMMA PullApart ==
    ASSUME NEW p, NEW x, NEW z, z.way = x.way, z.rear = x.front, z.front = x.front, NEW y,
           InOrderAt(p, x, y), InOrderAt(p, y, x)
    PROVE  InOrderAt(p, z, y) /\ InOrderAt(p, y, z)
  BY DEF InOrderAt

-----------------------------------------------------------------------------
(* Types.                                                                  *)

\* What the assumption on plants and the types say of the plant that is checked.
LEMMA Given ==
    ASSUME TypeOK
    PROVE  /\ WellFormed(plant) /\ plant \in Plants /\ relays \in View(plant)
           /\ train \in [Trains -> {None} \cup PlacesOf(plant)]
           /\ None \notin PlacesOf(plant)
PROOF
<1>1. WellFormed(plant) /\ plant \in Plants /\ relays \in View(plant)
  BY PlantsAssumption DEF TypeOK
<1>2. DOMAIN plant.track \subseteq Nat
  BY <1>1, LenProperties DEF WellFormed
<1>3. None \notin PlacesOf(plant)
  BY <1>2, PlantsAssumption DEF PlacesOf
<1> QED
  BY <1>1, <1>3 DEF TypeOK, PlacesOf

\* At start the view, the trains and the circuits are of their types.
LEMMA InitTyped ==
    ASSUME Init PROVE TypeOK
PROOF
<1>1. SignalAtRest \in SignalState({0, 1})
  BY DEF SignalAtRest, SignalState, Directions
<1>2. relays \in View(plant)
  BY <1>1 DEF Init, View, Aspects
<1> QED
  BY <1>2 DEF Init, TypeOK

\* A train that moves is put at a place of the track, or elsewhere.
LEMMA MovesTyped ==
    ASSUME TypeOK, NEW t \in Trains, NEW z \in {None} \cup PlacesOf(plant), Moves(t, z)
    PROVE  TypeOK'
  BY DEF Moves, TypeOK, PlacesOf

\* Where each of the moves takes a train.
LEMMA ArriveTo ==
    ASSUME TypeOK, NEW t \in Trains, NEW way \in plant.ways[t], Arrive(t, way),
           NEW z, z = [way |-> way, rear |-> First(plant, way), front |-> First(plant, way)]
    PROVE  /\ train[t] = None /\ MayEnter(way, First(plant, way)) /\ Moves(t, z)
           /\ z \in PlacesOf(plant) /\ way \in Ways
PROOF
<1>1. way \in Ways
  BY Given DEF WellFormed
<1>2. First(plant, way) \in DOMAIN plant.track
  <2>1. Len(plant.track) \in Nat /\ DOMAIN plant.track = 1 .. Len(plant.track)
        /\ Len(plant.track) > 0
    BY Given, LenProperties DEF WellFormed
  <2> QED
    BY <2>1 DEF First
<1> QED
  BY <1>1, <1>2 DEF Arrive, PlacesOf

\* Advance() puts its head one place on.
LEMMA AdvanceTo ==
    ASSUME TypeOK, NEW t \in Trains, Advance(t), NEW x, x = train[t],
           NEW z, z = [x EXCEPT !.front = Ahead(x.way, @)]
    PROVE  /\ x \in PlacesOf(plant) /\ x # None /\ x.rear = x.front
           /\ x.front # Final(plant, x.way) /\ MayEnter(x.way, Ahead(x.way, x.front))
           /\ Moves(t, z) /\ z \in PlacesOf(plant)
           /\ z.way = x.way /\ z.rear = x.rear /\ z.front = Ahead(x.way, x.front)
PROOF
<1>1. /\ x \in PlacesOf(plant) /\ x # None /\ x.rear = x.front
      /\ x.front # Final(plant, x.way) /\ MayEnter(x.way, Ahead(x.way, x.front))
      /\ Moves(t, z)
  BY Given DEF Advance
<1>2. Ahead(x.way, x.front) \in DOMAIN plant.track
  <2>1. Len(plant.track) \in Nat /\ DOMAIN plant.track = 1 .. Len(plant.track)
    BY Given, LenProperties DEF WellFormed
  <2>2. x.way \in Ways /\ x.front \in DOMAIN plant.track
    BY <1>1, PlaceType
  <2> QED
    BY <1>1, <2>1, <2>2 DEF Ahead, Final, First, Opposite, Ways
<1>3. z \in PlacesOf(plant) /\ z.way = x.way /\ z.rear = x.rear
      /\ z.front = Ahead(x.way, x.front)
  BY <1>1, <1>2 DEF PlacesOf
<1> QED
  BY <1>1, <1>3

\* PullClear() leaves it on its front place.
LEMMA PullClearTo ==
    ASSUME TypeOK, NEW t \in Trains, PullClear(t), NEW x, x = train[t],
           NEW z, z = [x EXCEPT !.rear = x.front]
    PROVE  /\ x \in PlacesOf(plant) /\ x # None /\ x.rear # x.front
           /\ Moves(t, z) /\ z \in PlacesOf(plant)
           /\ z.way = x.way /\ z.rear = x.front /\ z.front = x.front
PROOF
<1>1. x \in PlacesOf(plant) /\ x # None /\ x.rear # x.front /\ Moves(t, z)
  BY Given DEF PullClear
<1>2. z \in PlacesOf(plant) /\ z.way = x.way /\ z.rear = x.front /\ z.front = x.front
  BY <1>1 DEF PlacesOf
<1> QED
  BY <1>1, <1>2

\* What a control does, and the end of a release time, to the relays.
LEMMA DemandTo ==
    ASSUME TypeOK, NEW d \in plant.demands, SignalDemand(d[1], d[2])
    PROVE  /\ relays' \in View(plant)
           /\ LockedAtStop(relays) => LockedAtStop(relays')
           /\ relays'.clear = relays.clear /\ relays'.sr = relays.sr
           /\ relays'.hr = relays.hr /\ relays'.cleared = relays.cleared
           /\ relays'.mast = relays.mast
           /\ UNCHANGED <<plant, train, outside, moved>>
PROOF
<1> DEFINE l == d[1]
           req == d[2]
           s == relays.sig[l]
<1>1. l \in Levers /\ req \in Directions
  BY Given DEF WellFormed
<1>2. PICK occupied \in BOOLEAN :
           relays' = [relays EXCEPT !.sig[l] = UpdateCommand(@, req, FALSE, occupied, 1)]
  BY DEF SignalDemand, Occupied
<1> DEFINE x == UpdateCommand(s, req, FALSE, occupied, 1)
<1>3. relays \in View(plant) /\ s \in SignalState({0, 1})
      /\ relays.sig \in [Levers -> SignalState({0, 1})]
  BY <1>1, Given DEF View
<1>4. x \in SignalState({0, 1})
  BY <1>1, <1>3
     DEF UpdateCommand, Cancels, TakenAway, Coded, Cleared, SignalState, Directions
<1>5. (s.timeLock => s.active = "STOP") => (x.timeLock => x.active = "STOP")
  BY <1>1, <1>3
     DEF UpdateCommand, Cancels, TakenAway, Coded, Cleared, SignalState, Directions
<1>6. /\ relays' = [relays EXCEPT !.sig = [relays.sig EXCEPT ![l] = x]]
  BY <1>1, <1>2, <1>3
<1> HIDE DEF x, s, l
<1>7. /\ relays'.sig = [relays.sig EXCEPT ![l] = x]
      /\ relays'.clear = relays.clear /\ relays'.sr = relays.sr
      /\ relays'.hr = relays.hr /\ relays'.cleared = relays.cleared
      /\ relays'.mast = relays.mast /\ relays' \in View(plant)
  BY <1>1, <1>3, <1>4, <1>6 DEF View
<1>8. LockedAtStop(relays) => LockedAtStop(relays')
  BY <1>1, <1>3, <1>5, <1>7 DEF LockedAtStop, s
<1>9. UNCHANGED <<plant, train, outside, moved>>
  BY DEF SignalDemand
<1> QED
  BY <1>7, <1>8, <1>9

\* The end of a release time changes the timer of one lever only.
LEMMA ReleaseTo ==
    ASSUME TypeOK, NEW l \in Levers, ReleaseTimeRuns(l)
    PROVE  /\ relays' \in View(plant)
           /\ LockedAtStop(relays) => LockedAtStop(relays')
           /\ relays'.clear = relays.clear /\ relays'.sr = relays.sr
           /\ relays'.hr = relays.hr /\ relays'.cleared = relays.cleared
           /\ relays'.mast = relays.mast
           /\ UNCHANGED <<plant, train, outside, moved>>
PROOF
<1> DEFINE s == relays.sig[l]
           x == [s EXCEPT !.timer = 0]
<1>3. relays \in View(plant) /\ s \in SignalState({0, 1})
      /\ relays.sig \in [Levers -> SignalState({0, 1})]
  BY Given DEF View
<1>4. x \in SignalState({0, 1}) /\ x.timeLock = s.timeLock /\ x.active = s.active
  BY <1>3 DEF SignalState
<1>6. relays' = [relays EXCEPT !.sig = [relays.sig EXCEPT ![l] = x]]
  BY <1>3 DEF ReleaseTimeRuns
<1> HIDE DEF x, s
<1>7. /\ relays'.sig = [relays.sig EXCEPT ![l] = x]
      /\ relays'.clear = relays.clear /\ relays'.sr = relays.sr
      /\ relays'.hr = relays.hr /\ relays'.cleared = relays.cleared
      /\ relays'.mast = relays.mast /\ relays' \in View(plant)
  BY <1>3, <1>4, <1>6 DEF View
<1>8. LockedAtStop(relays) => LockedAtStop(relays')
  BY <1>3, <1>4, <1>7 DEF LockedAtStop, s
<1>9. UNCHANGED <<plant, train, outside, moved>>
  BY DEF ReleaseTimeRuns
<1> QED
  BY <1>7, <1>8, <1>9

\* Every step keeps the types.
LEMMA NextTyped ==
    ASSUME TypeOK, [Next]_vars PROVE TypeOK'
PROOF
<1>1. ASSUME NEW t \in Trains, NEW way \in plant.ways[t], Arrive(t, way)
      PROVE  TypeOK'
  BY <1>1, ArriveTo, MovesTyped
<1>2. ASSUME NEW t \in Trains, Advance(t)
      PROVE  TypeOK'
  BY <1>2, AdvanceTo, MovesTyped
<1>3. ASSUME NEW t \in Trains, PullClear(t)
      PROVE  TypeOK'
  BY <1>3, PullClearTo, MovesTyped
<1>4. ASSUME NEW t \in Trains, Depart(t)
      PROVE  TypeOK'
  <2>1. Moves(t, None)
    BY <1>4 DEF Depart
  <2> QED
    BY <2>1, MovesTyped
<1>5. ASSUME NEW c \in plant.outside, OutsideChanges(c)
      PROVE  TypeOK'
  BY <1>5 DEF OutsideChanges, TypeOK
<1>6. ASSUME NEW d \in plant.demands, SignalDemand(d[1], d[2])
      PROVE  TypeOK'
  <2>1. relays' \in View(plant) /\ UNCHANGED <<plant, train, outside, moved>>
    BY <1>6, DemandTo
  <2> QED
    BY <2>1 DEF TypeOK
<1>7. ASSUME NEW l \in Levers, ReleaseTimeRuns(l)
      PROVE  TypeOK'
  <2>1. relays' \in View(plant) /\ UNCHANGED <<plant, train, outside, moved>>
    BY <1>7, ReleaseTo
  <2> QED
    BY <2>1 DEF TypeOK
<1>8. ASSUME Scan
      PROVE  TypeOK'
  <2>1. NextRelays \in View(plant)
    BY Given, ScannedType DEF NextRelays
  <2> QED
    BY <1>8, <2>1 DEF Scan, TypeOK
<1>9. CASE UNCHANGED vars
  BY <1>9 DEF vars, TypeOK
<1> QED
  BY <1>1, <1>2, <1>3, <1>4, <1>5, <1>6, <1>7, <1>8, <1>9 DEF Next, Travel

\* The view holds levers, sticks, HRs, lines and masts of the plant that is
\* checked, and trains stand on its track, whatever the plant is.
THEOREM TypeCorrect == Spec => []TypeOK
PROOF
<1>1. Init => TypeOK
  BY InitTyped
<1>2. TypeOK /\ [Next]_vars => TypeOK'
  BY NextTyped
<1> QED
  BY <1>1, <1>2, PTL DEF Spec

-----------------------------------------------------------------------------
(* The invariant.                                                          *)

\* At start all masts are at Stop and nobody is in the block.
LEMMA BlockInit ==
    ASSUME Init, Chained(plant) PROVE BlockInv
PROOF
<1>1. TypeOK
  BY InitTyped
<1>2. /\ relays.sr = {} /\ relays.hr = {} /\ relays.clear = {} /\ relays.cleared = {}
      /\ \A m \in plant.masts : relays.mast[m] = "STOP"
      /\ LockedAtStop(relays)
      /\ \A t \in Trains : train[t] = None
  BY DEF Init, LockedAtStop, SignalAtRest
<1>3. ASSUME NEW way \in Ways, NEW i \in DOMAIN plant.track
      PROVE  ~Proceeds(relays, plant.guard[way][i])
  <2>1. plant.guard[way][i] \in plant.masts \cup {None}
    BY <1>1, Given DEF WellFormed
  <2> QED
    BY <1>2, <2>1 DEF Proceeds
<1>4. \A way \in Ways : ~Proceeds(relays, EntryMast(plant, way))
                        /\ ~Proceeds(relays, ExitMast(plant, way))
                        /\ \A i \in SignalPlaces(plant, way) :
                             ~Proceeds(relays, plant.guard[way][i])
  <2>1. WellFormed(plant) /\ Len(plant.track) > 3
    BY <1>1, Given DEF Chained
  <2>2. \A way \in Ways : /\ First(plant, way) \in DOMAIN plant.track
                          /\ Final(plant, way) \in DOMAIN plant.track
    BY <2>1, Endpoints
  <2> QED
    BY <1>3, <2>2 DEF EntryMast, ExitMast, SignalPlaces
<1>5. \A way \in Ways : ~StickUp(plant, way, relays.sr)
  BY <1>2 DEF StickUp
<1>6. RelaysInOrder(plant, relays)
  <2>1. "SOUTH" \in Ways
    BY DEF Ways
  <2> QED
    BY <1>2, <1>4, <1>5, <2>1 DEF RelaysInOrder, LockedAtStop
<1> QED
  BY <1>2, <1>5, <1>6 DEF BlockInv, TrainsSampled, InTrackOrder, SticksBehindTrains

\* One train moves; it is where it may be, and the others stay.
LEMMA MoveKeeps ==
    ASSUME TypeOK, Chained(plant), BlockInv,
           NEW t \in Trains, NEW z \in {None} \cup PlacesOf(plant), Moves(t, z),
           z # None => Sampled(plant, relays, TRUE, z) /\ BehindSticks(plant, relays, z),
           \A u \in Trains : u # t /\ z # None /\ train[u] # None =>
              InOrderAt(plant, z, train[u]) /\ InOrderAt(plant, train[u], z)
    PROVE  BlockInv'
PROOF
<1>1. /\ plant' = plant /\ relays' = relays
      /\ train' = [train EXCEPT ![t] = z] /\ moved' = moved \cup {t}
  BY DEF Moves
<1>2. RelaysInOrder(plant, relays) /\ TrainsSampled /\ InTrackOrder /\ SticksBehindTrains
  BY DEF BlockInv
<1>3. train \in [Trains -> {None} \cup PlacesOf(plant)]
  BY Given
<1>4. train'[t] = z /\ \A u \in Trains : u # t => train'[u] = train[u]
  BY <1>1, <1>3
<1>5. TrainsSampled'
  <2>1. ASSUME NEW u \in Trains, train'[u] # None
        PROVE  Sampled(plant, relays, u \in moved', train'[u])
    <3>1. CASE u = t
      <4>1. (u \in moved') = TRUE
        BY <1>1, <3>1
      <4> QED
        BY <1>4, <2>1, <3>1, <4>1
    <3>2. CASE u # t
      <4>1. (u \in moved') = (u \in moved)
        BY <1>1, <3>2
      <4>2. Sampled(plant, relays, u \in moved, train[u])
        BY <1>2, <1>4, <2>1, <3>2 DEF TrainsSampled
      <4> QED
        BY <1>4, <3>2, <4>1, <4>2
    <3> QED
      BY <3>1, <3>2
  <2> QED
    BY <1>1, <2>1 DEF TrainsSampled
<1>6. InTrackOrder'
  <2>1. ASSUME NEW u \in Trains, NEW x \in Trains, u # x, train'[u] # None, train'[x] # None
        PROVE  InOrderAt(plant, train'[u], train'[x])
    BY <1>2, <1>4, <2>1 DEF InTrackOrder
  <2> QED
    BY <1>1, <2>1 DEF InTrackOrder
<1>7. SticksBehindTrains'
  <2>1. ASSUME NEW way \in Ways, StickUp(plant, way, relays.sr), NEW u \in Trains,
               train'[u] # None, train'[u].way = Opposite(way)
        PROVE  FALSE
    <3>1. CASE u = t
      <4>1. z # None /\ z.way = Opposite(way)
        BY <1>4, <2>1, <3>1
      <4>2. Opposite(z.way) = way
        BY <4>1 DEF Opposite, Ways
      <4> QED
        BY <2>1, <4>1, <4>2 DEF BehindSticks
    <3>2. CASE u # t
      BY <1>2, <1>4, <2>1, <3>2 DEF SticksBehindTrains, Running
    <3> QED
      BY <3>1, <3>2
  <2> QED
    BY <1>1, <2>1 DEF SticksBehindTrains, Running
<1> QED
  BY <1>1, <1>2, <1>5, <1>6, <1>7 DEF BlockInv

\* What the invariant says of a train that stands in the block.
LEMMA OnTheWay ==
    ASSUME TypeOK, Chained(plant), BlockInv, NEW u \in Trains, train[u] # None
    PROVE  /\ train[u] \in PlacesOf(plant)
           /\ Sampled(plant, relays, u \in moved, train[u])
           /\ BehindSticks(plant, relays, train[u])
PROOF
<1>1. train[u] \in PlacesOf(plant)
  BY Given
<1>2. Sampled(plant, relays, u \in moved, train[u])
  BY DEF BlockInv, TrainsSampled
<1>3. BehindSticks(plant, relays, train[u])
  <2>1. /\ Opposite(train[u].way) \in Ways
        /\ Opposite(Opposite(train[u].way)) = train[u].way
    BY <1>1, PlaceType DEF Opposite, Ways
  <2> QED
    BY <2>1 DEF BlockInv, SticksBehindTrains, Running, BehindSticks
<1> QED
  BY <1>1, <1>2, <1>3

\* A train enters past a leaving signal that proceeds.
LEMMA ArriveKeeps ==
    ASSUME TypeOK, Chained(plant), BlockInv,
           NEW t \in Trains, NEW way \in plant.ways[t], Arrive(t, way)
    PROVE  BlockInv'
PROOF
<1> DEFINE z == [way |-> way, rear |-> First(plant, way), front |-> First(plant, way)]
           f == First(plant, way)
<1>1. /\ train[t] = None /\ MayEnter(way, f) /\ Moves(t, z)
      /\ z \in PlacesOf(plant) /\ way \in Ways
      /\ z.way = way /\ z.rear = f /\ z.front = f
  BY ArriveTo
<1> HIDE DEF z
<1>2. WellFormed(plant) /\ RelaysInOrder(plant, relays) /\ Len(plant.track) > 3
  BY Given DEF BlockInv, Chained
<1>3. Proceeds(relays, EntryMast(plant, way))
  <2>1. EntryMast(plant, way) # None
    BY <1>1 DEF Chained, ControlPoint
  <2> QED
    BY <1>1, <2>1 DEF MayEnter, Proceeds, EntryMast
<1>4. Sampled(plant, relays, TRUE, z)
  BY <1>1, <1>3 DEF Sampled
<1>5. BehindSticks(plant, relays, z)
  <2>1. Opposite(way) \in Ways /\ Opposite(Opposite(way)) = way
    BY <1>1 DEF Opposite, Ways
  <2> QED
    BY <1>1, <1>2, <1>3, <2>1 DEF RelaysInOrder, BehindSticks
<1>6. ASSUME NEW u \in Trains, u # t, train[u] # None
      PROVE  InOrderAt(plant, z, train[u]) /\ InOrderAt(plant, train[u], z)
  <2> DEFINE y == train[u]
             on == u \in moved
  <2>1. /\ y \in PlacesOf(plant) /\ Sampled(plant, relays, on, y)
        /\ BehindSticks(plant, relays, y)
    BY <1>6, OnTheWay
  <2>2. ~(on /\ f \in {y.rear, y.front} /\ y.way = way)
    BY <1>1, <1>6 DEF MayEnter, Span
  <2> HIDE DEF y, on
  <2>3. InOrderAt(plant, z, y) /\ InOrderAt(plant, y, z)
    BY <1>1, <1>2, <1>3, <2>1, <2>2, ArriveApart
  <2> QED
    BY <2>3 DEF y
<1> QED
  BY <1>1, <1>4, <1>5, <1>6, MoveKeeps

\* A train goes on past a signal that proceeds, or where there is none.
LEMMA AdvanceKeeps ==
    ASSUME TypeOK, Chained(plant), BlockInv, NEW t \in Trains, Advance(t)
    PROVE  BlockInv'
PROOF
<1> DEFINE x == train[t]
           way == x.way
           i == x.rear
           j == Ahead(way, i)
           z == [x EXCEPT !.front = Ahead(x.way, @)]
<1>1. /\ x \in PlacesOf(plant) /\ x # None /\ i = x.front
      /\ i # Final(plant, way) /\ MayEnter(way, j)
      /\ Moves(t, z) /\ z \in PlacesOf(plant)
      /\ z.way = way /\ z.rear = i /\ z.front = j
  BY AdvanceTo
<1>2. WellFormed(plant) /\ RelaysInOrder(plant, relays) /\ Len(plant.track) > 3
  BY Given DEF BlockInv, Chained
<1>3. Sampled(plant, relays, FALSE, x) /\ BehindSticks(plant, relays, x)
  <2>1. (t \in moved) = FALSE
    BY <1>1 DEF Moves
  <2> QED
    BY <1>1, <2>1, OnTheWay
<1>4. plant.guard[way][j] # None => relays.mast[plant.guard[way][j]] # "STOP"
  BY <1>1 DEF MayEnter
<1> HIDE DEF z, j
<1>5. Sampled(plant, relays, TRUE, z)
  BY <1>1, <1>2, <1>3, AdvanceSampled DEF j
<1>6. BehindSticks(plant, relays, z)
  BY <1>1, <1>3 DEF BehindSticks
<1>7. ASSUME NEW u \in Trains, u # t, train[u] # None
      PROVE  InOrderAt(plant, z, train[u]) /\ InOrderAt(plant, train[u], z)
  <2> DEFINE y == train[u]
             on == u \in moved
  <2>1. /\ y \in PlacesOf(plant) /\ Sampled(plant, relays, on, y)
        /\ BehindSticks(plant, relays, y)
    BY <1>7, OnTheWay
  <2>2. ~(on /\ j \in {y.rear, y.front} /\ y.way = way)
    BY <1>1, <1>7 DEF MayEnter, Span
  <2>3. InOrderAt(plant, x, y) /\ InOrderAt(plant, y, x)
    BY <1>1, <1>7 DEF BlockInv, InTrackOrder
  <2>4. j = Ahead(way, i)
    BY DEF j
  <2> HIDE DEF y, on, x, way, i
  <2>5. way = x.way /\ i = x.rear
    BY DEF way, i
  <2>6. InOrderAt(plant, z, y) /\ InOrderAt(plant, y, z)
    BY <1>1, <1>2, <1>3, <1>4, <2>1, <2>2, <2>3, <2>4, <2>5, AdvanceApart
  <2> QED
    BY <2>6 DEF y
<1> QED
  BY <1>1, <1>5, <1>6, <1>7, MoveKeeps

\* A train pulls clear of the circuit behind it.
LEMMA PullClearKeeps ==
    ASSUME TypeOK, Chained(plant), BlockInv, NEW t \in Trains, PullClear(t)
    PROVE  BlockInv'
PROOF
<1> DEFINE x == train[t]
           z == [x EXCEPT !.rear = x.front]
<1>1. /\ x \in PlacesOf(plant) /\ x # None /\ x.rear # x.front
      /\ Moves(t, z) /\ z \in PlacesOf(plant)
      /\ z.way = x.way /\ z.rear = x.front /\ z.front = x.front
  BY PullClearTo
<1>2. WellFormed(plant) /\ Len(plant.track) > 3
  BY Given DEF Chained
<1>3. Sampled(plant, relays, FALSE, x) /\ BehindSticks(plant, relays, x)
  <2>1. (t \in moved) = FALSE
    BY <1>1 DEF Moves
  <2> QED
    BY <1>1, <2>1, OnTheWay
<1> HIDE DEF z
<1>4. Sampled(plant, relays, TRUE, z)
  BY <1>1, <1>2, <1>3, PullSampled
<1>5. BehindSticks(plant, relays, z)
  BY <1>1, <1>3 DEF BehindSticks
<1>6. ASSUME NEW u \in Trains, u # t, train[u] # None
      PROVE  InOrderAt(plant, z, train[u]) /\ InOrderAt(plant, train[u], z)
  <2>1. InOrderAt(plant, x, train[u]) /\ InOrderAt(plant, train[u], x)
    BY <1>1, <1>6 DEF BlockInv, InTrackOrder
  <2> QED
    BY <1>1, <2>1, PullApart
<1> QED
  BY <1>1, <1>4, <1>5, <1>6, MoveKeeps

\* Levers that change say nothing of signals, sticks or circuits.
LEMMA LeversKeep ==
    ASSUME Chained(plant), BlockInv,
           LockedAtStop(relays) => LockedAtStop(relays'),
           /\ relays'.clear = relays.clear /\ relays'.sr = relays.sr
           /\ relays'.hr = relays.hr /\ relays'.cleared = relays.cleared
           /\ relays'.mast = relays.mast,
           plant' = plant, train' = train, moved' = moved
    PROVE  BlockInv'
PROOF
<1>1. RelaysInOrder(plant, relays) /\ TrainsSampled /\ InTrackOrder /\ SticksBehindTrains
  BY DEF BlockInv
<1>2. \A m : Proceeds(relays', m) <=> Proceeds(relays, m)
  BY DEF Proceeds
<1>3. \A way, i : AheadClear(plant, relays', way, i) <=> AheadClear(plant, relays, way, i)
  BY DEF AheadClear
<1>4. RelaysInOrder(plant, relays')
  BY <1>1, <1>2, <1>3 DEF RelaysInOrder, LockedAtStop
<1>5. \A on, x : Sampled(plant, relays', on, x) <=> Sampled(plant, relays, on, x)
  BY <1>2 DEF Sampled
<1>6. TrainsSampled' /\ InTrackOrder' /\ SticksBehindTrains'
  BY <1>1, <1>5 DEF TrainsSampled, InTrackOrder, SticksBehindTrains, Running
<1> QED
  BY <1>4, <1>6 DEF BlockInv

-----------------------------------------------------------------------------
(* A scan.                                                                 *)

\* A scan of the circuits as they are has the parts that ScanParts lists.
LEMMA ScanTo ==
    ASSUME TypeOK, Chained(plant), BlockInv, NEW clear, clear = plant.circuits \ Shunted
    PROVE  \E b, d, e : ScanParts(plant, relays, clear, b, d, e, NextRelays)
PROOF
<1>1. WellFormed(plant) /\ relays \in View(plant)
  BY Given
<1>2. LockedAtStop(relays)
  BY DEF BlockInv, RelaysInOrder, LockedAtStop
<1>3. clear \in SUBSET plant.circuits
  OBVIOUS
<1> DEFINE w == NextRelays
<1>4. w = Scanned(plant, relays, clear)
  BY DEF NextRelays
<1> HIDE DEF w
<1>5. \E b, d, e : ScanParts(plant, relays, clear, b, d, e, w)
  BY <1>1, <1>2, <1>3, <1>4, ScanDone
<1> QED
  BY <1>5 DEF w

\* The circuits under a train are not clear.
LEMMA Shunts ==
    ASSUME TypeOK, NEW t \in Trains, train[t] # None
    PROVE  /\ plant.track[train[t].rear] \notin plant.circuits \ Shunted
           /\ plant.track[train[t].front] \notin plant.circuits \ Shunted
PROOF
<1>1. Span(t) = {train[t].rear, train[t].front}
  BY DEF Span
<1>2. \A i \in Span(t) : i \in UNION {Span(u) : u \in Trains}
  OBVIOUS
<1>3. \A i \in Span(t) : plant.track[i] \in OnTrack
  BY <1>2 DEF OnTrack
<1> QED
  BY <1>1, <1>3 DEF Shunted

\* A circuit of the track that is not clear is under a train.
LEMMA WhoIsThere ==
    ASSUME TypeOK, Chained(plant), NEW i \in DOMAIN plant.track,
           plant.track[i] \notin plant.circuits \ Shunted
    PROVE  \E t \in Trains : train[t] # None /\ i \in {train[t].rear, train[t].front}
PROOF
<1>1. WellFormed(plant)
  BY Given
<1>2. plant.track[i] \in plant.circuits /\ plant.track[i] \in ToSet(plant.track)
  BY <1>1 DEF WellFormed, ToSet
<1>3. plant.track[i] \in OnTrack
  BY <1>2 DEF Shunted, Chained, TypeOK
<1>4. PICK t \in Trains : \E j \in Span(t) : plant.track[i] = plant.track[j]
  BY <1>3 DEF OnTrack
<1>5. PICK j \in Span(t) : plant.track[i] = plant.track[j]
  BY <1>4
<1>6. train[t] # None /\ j \in {train[t].rear, train[t].front}
  BY <1>5 DEF Span
<1>7. train[t] \in PlacesOf(plant)
  BY <1>6, Given
<1>8. j \in DOMAIN plant.track
  BY <1>6, <1>7, PlaceType
<1>9. i = j
  BY <1>5, <1>8 DEF Chained, IsInjective
<1> QED
  BY <1>6, <1>9

\* A train that passes an automatic signal whose HR was up leaves no train
\* against it: whoever came towards it would have had to enter at a signal
\* that this train, or its stick, held at Stop.
LEMMA PassedAlone ==
    ASSUME NEW p, WellFormed(p), Chained(p), NEW v, RelaysInOrder(p, v), NEW way \in Ways,
           NEW i \in SignalPlaces(p, way), p.guard[way][i] \in v.hr,
           NEW z \in PlacesOf(p), NEW on, Sampled(p, v, on, z), BehindSticks(p, v, z),
           i \in {z.rear, z.front},
           NEW y \in PlacesOf(p), NEW too, Sampled(p, v, too, y), BehindSticks(p, v, y),
           y.way = Opposite(way), z.way = way => InOrderAt(p, z, y)
    PROVE  FALSE
PROOF
<1>0. Len(p.track) > 3
  BY DEF Chained
<1>1. /\ Opposite(way) \in Ways /\ Opposite(Opposite(way)) = way
      /\ First(p, way) = Final(p, Opposite(way)) /\ Final(p, way) = First(p, Opposite(way))
      /\ Beyond(p, Opposite(way), First(p, Opposite(way))) = DOMAIN p.track
  BY <1>0, Endpoints
<1>2. /\ i \in DOMAIN p.track /\ i # First(p, way) /\ i # Final(p, way)
  BY DEF SignalPlaces
<1>3. /\ z.way \in Ways /\ z.rear \in DOMAIN p.track /\ z.front \in DOMAIN p.track
      /\ y.rear \in DOMAIN p.track /\ y.front \in DOMAIN p.track
  BY PlaceType
<1>4. ~StickUp(p, way, v.sr)
  BY <1>1 DEF BehindSticks
<1>5. ClearFrom(p, way, i, v.clear) /\ p.track[i] \in v.clear
  BY <1>4 DEF RelaysInOrder, AheadClear
<1>6. CASE z.way = Opposite(way)
  <2>1. CASE z.front = i
    <3>1. i \in Beyond(p, way, i)
      BY <1>2, Following
    <3>2. z.front = Final(p, way)
      BY <1>0, <1>2, <1>5, <1>6, <2>1, <3>1, RearBehind
    <3> QED
      BY <1>2, <2>1, <3>2
  <2>2. CASE z.rear = i
    <3>1. z.rear = First(p, Opposite(way))
      BY <1>5, <1>6, <2>2 DEF Sampled
    <3> QED
      BY <1>1, <1>2, <2>2, <3>1
  <2> QED
    BY <2>1, <2>2
<1>7. CASE z.way = way
  <2>1. z.front \in Beyond(p, way, i)
    <3>1. CASE z.front = i
      BY <1>2, <3>1, Following
    <3>2. CASE z.front # i
      <4>1. z.front = Ahead(way, i)
        BY <1>7, <3>2 DEF Sampled
      <4> DEFINE j == Ahead(way, i)
      <4>2. j \in Beyond(p, way, j) /\ Beyond(p, way, i) = Beyond(p, way, j) \cup {i}
        BY <1>0, <1>2, NextPlace
      <4> QED
        BY <4>1, <4>2
    <3> QED
      BY <3>1, <3>2
  <2>2. Follows(way, z.front, y.front)
    BY <1>7 DEF InOrderAt
  <2>3. y.front \in Beyond(p, way, i)
    <3>1. y.front \in Beyond(p, way, z.front)
      BY <1>3, <2>2, Following
    <3> QED
      BY <1>2, <1>3, <2>1, <3>1, Following
  <2>4. too /\ y.front = Final(p, way)
    BY <1>0, <1>2, <1>5, <2>3, RearBehind
  <2>5. Proceeds(v, EntryMast(p, Opposite(way)))
    BY <1>1, <2>4 DEF Sampled
  <2>6. AheadClear(p, v, Opposite(way), First(p, Opposite(way)))
    BY <1>1, <2>5 DEF RelaysInOrder
  <2>7. ~StickUp(p, Opposite(way), v.sr)
    BY <1>7 DEF BehindSticks
  <2>8. p.track[z.rear] \in v.clear
    BY <1>1, <1>3, <2>6, <2>7 DEF AheadClear, ClearFrom
  <2>9. z.rear = First(p, way) /\ z.front = z.rear
    BY <1>7, <2>8 DEF Sampled
  <2> QED
    BY <1>2, <2>9
<1>8. z.way = way \/ z.way = Opposite(way)
  BY <1>3 DEF Opposite, Ways
<1> QED
  BY <1>6, <1>7, <1>8

\* A stick that is up after a scan has no train that runs against it.
LEMMA SticksScanned ==
    ASSUME TypeOK, Chained(plant), BlockInv,
           NEW clear, clear = plant.circuits \ Shunted, NEW b, NEW d, NEW e, NEW w,
           ScanParts(plant, relays, clear, b, d, e, w),
           NEW way \in Ways, StickUp(plant, way, w.sr),
           NEW u \in Trains, Running(u, Opposite(way))
    PROVE  FALSE
PROOF
<1>1. WellFormed(plant) /\ RelaysInOrder(plant, relays)
  BY Given DEF BlockInv
<1>2. PICK i \in SignalPlaces(plant, way) : plant.guard[way][i] \in w.sr
  BY DEF StickUp
<1> DEFINE a == plant.guard[way][i]
<1>3. ~StickUp(plant, way, relays.sr)
  BY DEF BlockInv, SticksBehindTrains
<1>4. a \notin relays.sr
  BY <1>3 DEF StickUp
<1>5. Passed(plant, b, a) /\ b.clear = clear /\ b.hr = relays.hr
  BY <1>2, <1>4, Zenon DEF ScanParts
<1>6. a \in relays.hr /\ plant.track[i] \notin clear
  <2>1. plant.signals[a].governs = {plant.track[i]}
    BY DEF Chained, ChainOfSignals
  <2> QED
    BY <1>5, <2>1 DEF Passed
<1>7. i \in DOMAIN plant.track
  BY DEF SignalPlaces
<1>8. PICK t \in Trains : train[t] # None /\ i \in {train[t].rear, train[t].front}
  BY <1>6, <1>7, WhoIsThere
<1>9. /\ train[t] \in PlacesOf(plant) /\ Sampled(plant, relays, t \in moved, train[t])
      /\ BehindSticks(plant, relays, train[t])
  BY <1>8, OnTheWay
<1>10. train[u] # None /\ train[u].way = Opposite(way)
  BY DEF Running
<1>11. /\ train[u] \in PlacesOf(plant) /\ Sampled(plant, relays, u \in moved, train[u])
       /\ BehindSticks(plant, relays, train[u])
  BY <1>10, OnTheWay
<1>12. train[t].way = way => InOrderAt(plant, train[t], train[u])
  <2>1. Opposite(way) # way
    BY DEF Opposite, Ways
  <2>2. train[t].way = way => t # u
    BY <1>10, <2>1
  <2> QED
    BY <1>8, <1>10, <2>2 DEF BlockInv, InTrackOrder
<1> DEFINE z == train[t]
           y == train[u]
           on == t \in moved
           too == u \in moved
<1>13. /\ z \in PlacesOf(plant) /\ Sampled(plant, relays, on, z)
       /\ BehindSticks(plant, relays, z)
       /\ y \in PlacesOf(plant) /\ Sampled(plant, relays, too, y)
       /\ BehindSticks(plant, relays, y)
       /\ i \in {z.rear, z.front} /\ y.way = Opposite(way)
       /\ z.way = way => InOrderAt(plant, z, y)
  BY <1>8, <1>9, <1>10, <1>11, <1>12
<1> HIDE DEF z, y, on, too
<1> QED
  BY <1>1, <1>6, <1>13, PassedAlone

\* A scan keeps the invariant.
LEMMA ScanKeeps ==
    ASSUME TypeOK, Chained(plant), BlockInv, Scan
    PROVE  BlockInv'
PROOF
<1> DEFINE clear == plant.circuits \ Shunted
           w == NextRelays
<1>1. PICK b : \E d, e : ScanParts(plant, relays, clear, b, d, e, w)
  BY ScanTo
<1>2. PICK d : \E e : ScanParts(plant, relays, clear, b, d, e, w)
  BY <1>1
<1>3. PICK e : ScanParts(plant, relays, clear, b, d, e, w)
  BY <1>2
<1>4. /\ relays' = w /\ plant' = plant /\ train' = train /\ moved' = {}
  BY DEF Scan
<1>5. w.clear = clear
  BY <1>3, Zenon DEF ScanParts
<1>6. WellFormed(plant) /\ RelaysInOrder(plant, relays) /\ InTrackOrder
  BY Given DEF BlockInv
<1> HIDE DEF w
<1>7. \A way \in Ways : StickUp(plant, way, w.sr) =>
        \A t \in Trains : ~Running(t, Opposite(way))
  BY <1>3, SticksScanned
<1>8. TrainsSampled'
  <2>1. ASSUME NEW t \in Trains, train[t] # None
        PROVE  Sampled(plant, w, FALSE, train[t])
    <3>1. /\ plant.track[train[t].rear] \notin clear
          /\ plant.track[train[t].front] \notin clear
      BY <2>1, Shunts
    <3>2. Sampled(plant, relays, t \in moved, train[t])
      BY <2>1, OnTheWay
    <3> QED
      BY <1>5, <3>1, <3>2 DEF Sampled
  <2>2. \A t : (t \in moved') = FALSE
    BY <1>4
  <2> QED
    BY <1>4, <2>1, <2>2 DEF TrainsSampled
<1>9. InTrackOrder'
  BY <1>4, <1>6 DEF InTrackOrder
<1>10. SticksBehindTrains'
  BY <1>4, <1>7 DEF SticksBehindTrains, Running
<1>11. (\A way \in Ways : StickUp(plant, way, w.sr)) =>
         \A i \in DOMAIN plant.track : plant.track[i] \in clear
  <2>1. ASSUME \A way \in Ways : StickUp(plant, way, w.sr),
               NEW i \in DOMAIN plant.track, plant.track[i] \notin clear
        PROVE  FALSE
    <3>1. PICK t \in Trains : train[t] # None
      BY <2>1, WhoIsThere
    <3>2. train[t].way \in Ways
      BY <3>1, OnTheWay, PlaceType
    <3>3. Opposite(train[t].way) \in Ways /\ Opposite(Opposite(train[t].way)) = train[t].way
      BY <3>2 DEF Opposite, Ways
    <3> QED
      BY <1>7, <2>1, <3>1, <3>3 DEF Running
  <2> QED
    BY <2>1
<1> HIDE DEF clear
<1>12. RelaysInOrder(plant, w)
  BY <1>3, <1>6, <1>11, RelaysScanned
<1> QED
  BY <1>4, <1>8, <1>9, <1>10, <1>12 DEF BlockInv

-----------------------------------------------------------------------------
(* The steps together.                                                     *)

\* A train leaves the block.
LEMMA DepartKeeps ==
    ASSUME TypeOK, Chained(plant), BlockInv, NEW t \in Trains, Depart(t)
    PROVE  BlockInv'
PROOF
<1> DEFINE z == None
<1>1. Moves(t, z)
  BY DEF Depart
<1> QED
  BY <1>1, MoveKeeps

\* Every step keeps the invariant.
LEMMA BlockNext ==
    ASSUME TypeOK, BlockInv, [Next]_vars
    PROVE  BlockInv'
PROOF
<1>1. plant' = plant
  BY DEF Next, vars, Travel, Arrive, Advance, PullClear, Depart, Moves, OutsideChanges,
         SignalDemand, ReleaseTimeRuns, Scan
<1>2. CASE ~Chained(plant)
  BY <1>1, <1>2 DEF BlockInv
<1>3. CASE Chained(plant)
  <2>1. ASSUME NEW t \in Trains, Travel(t)
        PROVE  BlockInv'
    BY <1>3, <2>1, ArriveKeeps, AdvanceKeeps, PullClearKeeps, DepartKeeps DEF Travel
  <2>2. ASSUME UNCHANGED <<plant, relays, train, moved>>
        PROVE  BlockInv'
    BY <1>3, <2>2 DEF BlockInv, TrainsSampled, InTrackOrder, SticksBehindTrains, Running
  <2>3. ASSUME NEW c \in plant.outside, OutsideChanges(c)
        PROVE  BlockInv'
    BY <2>2, <2>3 DEF OutsideChanges
  <2>4. ASSUME NEW x \in plant.demands, SignalDemand(x[1], x[2])
        PROVE  BlockInv'
    <3>1. /\ LockedAtStop(relays) => LockedAtStop(relays')
          /\ relays'.clear = relays.clear /\ relays'.sr = relays.sr
          /\ relays'.hr = relays.hr /\ relays'.cleared = relays.cleared
          /\ relays'.mast = relays.mast
          /\ UNCHANGED <<plant, train, outside, moved>>
      BY <2>4, DemandTo
    <3> QED
      BY <1>3, <3>1, LeversKeep
  <2>5. ASSUME NEW l \in Levers, ReleaseTimeRuns(l)
        PROVE  BlockInv'
    <3>1. /\ LockedAtStop(relays) => LockedAtStop(relays')
          /\ relays'.clear = relays.clear /\ relays'.sr = relays.sr
          /\ relays'.hr = relays.hr /\ relays'.cleared = relays.cleared
          /\ relays'.mast = relays.mast
          /\ UNCHANGED <<plant, train, outside, moved>>
      BY <2>5, ReleaseTo
    <3> QED
      BY <1>3, <3>1, LeversKeep
  <2>6. ASSUME Scan
        PROVE  BlockInv'
    BY <1>3, <2>6, ScanKeeps
  <2>7. ASSUME UNCHANGED vars
        PROVE  BlockInv'
    BY <2>2, <2>7 DEF vars
  <2> QED
    BY <2>1, <2>3, <2>4, <2>5, <2>6, <2>7 DEF Next
<1> QED
  BY <1>2, <1>3

\* In absolute permissive block of any length, with any trains: signals proceed
\* for what is clear or held by a stick, sampled circuits cover the trains, trains
\* keep their order, and a stick that is up has no train against it.
THEOREM BlockInvariant == Spec => []BlockInv
PROOF
<1>1. Init => BlockInv
  <2>1. ASSUME Init, ~Chained(plant) PROVE BlockInv
    BY <2>1 DEF BlockInv
  <2> QED
    BY <2>1, BlockInit
<1>2. TypeOK /\ BlockInv /\ [Next]_vars => BlockInv'
  BY BlockNext
<1> QED
  BY <1>1, <1>2, TypeCorrect, PTL DEF Spec

-----------------------------------------------------------------------------
(* What the invariant says of trains and signals.                          *)

\* Trains in order do not share a place.
LEMMA Apart ==
    ASSUME NEW p, WellFormed(p), Chained(p), NEW x \in PlacesOf(p), NEW y \in PlacesOf(p),
           x.front \in {x.rear, Ahead(x.way, x.rear)},
           y.front \in {y.rear, Ahead(y.way, y.rear)},
           InOrderAt(p, x, y)
    PROVE  {x.rear, x.front} \cap {y.rear, y.front} = {}
PROOF
<1> DEFINE way == x.way
<1>0. Len(p.track) > 3
  BY DEF Chained
<1>1. /\ way \in Ways /\ Opposite(way) \in Ways /\ y.way \in Ways
      /\ x.rear \in DOMAIN p.track /\ x.front \in DOMAIN p.track
      /\ y.rear \in DOMAIN p.track /\ y.front \in DOMAIN p.track
  BY PlaceType
<1>2. CASE y.way = way
  BY <1>2 DEF InOrderAt
<1>3. CASE y.way = Opposite(way)
  <2>1. Follows(way, x.front, y.front)
    BY <1>3 DEF InOrderAt
  <2>2. x.front = x.rear \/ Follows(way, x.rear, x.front)
    BY <1>1 DEF Follows, Ahead, Ways, WellFormed
  <2>3. y.front = y.rear \/ Follows(way, y.front, y.rear)
    BY <1>1, <1>3 DEF Follows, Ahead, Ways, Opposite, WellFormed
  <2> QED
    BY <1>1, <2>1, <2>2, <2>3 DEF Follows, Ways, WellFormed
<1>4. y.way = way \/ y.way = Opposite(way)
  BY <1>1 DEF Opposite, Ways
<1> QED
  BY <1>2, <1>3, <1>4

\* Trains that obey the signals of such a block never stand on one circuit,
\* head-on or following, whatever the two ends demand and however long it is.
THEOREM BlockTrainsApart == Spec => [](Chained(plant) => TrainsApart)
PROOF
<1>1. TypeOK /\ BlockInv => (Chained(plant) => TrainsApart)
  <2> SUFFICES ASSUME TypeOK, BlockInv, Chained(plant), NEW t \in Trains, NEW u \in Trains, t # u
               PROVE  Span(t) \cap Span(u) = {}
    BY DEF TrainsApart
  <2>1. CASE train[t] = None \/ train[u] = None
    BY <2>1 DEF Span
  <2>2. CASE train[t] # None /\ train[u] # None
    <3> DEFINE x == train[t]
               y == train[u]
    <3>1. /\ x \in PlacesOf(plant) /\ y \in PlacesOf(plant)
          /\ x.front \in {x.rear, Ahead(x.way, x.rear)}
          /\ y.front \in {y.rear, Ahead(y.way, y.rear)}
      BY <2>2, OnTheWay DEF Sampled
    <3>2. InOrderAt(plant, x, y)
      BY <2>2 DEF BlockInv, InTrackOrder
    <3>3. Span(t) = {x.rear, x.front} /\ Span(u) = {y.rear, y.front}
      BY <2>2 DEF Span
    <3>4. WellFormed(plant)
      BY Given
    <3> HIDE DEF x, y
    <3> QED
      BY <3>1, <3>2, <3>3, <3>4, Apart
  <2> QED
    BY <2>1, <2>2
<1> QED
  BY <1>1, TypeCorrect, BlockInvariant, PTL

\* The fact that the leaving routes of the far end read is released while a
\* train that was sampled stands inside the block.
LEMMA FarEndReads ==
    ASSUME NEW p, WellFormed(p), Chained(p), NEW v, NEW x \in PlacesOf(p),
           Sampled(p, v, FALSE, x), BehindSticks(p, v, x),
           NEW i \in {x.rear, x.front}, i # First(p, x.way), i # Final(p, x.way),
           NEW opp, opp = Opposite(x.way),
           NEW fact, fact = HAt(p, opp, Ahead(opp, Second(p, opp)))
    PROVE  ~On(p, v, fact)
PROOF
<1> SUFFICES ASSUME On(p, v, fact) PROVE FALSE
  OBVIOUS
<1>0. Len(p.track) > 3
  BY DEF Chained
<1>1. /\ opp \in Ways /\ First(p, opp) = Final(p, x.way) /\ x.way \in Ways
      /\ i \in DOMAIN p.track
  BY <1>0, PlaceType, Endpoints
<1> DEFINE third == Ahead(opp, Second(p, opp))
<1>2. /\ third \in SignalPlaces(p, opp) /\ Ahead(Opposite(opp), third) = Second(p, opp)
  BY <1>0, <1>1, Endpoints
<1>3. AheadUp(p, v, HAt(p, opp, third))
  BY OnNow
<1>4. UpFrom(p, v, opp, third)
  BY <1>1, <1>2, <1>3, AheadSeen
<1>5. p.track[Second(p, opp)] \in v.clear /\ ClearFrom(p, opp, third, v.clear)
  BY <1>2, <1>4 DEF UpFrom, BehindSticks
<1>6. p.track[i] \notin v.clear
  BY DEF Sampled
<1>7. i # Second(p, opp) /\ i \notin Beyond(p, opp, third) /\ i # First(p, opp)
  BY <1>1, <1>5, <1>6 DEF ClearFrom
<1>8. Beyond(p, opp, First(p, opp)) = DOMAIN p.track
  BY <1>0, <1>1, Endpoints
<1>9. /\ First(p, opp) \in DOMAIN p.track /\ First(p, opp) # Final(p, opp)
      /\ Ahead(opp, First(p, opp)) = Second(p, opp)
      /\ Second(p, opp) \in DOMAIN p.track /\ Second(p, opp) # Final(p, opp)
  BY <1>0, <1>1, Endpoints
<1> DEFINE s == Second(p, opp)
           f == First(p, opp)
<1>10. Beyond(p, opp, s) = Beyond(p, opp, third) \cup {s}
  BY <1>0, <1>1, <1>9, NextPlace
<1>11. s = Ahead(opp, f)
  BY <1>9
<1> HIDE DEF s, third
<1>12. Beyond(p, opp, f) = Beyond(p, opp, s) \cup {f}
  BY <1>0, <1>1, <1>9, <1>11, NextPlace
<1> QED
  BY <1>1, <1>7, <1>8, <1>10, <1>12 DEF s

\* Traffic retention (I2): after a scan that finds a train in the block, no leaving
\* route of the end it runs to can be cleared.
THEOREM BlockFarEndLockedOut == Spec => [](Chained(plant) => FarEndLockedOut)
PROOF
<1>1. TypeOK /\ BlockInv => (Chained(plant) => FarEndLockedOut)
  <2> SUFFICES ASSUME TypeOK, BlockInv, Chained(plant), moved = {},
                      NEW t \in Trains, InBlock(t)
               PROVE  LockedOut(train[t].way)
    BY DEF FarEndLockedOut
  <2>1. PICK i \in Span(t) : plant.track[i] \in plant.block
    BY DEF InBlock
  <2> DEFINE x == train[t]
             opp == Opposite(x.way)
             fact == HAt(plant, opp, Ahead(opp, Second(plant, opp)))
  <2>2. x # None /\ i \in {x.rear, x.front}
    BY <2>1 DEF Span
  <2>3. WellFormed(plant) /\ Len(plant.track) > 3
    BY Given DEF Chained
  <2>4. x \in PlacesOf(plant) /\ Sampled(plant, relays, FALSE, x) /\ BehindSticks(plant, relays, x)
    <3>1. (t \in moved) = FALSE
      OBVIOUS
    <3> QED
      BY <2>2, <3>1, OnTheWay
  <2>5. x.way \in Ways /\ opp \in Ways /\ i \in DOMAIN plant.track
    BY <2>2, <2>4, PlaceType
  <2>6. i # 1 /\ i # Len(plant.track)
    <3>1. PICK j \in DOMAIN plant.track \ {1, Len(plant.track)} :
            plant.track[i] = plant.track[j]
      BY <2>1 DEF Chained
    <3>2. i = j
      BY <2>5, <3>1 DEF Chained, IsInjective
    <3> QED
      BY <3>1, <3>2
  <2>7. i # First(plant, x.way) /\ i # Final(plant, x.way)
    BY <2>6 DEF First, Final
  <2>8. opp = Opposite(x.way) /\ fact = HAt(plant, opp, Ahead(opp, Second(plant, opp)))
    OBVIOUS
  <2>9. LeavingRoutes(plant, plant.far[x.way]) = EntryRoutes(plant, opp)
    <3>1. plant.lines[plant.far[x.way]].leaving = {EntryMast(plant, opp)}
      BY <2>5 DEF Chained, FarLine
    <3> QED
      BY <3>1 DEF LeavingRoutes, EntryRoutes
  <2>10. \A r \in EntryRoutes(plant, opp) : plant.routes[r].home = {fact}
    BY <2>5 DEF Chained, ControlPoint
  <2> HIDE DEF x, opp, fact
  <2>11. ~On(plant, relays, fact)
    BY <2>2, <2>3, <2>4, <2>7, <2>8, FarEndReads
  <2>12. LockedOut(x.way)
    BY <2>9, <2>10, <2>11 DEF LockedOut
  <2> QED
    BY <2>12 DEF x
<1> QED
  BY <1>1, TypeCorrect, BlockInvariant, PTL

\* What a line's leaving signal shows.
LEMMA EndShows ==
    ASSUME TypeOK, Chained(plant), NEW way \in Ways, NEW v
    PROVE  /\ plant.far[Opposite(way)] \in DOMAIN plant.lines
           /\ ShowsProceed(v, plant.far[Opposite(way)]) <=> Proceeds(v, EntryMast(plant, way))
PROOF
<1> DEFINE l == plant.far[Opposite(way)]
           m == EntryMast(plant, way)
<1>1. Opposite(way) \in Ways /\ Opposite(Opposite(way)) = way
  BY DEF Opposite, Ways
<1>2. l \in DOMAIN plant.lines /\ plant.lines[l].leaving = {m}
  BY <1>1 DEF Chained, FarLine
<1>3. m # None
  BY DEF Chained, ControlPoint
<1> HIDE DEF l, m
<1>4. (CHOOSE x \in {m} : TRUE) = m
  OBVIOUS
<1>5. ShowsProceed(v, l) <=> v.mast[m] # "STOP"
  BY <1>2, <1>4 DEF ShowsProceed
<1> QED
  BY <1>2, <1>3, <1>5 DEF Proceeds, l, m

\* With every circuit clear at the last scan, a train can only have come to
\* where it enters, and no train stands where an automatic signal guards.
LEMMA InsideClear ==
    ASSUME TypeOK, Chained(plant), BlockInv,
           \A i \in DOMAIN plant.track : plant.track[i] \in relays.clear,
           NEW way \in Ways, NEW i \in SignalPlaces(plant, way)
    PROVE  plant.track[i] \in plant.circuits \ Shunted
PROOF
<1> SUFFICES ASSUME plant.track[i] \notin plant.circuits \ Shunted
             PROVE  FALSE
  OBVIOUS
<1>1. WellFormed(plant) /\ Len(plant.track) > 3
  BY Given DEF Chained
<1>2. i \in DOMAIN plant.track /\ i # First(plant, way) /\ i # Final(plant, way)
  BY DEF SignalPlaces
<1>3. PICK t \in Trains : train[t] # None /\ i \in {train[t].rear, train[t].front}
  BY <1>2, WhoIsThere
<1>4. train[t] \in PlacesOf(plant) /\ Sampled(plant, relays, t \in moved, train[t])
  BY <1>3, OnTheWay
<1>5. /\ train[t].way \in Ways /\ train[t].rear \in DOMAIN plant.track
  BY <1>4, PlaceType
<1>6. i = First(plant, train[t].way)
  BY <1>3, <1>4, <1>5 DEF Sampled
<1>7. First(plant, Opposite(way)) = Final(plant, way)
  BY <1>1, Endpoints
<1>8. train[t].way = way \/ train[t].way = Opposite(way)
  BY <1>5 DEF Opposite, Ways
<1> QED
  BY <1>2, <1>6, <1>7, <1>8

\* Of two leaving signals that proceed one is taken away by the next scan: the line
\* that was latched first cuts the other's home fact.
LEMMA OneTaken ==
    ASSUME TypeOK, Chained(plant), BlockInv,
           \A way \in Ways : Proceeds(relays, EntryMast(plant, way))
    PROVE  \E way \in Ways : ~Proceeds(NextRelays, EntryMast(plant, way))
PROOF
<1> DEFINE clear == plant.circuits \ Shunted
           w == NextRelays
<1>1. PICK b : \E d, e : ScanParts(plant, relays, clear, b, d, e, w)
  BY ScanTo
<1>2. PICK d : \E e : ScanParts(plant, relays, clear, b, d, e, w)
  BY <1>1
<1>3. PICK e : ScanParts(plant, relays, clear, b, d, e, w)
  BY <1>2
<1>4. /\ \A a \in w.sr : a \in relays.sr \/ Passed(plant, b, a)
      /\ b.clear = clear /\ d.sr = w.sr /\ d.cleared = relays.cleared
  BY <1>3, Zenon DEF ScanParts
<1>5. WellFormed(plant) /\ RelaysInOrder(plant, relays) /\ Len(plant.track) > 3
  BY Given DEF BlockInv, Chained
<1>6. PICK way \in Ways : plant.far[way] \in relays.cleared
  BY <1>5 DEF RelaysInOrder
<1>7. \A x \in Ways : ~StickUp(plant, x, relays.sr)
  <2>1. \A x \in Ways : Opposite(x) \in Ways
    BY DEF Opposite, Ways
  <2> QED
    BY <1>5, <2>1 DEF RelaysInOrder
<1>8. \A i \in DOMAIN plant.track : plant.track[i] \in relays.clear
  <2>1. AheadClear(plant, relays, way, First(plant, way))
    BY <1>5 DEF RelaysInOrder
  <2>2. Beyond(plant, way, First(plant, way)) = DOMAIN plant.track
    BY <1>5, Endpoints
  <2> QED
    BY <1>7, <2>1, <2>2 DEF AheadClear, ClearFrom
<1>9. ~StickUp(plant, way, w.sr)
  <2>1. ASSUME NEW i \in SignalPlaces(plant, way), plant.guard[way][i] \in w.sr
        PROVE  FALSE
    <3>1. plant.guard[way][i] \notin relays.sr
      BY <1>7, <2>1 DEF StickUp
    <3>2. plant.track[i] \in clear
      BY <1>8, InsideClear
    <3>3. plant.signals[plant.guard[way][i]].governs = {plant.track[i]}
      BY DEF Chained, ChainOfSignals
    <3> QED
      BY <1>4, <2>1, <3>1, <3>2, <3>3 DEF Passed
  <2> QED
    BY <2>1 DEF StickUp
<1> HIDE DEF w, clear
<1>10. ASSUME Proceeds(w, EntryMast(plant, way))
       PROVE  FALSE
  <2>1. PICK r \in EntryRoutes(plant, way) : ShownFor(plant, d, r)
    BY <1>3, <1>5, <1>10, EntryProceeds
  <2>2. StickUp(plant, way, d.sr) \/ plant.far[way] \notin d.cleared
    BY <1>5, <2>1, EntryShown
  <2> QED
    BY <1>4, <1>6, <1>9, <2>2
<1> QED
  BY <1>10 DEF w

\* Opposing exclusion (I1): both ends never stay cleared for longer than a scan.
THEOREM BlockOneEndCleared == Spec => [](Chained(plant) => OneEndCleared)
PROOF
<1>1. TypeOK /\ BlockInv => (Chained(plant) => OneEndCleared)
  <2> SUFFICES ASSUME TypeOK, BlockInv, Chained(plant),
                      \A l \in DOMAIN plant.lines : ShowsProceed(relays, l)
               PROVE  \E l \in DOMAIN plant.lines : ~ShowsProceed(NextRelays, l)
    BY DEF OneEndCleared
  <2>1. \A way \in Ways : Proceeds(relays, EntryMast(plant, way))
    BY EndShows
  <2>2. PICK way \in Ways : ~Proceeds(NextRelays, EntryMast(plant, way))
    BY <2>1, OneTaken
  <2> QED
    BY <2>2, EndShows
<1> QED
  BY <1>1, TypeCorrect, BlockInvariant, PTL
=============================================================================
