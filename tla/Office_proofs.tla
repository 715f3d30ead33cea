---------------------------- MODULE Office_proofs ----------------------------
(***************************************************************************)
(* The dispatcher's side, for any panel, any stations and any capacities:  *)
(* the queues stay within them, no control is sent that was not coded, and *)
(* a field unit obeys whole controls only.                                 *)
(*                                                                         *)
(* A pass of the desk's loop is a chain of stages, each a function of the  *)
(* desk as it finds it; there is a lemma for each stage, and the desk is   *)
(* one record throughout.                                                  *)
(***************************************************************************)
EXTENDS Office, WireCodec_proofs

-----------------------------------------------------------------------------
(* Numbers and queues.                                                     *)

\* A set of numbers that is not empty has a least one, which is its Min.
LEMMA MinInSet ==
    ASSUME NEW T, T \subseteq Nat, T # {}
    PROVE  Min(T) \in T
  BY LeastNumber DEF Min

\* The places in a queue q at which an element of S stands, and their number.
PlacesOf(q, S) == {i \in DOMAIN q : q[i] \in S}
Count(q, S) == Cardinality(PlacesOf(q, S))

\* Such places are finitely many.
LEMMA CountType ==
    ASSUME NEW M, NEW q \in Seq(M), NEW S
    PROVE  IsFiniteSet(PlacesOf(q, S)) /\ Count(q, S) \in Nat
PROOF
<1>1. IsFiniteSet(1 .. Len(q)) /\ PlacesOf(q, S) \in SUBSET (1 .. Len(q))
  BY FS_Interval DEF PlacesOf
<1> QED
  BY <1>1, FS_Subset, FS_CardinalityType DEF Count

\* An empty queue has none.
LEMMA CountEmpty == \A S : Count(<<>>, S) = 0
PROOF
<1>1. \A S : PlacesOf(<<>>, S) = {}
  BY DEF PlacesOf
<1> QED
  BY <1>1, FS_EmptySet DEF Count

\* What is put at the end of a queue is counted once.
LEMMA CountAppend ==
    ASSUME NEW M, NEW q \in Seq(M), NEW x \in M, NEW S
    PROVE  Count(Append(q, x), S) = Count(q, S) + (IF x \in S THEN 1 ELSE 0)
PROOF
<1> DEFINE r == Append(q, x)
<1>1. /\ Len(q) \in Nat /\ DOMAIN q = 1 .. Len(q) /\ DOMAIN r = 1 .. Len(q) + 1
      /\ \A i \in 1 .. Len(q) : r[i] = q[i]
      /\ r[Len(q) + 1] = x
  BY AppendProperties
<1>2. IsFiniteSet(PlacesOf(q, S)) /\ Count(q, S) \in Nat
  BY CountType
<1>3. Len(q) + 1 \notin PlacesOf(q, S)
  BY <1>1 DEF PlacesOf
<1>4. CASE x \in S
  <2>1. PlacesOf(r, S) = PlacesOf(q, S) \cup {Len(q) + 1}
    BY <1>1, <1>4 DEF PlacesOf
  <2> QED
    BY <1>2, <1>3, <1>4, <2>1, FS_AddElement DEF Count
<1>5. CASE x \notin S
  <2>1. PlacesOf(r, S) = PlacesOf(q, S)
    BY <1>1, <1>5 DEF PlacesOf
  <2> QED
    BY <1>2, <1>5, <2>1 DEF Count
<1> QED
  BY <1>4, <1>5

\* What leaves a queue at its head is no longer counted.
LEMMA CountTail ==
    ASSUME NEW M, NEW q \in Seq(M), q # <<>>, NEW S
    PROVE  Count(q, S) = Count(Tail(q), S) + (IF Head(q) \in S THEN 1 ELSE 0)
PROOF
<1> DEFINE r == Tail(q)
           Later == PlacesOf(q, S) \ {1}
           shift == [i \in PlacesOf(r, S) |-> i + 1]
<1>1. /\ Len(q) \in Nat \ {0} /\ DOMAIN q = 1 .. Len(q) /\ DOMAIN r = 1 .. Len(q) - 1
      /\ \A i \in 1 .. Len(q) - 1 : r[i] = q[i + 1]
      /\ Head(q) = q[1] /\ r \in Seq(M)
  BY HeadTailProperties, EmptySeq
<1>2. IsFiniteSet(PlacesOf(q, S)) /\ IsFiniteSet(PlacesOf(r, S))
  BY <1>1, CountType
<1>3. PlacesOf(r, S) \subseteq Nat
  BY <1>1 DEF PlacesOf
<1>4. shift \in [PlacesOf(r, S) -> Later]
  BY <1>1 DEF PlacesOf
<1>5. \A i, j \in PlacesOf(r, S) : shift[i] = shift[j] => i = j
  BY <1>3
<1>6. \A j \in Later : j - 1 \in PlacesOf(r, S) /\ shift[j - 1] = j
  BY <1>1 DEF PlacesOf
<1>7. shift \in Bijection(PlacesOf(r, S), Later)
  <2> HIDE DEF shift
  <2> QED
    BY <1>4, <1>5, <1>6 DEF Bijection, Injection, Surjection, IsInjective
<1>8. Cardinality(Later) = Count(r, S)
  BY <1>2, <1>7, FS_Bijection DEF ExistsBijection, Count
<1>9. /\ Cardinality(Later) = IF 1 \in PlacesOf(q, S) THEN Count(q, S) - 1 ELSE Count(q, S)
      /\ Count(q, S) \in Nat
  BY <1>2, FS_RemoveElement, FS_CardinalityType DEF Count
<1>10. 1 \in PlacesOf(q, S) <=> Head(q) \in S
  BY <1>1 DEF PlacesOf
<1>11. Count(r, S) \in Nat
  BY <1>1, CountType
<1> QED
  BY <1>8, <1>9, <1>10, <1>11

-----------------------------------------------------------------------------
(* What is on its way, and the desk as a record.                           *)

FunctionSets == {k.functions : k \in Codings}
Texts == {k.message : k \in Codings}
ControlsSent == {[to |-> k.station, text |-> k.message] : k \in Codings}
IndicationsSent ==
    UNION {{[from |-> s, at |-> v] : v \in DOMAIN IndicationAt[s]} : s \in Places}

To(s) == {m \in ControlsSent : m.to = s}
From(s) == {m \in IndicationsSent : m.from = s}

IsDesk(d) ==
    /\ DOMAIN d = {"shot", "lamps", "tx", "rx", "active", "link", "air", "back", "coded", "sent"}
    /\ d = [f \in DOMAIN d |-> d[f]]

DeskTypes(d) ==
    /\ IsDesk(d)
    /\ d.shot \in [DOMAIN Columns -> {"WAITING", "ARMED", "TRIGGERED"}]
    /\ d.tx \in Seq(ControlsSent) /\ Len(d.tx) <= TxCapacity
    /\ d.rx \in Seq(IndicationsSent) /\ Len(d.rx) <= RxCapacity
    /\ d.active \in ControlsSent \cup IndicationsSent \cup {None}
    /\ d.link \in {"up", "aligning", "down"}
    /\ d.air \in [Places -> Seq(Texts)]
    /\ \A s \in Places : Len(d.air[s]) <= MaxInFlight
    /\ d.back \in Seq(IndicationsSent)
    /\ \A s \in Places : Count(d.back, From(s)) <= MaxInFlight
    /\ d.coded \in [Places -> SUBSET FunctionSets]
    /\ d.sent \in [Places -> Nat]

\* The text is a control that was coded at station s, where cod is the history.
IsCoded(cod, s, text) ==
    \E k \in Codings : /\ k.station = s /\ k.wire = setup.wire /\ k.message = text
                       /\ k.functions \in cod[s]

DeskCoded(d) ==
    /\ \A i \in DOMAIN d.tx : IsCoded(d.coded, d.tx[i].to, d.tx[i].text)
    /\ d.active # None /\ d.active \in ControlsSent
           => IsCoded(d.coded, d.active.to, d.active.text)
    /\ \A s \in Places : \A i \in DOMAIN d.air[s] : IsCoded(d.coded, s, d.air[s][i])

DeskOK(d) == DeskTypes(d) /\ DeskCoded(d)

\* The columns of a station that have triggered or are about to.
ToTrigger(d, s) ==
    {c \in DOMAIN Columns : /\ Columns[c].station = s
                            /\ \/ d.shot[c] = "TRIGGERED"
                               \/ d.shot[c] = "ARMED" /\ ~button[c]}

\* The controls that the desk has published for a station and those to come.
Due(d, s) ==
    d.sent[s] + Cardinality(ToTrigger(d, s)) + Count(d.tx, To(s))
    + (IF d.active # None /\ d.active \in To(s) THEN 1 ELSE 0)

\* What the rest of the system gives the desk.
Surroundings ==
    /\ setup \in Setups
    /\ levers \in Contacts
    /\ button \in [DOMAIN Columns -> BOOLEAN]
    /\ \A s \in Places : told[s] \in DOMAIN IndicationAt[s]

\* The capacities are numbers.
LEMMA Bounds == TxCapacity \in Nat /\ RxCapacity \in Nat /\ MaxInFlight \in Nat \ {0}
  BY OfficeAssumption

\* A control has a station and a text, an indication a station and a move of its
\* plant, and the one is never taken for the other.
LEMMA MessageFacts ==
    /\ \A m \in ControlsSent : m.to \in Places /\ m.text \in Texts /\ ~Inbound(m)
    /\ \A m \in IndicationsSent :
          m.from \in Places /\ m.at \in DOMAIN IndicationAt[m.from] /\ Inbound(m)
    /\ \A s \in Places : \A m \in IndicationsSent : m \notin To(s)
PROOF
<1>1. ASSUME NEW k \in Codings
      PROVE  k.station \in Places
  <2>1. PICK x \in Places \X Wires \X Contacts : k = CodingOf(x[1], x[2], x[3])
    BY DEF Codings
  <2>2. k.station = x[1]
    BY <2>1 DEF CodingOf
  <2> QED
    BY <2>2
<1>2. ASSUME NEW m \in ControlsSent
      PROVE  m.to \in Places /\ m.text \in Texts /\ ~Inbound(m)
  <2>1. PICK k \in Codings : m = [to |-> k.station, text |-> k.message]
    BY DEF ControlsSent
  <2> QED
    BY <1>1, <2>1 DEF Texts, Inbound
<1>3. ASSUME NEW m \in IndicationsSent
      PROVE  m.from \in Places /\ m.at \in DOMAIN IndicationAt[m.from] /\ Inbound(m)
  <2>1. PICK s \in Places : \E v \in DOMAIN IndicationAt[s] : m = [from |-> s, at |-> v]
    BY DEF IndicationsSent
  <2> QED
    BY <2>1 DEF Inbound
<1> QED
  BY <1>2, <1>3 DEF To


\* The levers of a station are coded as they stand.
LEMMA CodingFacts ==
    ASSUME setup \in Setups, levers \in Contacts, NEW s \in Places
    PROVE  LET k == Coding(setup.wire, s, levers)
           IN /\ k \in Codings
              /\ k.station = s /\ k.wire = setup.wire
PROOF
<1>1. setup.wire \in Wires
  BY OfficeAssumption DEF Wires
<1>2. CodingOf(s, setup.wire, levers) \in Codings
  <2>1. PICK x : x = <<s, setup.wire, levers>>
    OBVIOUS
  <2>2. x \in Places \X Wires \X Contacts /\ x[1] = s /\ x[2] = setup.wire /\ x[3] = levers
    BY <1>1, <2>1
  <2>3. CodingOf(x[1], x[2], x[3]) \in Codings
    BY <2>2 DEF Codings
  <2> QED
    BY <2>2, <2>3
<1> DEFINE k0 == CodingOf(s, setup.wire, levers)
<1>3. k0.station = s /\ k0.wire = setup.wire /\ k0.levers = levers
  BY DEF CodingOf
<1>4. \E k \in Codings : k.station = s /\ k.wire = setup.wire /\ k.levers = levers
  BY <1>2, <1>3
<1> QED
  BY <1>4 DEF Coding

\* The columns of a desk are finitely many.
LEMMA ToTriggerFinite ==
    ASSUME NEW d, NEW s
    PROVE  IsFiniteSet(ToTrigger(d, s)) /\ Cardinality(ToTrigger(d, s)) \in Nat
PROOF
<1>1. IsFiniteSet(DOMAIN Columns) /\ ToTrigger(d, s) \in SUBSET DOMAIN Columns
  BY OfficeAssumption, FS_Interval DEF ToTrigger
<1> QED
  BY <1>1, FS_Subset, FS_CardinalityType

\* What the controls of a station are counted by are numbers.
LEMMA DueType ==
    ASSUME NEW d, DeskTypes(d), NEW s \in Places
    PROVE  /\ Due(d, s) \in Nat /\ d.sent[s] \in Nat
           /\ Cardinality(ToTrigger(d, s)) \in Nat /\ Count(d.tx, To(s)) \in Nat
PROOF
<1>1. Count(d.tx, To(s)) \in Nat /\ d.sent[s] \in Nat
  BY CountType DEF DeskTypes
<1> QED
  BY <1>1, ToTriggerFinite DEF Due

-----------------------------------------------------------------------------
(* The stages of the desk's loop.                                          *)

\* What the broker has retained is one indication of each station.
LEMMA RetainedFacts ==
    ASSUME Surroundings
    PROVE  /\ Retained \in Seq(IndicationsSent)
           /\ \A s \in Places : Count(Retained, From(s)) <= MaxInFlight
PROOF
<1>1. Len(Stations) \in Nat /\ DOMAIN Stations = 1 .. Len(Stations)
  BY OfficeAssumption
<1>2. \A i \in DOMAIN Stations : Stations[i] \in Places
  BY DEF Places
<1>3. \A i \in DOMAIN Stations : Retained[i] \in IndicationsSent /\ Retained[i].from = Stations[i]
  BY <1>2 DEF Retained, IndicationsSent, Surroundings
<1>4. Retained \in Seq(IndicationsSent)
  <2>1. Retained = [i \in 1 .. Len(Stations) |-> Retained[i]]
    BY <1>1 DEF Retained
  <2> QED
    BY <1>1, <1>3, <2>1, IsASeq
<1>5. ASSUME NEW s \in Places
      PROVE  Count(Retained, From(s)) <= MaxInFlight
  <2>1. PICK i \in DOMAIN Stations : Stations[i] = s
    BY DEF Places
  <2>2. \A j \in DOMAIN Retained : Retained[j] \in From(s) => j = i
    BY <1>3, <2>1, OfficeAssumption DEF From, Retained
  <2>3. PlacesOf(Retained, From(s)) \subseteq {i}
    BY <2>2 DEF PlacesOf
  <2>4. IsFiniteSet({i}) /\ Cardinality({i}) = 1
    BY FS_Singleton
  <2>5. Count(Retained, From(s)) \in Nat /\ Count(Retained, From(s)) <= 1
    BY <1>4, <2>3, <2>4, FS_Subset, CountType DEF Count
  <2> QED
    BY <2>5, Bounds
<1> QED
  BY <1>4, <1>5

\* onMqttMessage(): an indication that is taken changes lamps or the receive
\* queue, which stays within its capacity.
LEMMA TakeStage ==
    ASSUME NEW d, DeskOK(d), NEW m \in IndicationsSent,
           NEW e, e = Take(d, m)
    PROVE  /\ DeskOK(e)
           /\ e.shot = d.shot /\ e.tx = d.tx /\ e.active = d.active
           /\ e.air = d.air /\ e.coded = d.coded /\ e.sent = d.sent
PROOF
<1>1. /\ IsDesk(e) /\ e.link = d.link /\ e.back = d.back
      /\ e.shot = d.shot /\ e.tx = d.tx /\ e.active = d.active
      /\ e.air = d.air /\ e.coded = d.coded /\ e.sent = d.sent
  BY DEF Take, DeskOK, DeskTypes, IsDesk
<1>2. e.rx \in Seq(IndicationsSent) /\ Len(e.rx) <= RxCapacity
  <2>1. \/ e.rx = d.rx
        \/ Len(d.rx) < RxCapacity /\ e.rx = Append(d.rx, m)
    BY DEF Take, DeskOK, DeskTypes, IsDesk
  <2>2. d.rx \in Seq(IndicationsSent) /\ Len(d.rx) <= RxCapacity /\ RxCapacity \in Nat
    BY Bounds DEF DeskOK, DeskTypes
  <2>3. /\ Len(d.rx) \in Nat
        /\ Append(d.rx, m) \in Seq(IndicationsSent)
        /\ Len(Append(d.rx, m)) = Len(d.rx) + 1
    BY <2>2, AppendProperties, LenProperties
  <2>4. CASE e.rx = d.rx
    BY <2>2, <2>4
  <2>5. CASE Len(d.rx) < RxCapacity /\ e.rx = Append(d.rx, m)
    <3>1. Len(e.rx) = Len(d.rx) + 1 /\ e.rx \in Seq(IndicationsSent)
      BY <2>3, <2>5
    <3>2. Len(d.rx) + 1 <= RxCapacity
      BY <2>2, <2>3, <2>5
    <3> QED
      BY <3>1, <3>2
  <2> QED
    BY <2>1, <2>4, <2>5
<1>3. DeskTypes(e)
  BY <1>1, <1>2 DEF DeskOK, DeskTypes
<1>4. DeskCoded(e)
  BY <1>1 DEF DeskOK, DeskCoded
<1> QED
  BY <1>1, <1>3, <1>4 DEF DeskOK

\* What the broker sends changes nothing the controls are counted by, and after a
\* reconnection one message of each station is on its way.
LEMMA ReceiveStage ==
    ASSUME Surroundings, NEW d, DeskOK(d), NEW answered \in BOOLEAN
    PROVE  LET e == Receive(d, answered)
           IN /\ DeskOK(e)
              /\ e.shot = d.shot /\ e.tx = d.tx /\ e.active = d.active
              /\ e.air = d.air /\ e.coded = d.coded /\ e.sent = d.sent
PROOF
<1> DEFINE Same(e) == /\ e.shot = d.shot /\ e.tx = d.tx /\ e.active = d.active
                      /\ e.air = d.air /\ e.coded = d.coded /\ e.sent = d.sent
<1>1. CASE d.link = "down" /\ answered
  <2> DEFINE e == [d EXCEPT !.link = "aligning", !.back = Retained]
  <2>1. /\ IsDesk(e) /\ e.link = "aligning" /\ e.back = Retained
        /\ e.rx = d.rx /\ Same(e)
    BY DEF DeskOK, DeskTypes, IsDesk
  <2>2. Receive(d, answered) = e
    BY <1>1 DEF Receive
  <2> HIDE DEF e
  <2> QED
    BY <2>1, <2>2, RetainedFacts DEF DeskOK, DeskTypes, DeskCoded
<1>2. CASE d.link # "down" /\ d.back # <<>>
  <2> DEFINE e == [d EXCEPT !.back = Tail(@)]
  <2>1. /\ IsDesk(e) /\ e.link = d.link /\ e.back = Tail(d.back)
        /\ e.rx = d.rx /\ Same(e)
    BY DEF DeskOK, DeskTypes, IsDesk
  <2>2. Head(d.back) \in IndicationsSent /\ Tail(d.back) \in Seq(IndicationsSent)
    BY <1>2, HeadTailProperties DEF DeskOK, DeskTypes
  <2>3. ASSUME NEW s \in Places
        PROVE  Count(Tail(d.back), From(s)) <= MaxInFlight
    <3>1. d.back \in Seq(IndicationsSent) /\ Count(d.back, From(s)) <= MaxInFlight
      BY DEF DeskOK, DeskTypes
    <3>2. Count(d.back, From(s)) \in Nat /\ Count(Tail(d.back), From(s)) \in Nat
      BY <2>2, <3>1, CountType
    <3>3. Count(Tail(d.back), From(s)) <= Count(d.back, From(s))
      BY <1>2, <3>1, <3>2, CountTail
    <3> QED
      BY <3>1, <3>2, <3>3, Bounds
  <2>4. Receive(d, answered) = Take(e, Head(d.back))
    BY <1>2 DEF Receive
  <2> HIDE DEF e
  <2>5. DeskOK(e)
    BY <2>1, <2>2, <2>3 DEF DeskOK, DeskTypes, DeskCoded
  <2> QED
    BY <2>1, <2>2, <2>4, <2>5, TakeStage
<1>3. CASE (d.link = "down" /\ ~answered) \/ (d.link # "down" /\ d.back = <<>>)
  BY <1>3 DEF Receive
<1> QED
  BY <1>1, <1>2, <1>3

\* The OneShots: a column that is about to trigger triggers now, no other does.
LEMMA SyncStage ==
    ASSUME Surroundings, NEW d, DeskOK(d), NEW e, e = SyncInputs(d)
    PROVE  DeskOK(e) /\ e.coded = d.coded /\ \A s \in Places : Due(e, s) = Due(d, s)
PROOF
<1>1. /\ IsDesk(e) /\ e.link = d.link /\ e.back = d.back /\ e.rx = d.rx
      /\ e.tx = d.tx /\ e.active = d.active
      /\ e.air = d.air /\ e.coded = d.coded /\ e.sent = d.sent
      /\ e.shot = [c \in DOMAIN Columns |-> Updated(d.shot[c], button[c])]
  BY DEF SyncInputs, DeskOK, DeskTypes, IsDesk
<1>2. ASSUME NEW c \in DOMAIN Columns
      PROVE  /\ e.shot[c] \in {"WAITING", "ARMED", "TRIGGERED"}
             /\ (e.shot[c] = "TRIGGERED" \/ (e.shot[c] = "ARMED" /\ ~button[c]))
                <=> (d.shot[c] = "TRIGGERED" \/ (d.shot[c] = "ARMED" /\ ~button[c]))
  <2>1. d.shot[c] \in {"WAITING", "ARMED", "TRIGGERED"} /\ button[c] \in BOOLEAN
    BY DEF DeskOK, DeskTypes, Surroundings
  <2> QED
    BY <1>1, <2>1 DEF Updated
<1>3. e.shot \in [DOMAIN Columns -> {"WAITING", "ARMED", "TRIGGERED"}]
  BY <1>1, <1>2
<1>4. \A s \in Places : ToTrigger(e, s) = ToTrigger(d, s)
  BY <1>2 DEF ToTrigger
<1>5. DeskOK(e)
  BY <1>1, <1>3 DEF DeskOK, DeskTypes, DeskCoded
<1> QED
  BY <1>1, <1>4, <1>5 DEF Due

\* At most once: what is published counts once for its station, or is lost.
LEMMA PublishStage ==
    ASSUME NEW d, DeskOK(d), NEW m \in ControlsSent, IsCoded(d.coded, m.to, m.text),
           NEW e, e = Publish(d, m)
    PROVE  /\ DeskOK(e)
           /\ e.shot = d.shot /\ e.tx = d.tx /\ e.rx = d.rx /\ e.active = d.active
           /\ e.coded = d.coded
           /\ \A s \in Places : e.sent[s] <= d.sent[s] + (IF m \in To(s) THEN 1 ELSE 0)
PROOF
<1>1. m.to \in Places /\ m.text \in Texts
  BY MessageFacts
<1>2. CASE d.link = "down"
  <2>1. e = d
    BY <1>2 DEF Publish
  <2>2. \A s \in Places : d.sent[s] \in Nat
    BY DEF DeskOK, DeskTypes
  <2> QED
    BY <2>1, <2>2
<1>3. CASE d.link # "down"
  <2> DEFINE queue == d.air[m.to]
             longer == IF Len(queue) < MaxInFlight THEN Append(queue, m.text) ELSE queue
  <2>1. /\ IsDesk(e) /\ e.link = d.link /\ e.back = d.back /\ e.rx = d.rx
        /\ e.shot = d.shot /\ e.tx = d.tx /\ e.active = d.active /\ e.coded = d.coded
        /\ e.sent = [d.sent EXCEPT ![m.to] = @ + 1]
        /\ e.air = [d.air EXCEPT ![m.to] = longer]
    BY <1>3 DEF Publish, DeskOK, DeskTypes, IsDesk
  <2>2. queue \in Seq(Texts) /\ Len(queue) <= MaxInFlight /\ d.sent \in [Places -> Nat]
        /\ d.air \in [Places -> Seq(Texts)]
    BY <1>1 DEF DeskOK, DeskTypes
  <2>3. /\ longer \in Seq(Texts) /\ Len(longer) <= MaxInFlight
        /\ \A i \in DOMAIN longer : longer[i] = m.text \/ (i \in DOMAIN queue /\ longer[i] = queue[i])
    <3>1. /\ Append(queue, m.text) \in Seq(Texts)
          /\ Len(Append(queue, m.text)) = Len(queue) + 1
          /\ Len(queue) \in Nat /\ DOMAIN queue = 1 .. Len(queue)
          /\ DOMAIN Append(queue, m.text) = 1 .. Len(queue) + 1
          /\ \A i \in 1 .. Len(queue) : Append(queue, m.text)[i] = queue[i]
          /\ Append(queue, m.text)[Len(queue) + 1] = m.text
      BY <1>1, <2>2, AppendProperties, LenProperties
    <3>2. CASE Len(queue) < MaxInFlight
      BY <3>1, <3>2, Bounds
    <3>3. CASE ~(Len(queue) < MaxInFlight)
      BY <2>2, <3>3
    <3> QED
      BY <3>2, <3>3
  <2> HIDE DEF longer, queue
  <2>4. \A s \in Places : e.air[s] = IF s = m.to THEN longer ELSE d.air[s]
    BY <2>1, <2>2
  <2>5. \A s \in Places : e.sent[s] = IF s = m.to THEN d.sent[s] + 1 ELSE d.sent[s]
    BY <2>1, <2>2
  <2>6. e.air \in [Places -> Seq(Texts)] /\ e.sent \in [Places -> Nat]
    BY <1>1, <2>1, <2>2, <2>3
  <2>7. ASSUME NEW s \in Places
        PROVE  Len(e.air[s]) <= MaxInFlight
    <3>1. Len(d.air[s]) <= MaxInFlight
      BY DEF DeskOK, DeskTypes
    <3> QED
      BY <2>3, <2>4, <3>1
  <2>8. ASSUME NEW s \in Places, NEW i \in DOMAIN e.air[s]
        PROVE  IsCoded(d.coded, s, e.air[s][i])
    <3>1. \A j \in DOMAIN d.air[s] : IsCoded(d.coded, s, d.air[s][j])
      BY DEF DeskOK, DeskCoded
    <3> QED
      BY <2>3, <2>4, <3>1 DEF queue
  <2>9. DeskOK(e)
    BY <2>1, <2>6, <2>7, <2>8 DEF DeskOK, DeskTypes, DeskCoded
  <2>10. \A s \in Places : e.sent[s] <= d.sent[s] + (IF m \in To(s) THEN 1 ELSE 0)
    BY <2>2, <2>5 DEF To
  <2> QED
    BY <2>1, <2>9, <2>10
<1> QED
  BY <1>2, <1>3

\* enqueueControl(): what is coded is due once, whether published, queued or lost.
LEMMA EnqueueStage ==
    ASSUME NEW d, DeskOK(d), NEW m \in ControlsSent, IsCoded(d.coded, m.to, m.text),
           NEW e, e = Enqueue(d, m)
    PROVE  /\ DeskOK(e) /\ e.coded = d.coded
           /\ \A s \in Places : Due(e, s) <= Due(d, s) + (IF m \in To(s) THEN 1 ELSE 0)
PROOF
<1>1. CASE e = Publish(d, m)
  <2>1. ASSUME NEW s \in Places
        PROVE  Due(e, s) <= Due(d, s) + (IF m \in To(s) THEN 1 ELSE 0)
    <3>1. ToTrigger(e, s) = ToTrigger(d, s) /\ e.tx = d.tx /\ e.active = d.active
      BY <1>1, PublishStage DEF ToTrigger
    <3>2. e.sent[s] <= d.sent[s] + (IF m \in To(s) THEN 1 ELSE 0) /\ DeskTypes(e) /\ DeskTypes(d)
      BY <1>1, PublishStage DEF DeskOK
    <3>3. /\ d.sent[s] \in Nat /\ e.sent[s] \in Nat
          /\ Cardinality(ToTrigger(d, s)) \in Nat /\ Count(d.tx, To(s)) \in Nat
      BY <3>2, DueType
    <3>4. PICK playing \in {0, 1} :
              playing = IF d.active # None /\ d.active \in To(s) THEN 1 ELSE 0
      OBVIOUS
    <3>5. /\ Due(d, s) = d.sent[s] + Cardinality(ToTrigger(d, s)) + Count(d.tx, To(s)) + playing
          /\ Due(e, s) = e.sent[s] + Cardinality(ToTrigger(d, s)) + Count(d.tx, To(s)) + playing
      BY <3>1, <3>4 DEF Due
    <3> QED
      BY <3>2, <3>3, <3>5
  <2> QED
    BY <1>1, <2>1, PublishStage
<1>2. CASE e = [d EXCEPT !.tx = Append(@, m)] /\ Len(d.tx) < TxCapacity
  <2>1. /\ IsDesk(e) /\ e.link = d.link /\ e.back = d.back /\ e.rx = d.rx
        /\ e.shot = d.shot /\ e.active = d.active /\ e.coded = d.coded
        /\ e.sent = d.sent /\ e.air = d.air /\ e.tx = Append(d.tx, m)
    BY <1>2 DEF DeskOK, DeskTypes, IsDesk
  <2>2. d.tx \in Seq(ControlsSent) /\ Len(d.tx) \in Nat /\ DOMAIN d.tx = 1 .. Len(d.tx)
    BY LenProperties DEF DeskOK, DeskTypes
  <2>3. /\ e.tx \in Seq(ControlsSent) /\ Len(e.tx) = Len(d.tx) + 1
        /\ \A i \in DOMAIN e.tx : e.tx[i] = m \/ (i \in DOMAIN d.tx /\ e.tx[i] = d.tx[i])
    BY <2>1, <2>2, AppendProperties, LenProperties
  <2>4. Len(e.tx) <= TxCapacity
    BY <1>2, <2>2, <2>3, Bounds
  <2>5. \A i \in DOMAIN e.tx : IsCoded(e.coded, e.tx[i].to, e.tx[i].text)
    BY <2>1, <2>3 DEF DeskOK, DeskCoded
  <2>6. DeskOK(e)
    BY <2>1, <2>3, <2>4, <2>5 DEF DeskOK, DeskTypes, DeskCoded
  <2>7. ASSUME NEW s \in Places
        PROVE  Due(e, s) <= Due(d, s) + (IF m \in To(s) THEN 1 ELSE 0)
    <3>1. ToTrigger(e, s) = ToTrigger(d, s)
      BY <2>1 DEF ToTrigger
    <3>2. Count(e.tx, To(s)) = Count(d.tx, To(s)) + (IF m \in To(s) THEN 1 ELSE 0)
      BY <2>1, <2>2, CountAppend
    <3>3. /\ d.sent[s] \in Nat /\ Cardinality(ToTrigger(d, s)) \in Nat
          /\ Count(d.tx, To(s)) \in Nat
      BY DueType DEF DeskOK
    <3> QED
      BY <2>1, <3>1, <3>2, <3>3 DEF Due
  <2> QED
    BY <2>1, <2>6, <2>7
<1>3. CASE e = d
  BY <1>3, DueType DEF DeskOK
<1> QED
  BY <1>1, <1>2, <1>3 DEF Enqueue

\* A poll takes back the first column that triggered, for one control at most.
LEMMA PollStage ==
    ASSUME Surroundings, NEW d, DeskOK(d), NEW s \in Places, Triggered(d, s) # {},
           NEW e, e = Poll(d, s)
    PROVE  /\ DeskOK(e)
           /\ e.coded = [d.coded EXCEPT ![s] =
                            @ \cup {Coding(setup.wire, s, levers).functions}]
           /\ \A x \in Places : Due(e, x) <= Due(d, x)
PROOF
<1> DEFINE k == Coding(setup.wire, s, levers)
           c == Min(Triggered(d, s))
           m == [to |-> s, text |-> k.message]
           b == [d EXCEPT !.shot[c] = "WAITING", !.coded[s] = @ \cup {k.functions}]
<1>1. k \in Codings /\ k.station = s /\ k.wire = setup.wire
  BY CodingFacts DEF Surroundings
<1>2. c \in DOMAIN Columns /\ Columns[c].station = s /\ d.shot[c] = "TRIGGERED"
  <2>1. Triggered(d, s) \subseteq Nat
    BY OfficeAssumption DEF Triggered
  <2>2. c \in Triggered(d, s)
    BY <2>1, MinInSet
  <2> QED
    BY <2>2 DEF Triggered
<1>3. m \in ControlsSent /\ m.to = s /\ m.text = k.message
  BY <1>1 DEF ControlsSent
<1>4. e = Enqueue(b, m)
  BY DEF Poll
<1> HIDE DEF k, c, m
<1>5. /\ IsDesk(b) /\ b.link = d.link /\ b.back = d.back /\ b.rx = d.rx
      /\ b.tx = d.tx /\ b.active = d.active /\ b.air = d.air /\ b.sent = d.sent
      /\ b.shot = [d.shot EXCEPT ![c] = "WAITING"]
      /\ b.coded = [d.coded EXCEPT ![s] = @ \cup {k.functions}]
  <2>1. IsDesk(d)
    BY DEF DeskOK, DeskTypes
  <2> QED
    BY <2>1 DEF IsDesk
<1> HIDE DEF b
<1>6. /\ d.shot \in [DOMAIN Columns -> {"WAITING", "ARMED", "TRIGGERED"}]
      /\ d.coded \in [Places -> SUBSET FunctionSets]
      /\ k.functions \in FunctionSets
  BY <1>1 DEF DeskOK, DeskTypes, FunctionSets
<1>7. \A x \in Places : d.coded[x] \subseteq b.coded[x]
  BY <1>5, <1>6
<1>8. \A x \in Places : \A text : IsCoded(d.coded, x, text) => IsCoded(b.coded, x, text)
  BY <1>7 DEF IsCoded
<1>9. DeskOK(b)
  <2>1. /\ b.shot \in [DOMAIN Columns -> {"WAITING", "ARMED", "TRIGGERED"}]
        /\ b.coded \in [Places -> SUBSET FunctionSets]
    <3>1. b.shot \in [DOMAIN Columns -> {"WAITING", "ARMED", "TRIGGERED"}]
      BY <1>5, <1>6
    <3>2. d.coded[s] \cup {k.functions} \in SUBSET FunctionSets
      BY <1>6
    <3>3. b.coded \in [Places -> SUBSET FunctionSets]
      BY <1>5, <1>6, <3>2
    <3> QED
      BY <3>1, <3>3
  <2>2. DeskTypes(b)
    BY <1>5, <2>1 DEF DeskOK, DeskTypes
  <2>3. \A i \in DOMAIN d.tx : d.tx[i] \in ControlsSent
    BY LenProperties DEF DeskOK, DeskTypes
  <2>4. \A i \in DOMAIN b.tx : IsCoded(b.coded, b.tx[i].to, b.tx[i].text)
    BY <1>5, <1>8, <2>3, MessageFacts DEF DeskOK, DeskCoded
  <2>5. b.active # None /\ b.active \in ControlsSent
            => IsCoded(b.coded, b.active.to, b.active.text)
    BY <1>5, <1>8, MessageFacts DEF DeskOK, DeskCoded
  <2>6. \A x \in Places : \A i \in DOMAIN b.air[x] : IsCoded(b.coded, x, b.air[x][i])
    BY <1>5, <1>8 DEF DeskOK, DeskCoded
  <2> QED
    BY <2>2, <2>4, <2>5, <2>6 DEF DeskOK, DeskCoded
<1>10. IsCoded(b.coded, m.to, m.text)
  BY <1>1, <1>3, <1>5, <1>6 DEF IsCoded
<1>11. ASSUME NEW x \in Places
       PROVE  Due(b, x) + (IF m \in To(x) THEN 1 ELSE 0) <= Due(d, x)
  <2>1. IsFiniteSet(ToTrigger(d, x)) /\ Cardinality(ToTrigger(d, x)) \in Nat
    BY ToTriggerFinite
  <2>2. Cardinality(ToTrigger(b, x)) + (IF m \in To(x) THEN 1 ELSE 0)
           <= Cardinality(ToTrigger(d, x))
    <3>1. CASE x = s
      <4>1. ToTrigger(b, x) = ToTrigger(d, x) \ {c} /\ c \in ToTrigger(d, x)
        BY <1>2, <1>5, <1>6, <3>1 DEF ToTrigger
      <4>2. Cardinality(ToTrigger(b, x)) = Cardinality(ToTrigger(d, x)) - 1
        BY <2>1, <4>1, FS_RemoveElement
      <4> QED
        BY <2>1, <4>2
    <3>2. CASE x # s
      <4>1. ToTrigger(b, x) = ToTrigger(d, x)
        BY <1>2, <1>5, <1>6, <3>2 DEF ToTrigger
      <4>2. m \notin To(x)
        BY <1>3, <3>2 DEF To
      <4> QED
        BY <2>1, <4>1, <4>2
    <3> QED
      BY <3>1, <3>2
  <2>3. /\ d.sent[x] \in Nat /\ Count(d.tx, To(x)) \in Nat
        /\ Cardinality(ToTrigger(b, x)) \in Nat
    BY <1>9, DueType, ToTriggerFinite DEF DeskOK
  <2>4. PICK playing \in {0, 1} :
            playing = IF d.active # None /\ d.active \in To(x) THEN 1 ELSE 0
    OBVIOUS
  <2>5. /\ Due(d, x) = d.sent[x] + Cardinality(ToTrigger(d, x)) + Count(d.tx, To(x)) + playing
        /\ Due(b, x) = d.sent[x] + Cardinality(ToTrigger(b, x)) + Count(d.tx, To(x)) + playing
    BY <1>5, <2>4 DEF Due
  <2> QED
    BY <2>1, <2>2, <2>3, <2>5
<1>12. /\ DeskOK(e) /\ e.coded = b.coded
       /\ \A x \in Places : Due(e, x) <= Due(b, x) + (IF m \in To(x) THEN 1 ELSE 0)
  BY <1>3, <1>4, <1>9, <1>10, EnqueueStage
<1>13. \A x \in Places : Due(e, x) <= Due(d, x)
  <2> TAKE x \in Places
  <2>1. Due(e, x) \in Nat /\ Due(b, x) \in Nat /\ Due(d, x) \in Nat
    BY <1>9, <1>12, DueType DEF DeskOK
  <2>2. /\ Due(e, x) <= Due(b, x) + (IF m \in To(x) THEN 1 ELSE 0)
        /\ Due(b, x) + (IF m \in To(x) THEN 1 ELSE 0) <= Due(d, x)
    BY <1>11, <1>12
  <2> QED
    BY <2>1, <2>2
<1> QED
  BY <1>5, <1>12, <1>13 DEF k

\* The display of what waits begins: what is played has left its queue.
LEMMA StartNextStage ==
    ASSUME NEW d, DeskOK(d), d.active = None, NEW e, e = StartNext(d)
    PROVE  DeskOK(e) /\ e.coded = d.coded /\ \A s \in Places : Due(e, s) <= Due(d, s)
PROOF
<1>1. /\ d.tx \in Seq(ControlsSent) /\ Len(d.tx) <= TxCapacity /\ Len(d.tx) \in Nat
      /\ d.rx \in Seq(IndicationsSent) /\ Len(d.rx) <= RxCapacity /\ Len(d.rx) \in Nat
  BY LenProperties DEF DeskOK, DeskTypes
<1>2. CASE d.rx # <<>>
  <2>1. /\ IsDesk(e) /\ e.link = d.link /\ e.back = d.back
        /\ e.shot = d.shot /\ e.coded = d.coded /\ e.tx = d.tx
        /\ e.sent = d.sent /\ e.air = d.air
        /\ e.active = Head(d.rx) /\ e.rx = Tail(d.rx)
    BY <1>2 DEF StartNext, DeskOK, DeskTypes, IsDesk
  <2>2. Head(d.rx) \in IndicationsSent /\ Tail(d.rx) \in Seq(IndicationsSent)
        /\ Len(Tail(d.rx)) = Len(d.rx) - 1
    BY <1>1, <1>2, HeadTailProperties
  <2>3. Len(e.rx) <= RxCapacity
    BY <1>1, <2>1, <2>2, Bounds
  <2>4. e.active \notin ControlsSent
    BY <2>1, <2>2, MessageFacts
  <2>5. DeskOK(e)
    BY <2>1, <2>2, <2>3, <2>4 DEF DeskOK, DeskTypes, DeskCoded
  <2>6. ASSUME NEW s \in Places
        PROVE  Due(e, s) = Due(d, s)
    <3>1. ToTrigger(e, s) = ToTrigger(d, s) /\ e.active \notin To(s)
      BY <2>1, <2>4 DEF ToTrigger, To
    <3> QED
      BY <2>1, <3>1 DEF Due
  <2>7. \A s \in Places : Due(d, s) \in Nat
    BY DueType DEF DeskOK
  <2> QED
    BY <2>1, <2>5, <2>6, <2>7
<1>3. CASE d.rx = <<>> /\ d.tx # <<>>
  <2>1. /\ IsDesk(e) /\ e.link = d.link /\ e.back = d.back
        /\ e.shot = d.shot /\ e.coded = d.coded /\ e.rx = d.rx
        /\ e.sent = d.sent /\ e.air = d.air
        /\ e.active = Head(d.tx) /\ e.tx = Tail(d.tx)
    BY <1>3 DEF StartNext, DeskOK, DeskTypes, IsDesk
  <2>2. /\ Head(d.tx) \in ControlsSent /\ Tail(d.tx) \in Seq(ControlsSent)
        /\ Len(Tail(d.tx)) = Len(d.tx) - 1
        /\ Head(d.tx) = d.tx[1] /\ 1 \in DOMAIN d.tx
        /\ \A i \in DOMAIN Tail(d.tx) : i + 1 \in DOMAIN d.tx /\ Tail(d.tx)[i] = d.tx[i + 1]
    BY <1>1, <1>3, HeadTailProperties, EmptySeq
  <2>3. Len(e.tx) <= TxCapacity
    BY <1>1, <2>1, <2>2, Bounds
  <2>4. /\ \A i \in DOMAIN e.tx : IsCoded(e.coded, e.tx[i].to, e.tx[i].text)
        /\ IsCoded(e.coded, e.active.to, e.active.text)
    BY <2>1, <2>2 DEF DeskOK, DeskCoded
  <2>5. DeskOK(e)
    BY <2>1, <2>2, <2>3, <2>4 DEF DeskOK, DeskTypes, DeskCoded
  <2>6. ASSUME NEW s \in Places
        PROVE  Due(e, s) <= Due(d, s)
    <3>1. ToTrigger(e, s) = ToTrigger(d, s)
      BY <2>1 DEF ToTrigger
    <3>2. Count(d.tx, To(s)) = Count(e.tx, To(s)) + (IF e.active \in To(s) THEN 1 ELSE 0)
      BY <1>1, <1>3, <2>1, CountTail
    <3>3. /\ d.sent[s] \in Nat /\ Cardinality(ToTrigger(d, s)) \in Nat
          /\ Count(d.tx, To(s)) \in Nat /\ Count(e.tx, To(s)) \in Nat
      BY <2>5, DueType DEF DeskOK
    <3>4. /\ Due(d, s) = d.sent[s] + Cardinality(ToTrigger(d, s)) + Count(d.tx, To(s)) + 0
          /\ Due(e, s) = d.sent[s] + Cardinality(ToTrigger(d, s)) + Count(e.tx, To(s))
                         + (IF e.active # None /\ e.active \in To(s) THEN 1 ELSE 0)
      BY <2>1, <3>1 DEF Due
    <3> QED
      BY <3>2, <3>3, <3>4
  <2> QED
    BY <2>1, <2>5, <2>6
<1>4. CASE d.rx = <<>> /\ d.tx = <<>>
  BY <1>4, DueType DEF StartNext, DeskOK
<1> QED
  BY <1>2, <1>3, <1>4

\* The end of a display: an indication is shown, a control is published.
LEMMA CompleteStage ==
    ASSUME NEW d, DeskOK(d), d.active # None, NEW e, e = Complete(d)
    PROVE  DeskOK(e) /\ e.coded = d.coded /\ \A s \in Places : Due(e, s) <= Due(d, s)
PROOF
<1> DEFINE done == [d EXCEPT !.active = None]
<1>1. /\ IsDesk(done) /\ done.link = d.link /\ done.back = d.back
      /\ done.shot = d.shot /\ done.coded = d.coded /\ done.tx = d.tx /\ done.rx = d.rx
      /\ done.sent = d.sent /\ done.air = d.air /\ done.active = None
  BY DEF DeskOK, DeskTypes, IsDesk
<1>2. CASE Inbound(d.active)
  <2> DEFINE b == [done EXCEPT !.lamps = Shown(@, d.active)]
  <2>1. e = StartNext(b)
    BY <1>2 DEF Complete
  <2> HIDE DEF done
  <2>2. /\ IsDesk(b) /\ b.link = d.link /\ b.back = d.back
        /\ b.shot = d.shot /\ b.coded = d.coded /\ b.tx = d.tx /\ b.rx = d.rx
        /\ b.sent = d.sent /\ b.air = d.air /\ b.active = None
    BY <1>1 DEF IsDesk
  <2> HIDE DEF b
  <2>3. DeskOK(b)
    BY <2>2 DEF DeskOK, DeskTypes, DeskCoded
  <2>4. d.active \notin ControlsSent
    BY <1>2, MessageFacts
  <2>5. ASSUME NEW s \in Places
        PROVE  Due(b, s) = Due(d, s)
    <3>1. ToTrigger(b, s) = ToTrigger(d, s) /\ d.active \notin To(s)
      BY <2>2, <2>4 DEF ToTrigger, To
    <3> QED
      BY <2>2, <3>1 DEF Due
  <2>6. DeskOK(e) /\ e.coded = b.coded /\ \A s \in Places : Due(e, s) <= Due(b, s)
    BY <2>1, <2>2, <2>3, StartNextStage
  <2> QED
    BY <2>2, <2>5, <2>6
<1>3. CASE ~Inbound(d.active)
  <2>1. d.active \in ControlsSent /\ IsCoded(d.coded, d.active.to, d.active.text)
    BY <1>3, MessageFacts DEF DeskOK, DeskTypes, DeskCoded
  <2>2. PICK b : b = Publish(done, d.active)
    OBVIOUS
  <2>3. e = StartNext(b)
    BY <1>3, <2>2 DEF Complete
  <2> HIDE DEF done
  <2>4. DeskOK(done)
    BY <1>1 DEF DeskOK, DeskTypes, DeskCoded
  <2>5. /\ DeskOK(b)
        /\ b.shot = d.shot /\ b.tx = d.tx /\ b.active = None /\ b.coded = d.coded
        /\ \A s \in Places : b.sent[s] <= d.sent[s] + (IF d.active \in To(s) THEN 1 ELSE 0)
    BY <1>1, <2>1, <2>2, <2>4, PublishStage
  <2>6. ASSUME NEW s \in Places
        PROVE  Due(b, s) <= Due(d, s)
    <3>1. ToTrigger(b, s) = ToTrigger(d, s)
      BY <2>5 DEF ToTrigger
    <3>2. /\ d.sent[s] \in Nat /\ Cardinality(ToTrigger(d, s)) \in Nat
          /\ Count(d.tx, To(s)) \in Nat /\ b.sent[s] \in Nat
      BY <2>5, DueType DEF DeskOK
    <3>3. /\ Due(d, s) = d.sent[s] + Cardinality(ToTrigger(d, s)) + Count(d.tx, To(s))
                         + (IF d.active \in To(s) THEN 1 ELSE 0)
          /\ Due(b, s) = b.sent[s] + Cardinality(ToTrigger(d, s)) + Count(d.tx, To(s)) + 0
      BY <2>5, <3>1 DEF Due
    <3> QED
      BY <2>5, <3>2, <3>3
  <2>7. DeskOK(e) /\ e.coded = b.coded /\ \A s \in Places : Due(e, s) <= Due(b, s)
    BY <2>3, <2>5, StartNextStage
  <2>8. \A s \in Places : Due(d, s) \in Nat /\ Due(b, s) \in Nat /\ Due(e, s) \in Nat
    BY <2>5, <2>7, DueType DEF DeskOK
  <2>9. \A s \in Places : Due(e, s) <= Due(d, s)
    BY <2>6, <2>7, <2>8
  <2> QED
    BY <2>5, <2>7, <2>9
<1> QED
  BY <1>2, <1>3

\* updateCodeLine(): no stage of the display cycle makes a control due again.
LEMMA CodeLineStage ==
    ASSUME NEW d, DeskOK(d), NEW elapsed \in BOOLEAN, NEW e, e = UpdateCodeLine(d, elapsed)
    PROVE  DeskOK(e) /\ e.coded = d.coded /\ \A s \in Places : Due(e, s) <= Due(d, s)
PROOF
<1>1. CASE e = d
  BY <1>1, DueType DEF DeskOK
<1>2. CASE d.active = None /\ e = StartNext(d)
  BY <1>2, StartNextStage
<1>3. CASE d.active # None /\ e = Complete(d)
  BY <1>3, CompleteStage
<1> QED
  BY <1>1, <1>2, <1>3 DEF UpdateCodeLine

-----------------------------------------------------------------------------
(* The inductive invariant: the desk as it is between two passes of its    *)
(* loop, what the field units hold, and the controls that are due.         *)

OfficeTypes ==
    /\ Surroundings
    /\ \A c \in DOMAIN Columns : levers[c] \in Columns[c].positions
    /\ plant \in [Places -> Nat] /\ \A s \in Places : plant[s] \in DOMAIN IndicationAt[s]
    /\ told \in [Places -> Nat]
    /\ slot = [s \in Places |-> slot[s]]
    /\ obeyed = [s \in Places |-> obeyed[s]]
    /\ released \in [Places -> Nat]
    /\ failures \in Nat /\ failures <= setup.failures

\* Whatever waits at a field unit was coded for it.
SlotCoded == \A s \in Places : slot[s] # None => IsCoded(coded, s, slot[s])

NoneTooMany == \A s \in Places : Due(Desk, s) <= released[s]

OfficeInv == OfficeTypes /\ DeskOK(Desk) /\ SlotCoded /\ NoneTooMany

\* The desk as a record is made of its variables.
LEMMA DeskFields ==
    /\ IsDesk(Desk)
    /\ Desk.shot = shot /\ Desk.lamps = lamps /\ Desk.tx = tx /\ Desk.rx = rx
    /\ Desk.active = active /\ Desk.link = link /\ Desk.air = air /\ Desk.back = back
    /\ Desk.coded = coded /\ Desk.sent = sent
  BY DEF Desk, IsDesk

\* A pass of the loop as a whole.
LEMMA LoopPass ==
    ASSUME OfficeInv, NEW answered \in BOOLEAN, NEW elapsed \in BOOLEAN,
           DeskLoop(answered, elapsed)
    PROVE  /\ UNCHANGED <<setup, panel, field, failures>>
           /\ DeskOK(Desk)'
           /\ \A s \in Places : Due(Desk', s) <= Due(Desk, s)
           /\ \/ coded' = coded
              \/ \E s \in Places :
                    coded' = [coded EXCEPT ![s] =
                                 @ \cup {Coding(setup.wire, s, levers).functions}]
PROOF
<1>1. PICK received : received = Receive(Desk, answered)
  OBVIOUS
<1>2. PICK heard : heard = SyncInputs(received)
  OBVIOUS
<1>3. PICK polled \in PollCode(heard) :
        \E d \in {UpdateCodeLine(polled, elapsed)} :
            /\ shot' = d.shot /\ lamps' = d.lamps /\ tx' = d.tx /\ rx' = d.rx
            /\ active' = d.active /\ link' = d.link /\ air' = d.air /\ back' = d.back
            /\ coded' = d.coded /\ sent' = d.sent
            /\ UNCHANGED <<setup, panel, field, failures>>
  BY <1>1, <1>2 DEF DeskLoop
<1>4. PICK d : /\ d = UpdateCodeLine(polled, elapsed)
               /\ shot' = d.shot /\ lamps' = d.lamps /\ tx' = d.tx /\ rx' = d.rx
               /\ active' = d.active /\ link' = d.link /\ air' = d.air /\ back' = d.back
               /\ coded' = d.coded /\ sent' = d.sent
               /\ UNCHANGED <<setup, panel, field, failures>>
  BY <1>3
<1>5. Surroundings /\ DeskOK(Desk)
  BY DEF OfficeInv, OfficeTypes
<1>6. /\ DeskOK(received)
      /\ received.shot = shot /\ received.tx = tx /\ received.active = active
      /\ received.coded = coded /\ received.sent = sent
  BY <1>1, <1>5, ReceiveStage, DeskFields
<1>7. \A s \in Places : Due(received, s) = Due(Desk, s)
  BY <1>6, DeskFields DEF Due, ToTrigger
<1>8. DeskOK(heard) /\ heard.coded = coded /\ \A s \in Places : Due(heard, s) = Due(received, s)
  BY <1>2, <1>5, <1>6, SyncStage
<1>9. \/ polled = heard
      \/ \E s \in Places : Triggered(heard, s) # {} /\ polled = Poll(heard, s)
  <2> DEFINE ready == {i \in DOMAIN Stations : Triggered(heard, Stations[i]) # {}}
  <2>1. ready \subseteq Nat
    BY OfficeAssumption
  <2>2. CASE ready = {}
    BY <1>3, <2>2 DEF PollCode
  <2>3. CASE ready # {}
    <3>1. Min(ready) \in ready
      BY <2>1, <2>3, MinInSet
    <3>2. Min(ready) # 0
      BY <3>1, OfficeAssumption
    <3>3. polled = Poll(heard, Stations[Min(ready)])
      BY <1>3, <2>3, <3>2 DEF PollCode
    <3> QED
      BY <3>1, <3>3 DEF Places
  <2> QED
    BY <2>2, <2>3
<1>10. /\ DeskOK(polled)
       /\ \A s \in Places : Due(polled, s) <= Due(heard, s)
       /\ \/ polled.coded = coded
          \/ \E s \in Places :
                polled.coded = [coded EXCEPT ![s] =
                                   @ \cup {Coding(setup.wire, s, levers).functions}]
  <2>1. CASE polled = heard
    BY <1>8, <2>1, DueType DEF DeskOK
  <2>2. ASSUME NEW s \in Places, Triggered(heard, s) # {}, polled = Poll(heard, s)
        PROVE  /\ DeskOK(polled)
               /\ \A x \in Places : Due(polled, x) <= Due(heard, x)
               /\ polled.coded = [coded EXCEPT ![s] =
                                     @ \cup {Coding(setup.wire, s, levers).functions}]
    BY <1>5, <1>8, <2>2, PollStage
  <2> QED
    BY <1>9, <2>1, <2>2
<1>11. DeskOK(d) /\ d.coded = polled.coded /\ \A s \in Places : Due(d, s) <= Due(polled, s)
  BY <1>4, <1>10, CodeLineStage
<1>12. /\ IsDesk(Desk)'
       /\ Desk'.shot = d.shot /\ Desk'.tx = d.tx /\ Desk'.rx = d.rx
       /\ Desk'.active = d.active /\ Desk'.link = d.link /\ Desk'.air = d.air
       /\ Desk'.back = d.back /\ Desk'.coded = d.coded /\ Desk'.sent = d.sent
  BY <1>4 DEF Desk, IsDesk
<1>13. DeskOK(Desk)'
  <2>1. setup' = setup
    BY <1>4
  <2>2. \A cod, s, text : IsCoded(cod, s, text)' <=> IsCoded(cod, s, text)
    BY <2>1 DEF IsCoded
  <2> QED
    BY <1>11, <1>12, <2>1, <2>2 DEF DeskOK, DeskTypes, DeskCoded
<1>14. \A s \in Places : Due(Desk', s) <= Due(Desk, s)
  <2> TAKE s \in Places
  <2>1. Due(Desk', s) = Due(d, s)
    BY <1>12 DEF Due, ToTrigger
  <2>2. /\ Due(d, s) \in Nat /\ Due(polled, s) \in Nat /\ Due(heard, s) \in Nat
        /\ Due(Desk, s) \in Nat
    BY <1>5, <1>8, <1>10, <1>11, DueType DEF DeskOK
  <2> QED
    BY <1>7, <1>8, <1>10, <1>11, <2>1, <2>2
<1> QED
  BY <1>4, <1>10, <1>11, <1>13, <1>14

-----------------------------------------------------------------------------
(* The invariant holds initially, and every action keeps it.               *)

\* Levers that stand in positions of their columns are among the contacts that
\* the codings range over.
LEMMA LeversAreContacts ==
    ASSUME NEW lv, lv = [c \in DOMAIN Columns |-> lv[c]],
           \A c \in DOMAIN Columns : lv[c] \in Columns[c].positions
    PROVE  lv \in Contacts
PROOF
<1>1. ASSUME NEW c \in DOMAIN Columns
      PROVE  lv[c] \in UNION {col.positions : col \in Range(Columns)}
  BY DEF Range
<1> QED
  BY <1>1 DEF Contacts

\* What was coded stays coded.
LEMMA StillCoded ==
    ASSUME setup' = setup, NEW s, NEW text, NEW cod, NEW cod2, cod[s] \subseteq cod2[s],
           IsCoded(cod, s, text)
    PROVE  IsCoded(cod2, s, text) /\ IsCoded(cod2, s, text)'
PROOF
  BY DEF IsCoded

\* Where the desk is left alone so is what is known of it.
LEMMA DeskKept ==
    ASSUME DeskOK(Desk), UNCHANGED <<setup, desk, air, back>>
    PROVE  /\ DeskOK(Desk)'
           /\ button' = button => \A s \in Places : Due(Desk, s)' = Due(Desk, s)
PROOF
<1>1. Desk' = Desk /\ setup' = setup
  BY DEF Desk, desk
<1>2. \A cod, s, text : IsCoded(cod, s, text)' <=> IsCoded(cod, s, text)
  BY <1>1 DEF IsCoded
<1>3. DeskOK(Desk)'
  <2>1. DeskTypes(Desk)'
    BY <1>1 DEF DeskOK, DeskTypes
  <2>2. DeskCoded(Desk)'
    BY <1>1, <1>2 DEF DeskOK, DeskCoded
  <2> QED
    BY <2>1, <2>2 DEF DeskOK
<1>4. ASSUME button' = button, NEW s \in Places
      PROVE  Due(Desk, s)' = Due(Desk, s)
  BY <1>1, <1>4 DEF Due, ToTrigger
<1> QED
  BY <1>3, <1>4

\* The invariant holds when everything is switched on.
LEMMA OfficeInitially == Init => OfficeInv
PROOF
<1> SUFFICES ASSUME Init
             PROVE  OfficeInv
  OBVIOUS
<1> USE DEF Init
<1>1. \A s \in Places : Min(DOMAIN IndicationAt[s]) \in DOMAIN IndicationAt[s]
  BY MinInSet, OfficeAssumption
<1>2. \A c \in DOMAIN Columns : levers[c] \in Columns[c].positions
  BY OfficeAssumption
<1>3. levers \in Contacts
  BY <1>2, LeversAreContacts
<1>4. OfficeTypes
  <2>1. plant \in [Places -> Nat] /\ \A s \in Places : plant[s] \in DOMAIN IndicationAt[s]
    BY <1>1, OfficeAssumption
  <2>2. failures \in Nat /\ failures <= setup.failures
    BY OfficeAssumption
  <2>3. Surroundings
    BY <1>3, <2>1 DEF Surroundings
  <2> QED
    BY <1>2, <2>1, <2>2, <2>3 DEF OfficeTypes
<1>5. DeskOK(Desk)
  <2>1. \A s \in Places : Count(<<>>, From(s)) <= MaxInFlight
    BY CountEmpty, Bounds
  <2>2. /\ Desk.tx = <<>> /\ Desk.rx = <<>> /\ Desk.active = None /\ Desk.link = "down"
        /\ Desk.back = <<>> /\ Desk.air = [s \in Places |-> <<>>]
        /\ Desk.coded = [s \in Places |-> {}] /\ Desk.sent = [s \in Places |-> 0]
        /\ Desk.shot = [c \in DOMAIN Columns |-> "WAITING"]
        /\ IsDesk(Desk)
    BY DeskFields
  <2>3. DeskTypes(Desk)
    BY <2>1, <2>2, Bounds DEF DeskTypes
  <2>4. DeskCoded(Desk)
    BY <2>2 DEF DeskCoded
  <2> QED
    BY <2>3, <2>4 DEF DeskOK
<1>6. SlotCoded
  BY DEF SlotCoded
<1>7. ASSUME NEW s \in Places
      PROVE  Due(Desk, s) <= released[s]
  <2>1. ToTrigger(Desk, s) = {}
    BY DeskFields DEF ToTrigger
  <2>2. Desk.sent[s] = 0 /\ Desk.tx = <<>> /\ Desk.active = None
    BY DeskFields
  <2> QED
    BY <2>1, <2>2, CountEmpty, FS_EmptySet DEF Due
<1> QED
  BY <1>4, <1>5, <1>6, <1>7 DEF OfficeInv, NoneTooMany

\* A pass of the desk's loop.
LEMMA LoopKeepsInv ==
    ASSUME OfficeInv, NEW answered \in BOOLEAN, NEW elapsed \in BOOLEAN,
           DeskLoop(answered, elapsed)
    PROVE  OfficeInv'
PROOF
<1>1. /\ UNCHANGED <<setup, panel, field, failures>>
      /\ DeskOK(Desk)'
      /\ \A s \in Places : Due(Desk', s) <= Due(Desk, s)
      /\ \/ coded' = coded
         \/ \E s \in Places :
               coded' = [coded EXCEPT ![s] = @ \cup {Coding(setup.wire, s, levers).functions}]
  BY LoopPass
<1>2. OfficeTypes /\ DeskOK(Desk) /\ SlotCoded /\ NoneTooMany
  BY DEF OfficeInv
<1>3. OfficeTypes'
  BY <1>1, <1>2 DEF OfficeTypes, Surroundings, panel, field
<1>4. \A s \in Places : coded[s] \subseteq coded'[s]
  <2>1. coded \in [Places -> SUBSET FunctionSets]
    BY <1>2, DeskFields DEF DeskOK, DeskTypes
  <2> QED
    BY <1>1, <2>1
<1>5. SlotCoded'
  BY <1>1, <1>2, <1>4, StillCoded DEF SlotCoded, field
<1>6. ASSUME NEW s \in Places
      PROVE  (Due(Desk, s) <= released[s])'
  <2>1. Due(Desk, s)' = Due(Desk', s)
    BY <1>1 DEF Due, ToTrigger, panel
  <2>2. DeskTypes(Desk)' /\ Due(Desk, s)' \in Nat
    <3>1. DeskTypes(Desk')
      BY <1>1 DEF DeskOK, DeskTypes
    <3> QED
      BY <1>1, <2>1, <3>1, DueType DEF DeskOK
  <2>3. Due(Desk, s) \in Nat /\ released[s] \in Nat /\ Due(Desk, s) <= released[s]
    BY <1>2, DueType DEF DeskOK, OfficeTypes, NoneTooMany
  <2> QED
    BY <1>1, <2>1, <2>2, <2>3 DEF panel
<1> QED
  BY <1>1, <1>3, <1>5, <1>6 DEF OfficeInv, NoneTooMany

\* The session of the broker ends, with what was on its way to the desk.
LEMMA LossKeepsInv == ASSUME OfficeInv, ConnectionLost PROVE OfficeInv'
PROOF
<1> USE DEF ConnectionLost
<1>1. OfficeTypes /\ DeskOK(Desk) /\ SlotCoded /\ NoneTooMany
  BY DEF OfficeInv
<1>2. OfficeTypes'
  <2>1. setup.failures \in Nat
    BY <1>1, OfficeAssumption DEF OfficeTypes, Surroundings
  <2> QED
    BY <1>1, <2>1 DEF OfficeTypes, Surroundings, panel, field
<1>3. /\ IsDesk(Desk)' /\ Desk'.shot = Desk.shot /\ Desk'.tx = Desk.tx /\ Desk'.rx = Desk.rx
      /\ Desk'.active = Desk.active /\ Desk'.link = "down" /\ Desk'.air = Desk.air
      /\ Desk'.back = <<>> /\ Desk'.coded = Desk.coded /\ Desk'.sent = Desk.sent
  BY DEF Desk, IsDesk
<1>4. setup' = setup /\ \A cod, s, text : IsCoded(cod, s, text)' <=> IsCoded(cod, s, text)
  BY DEF IsCoded
<1>5. DeskOK(Desk)'
  <2>1. \A s \in Places : Count(<<>>, From(s)) <= MaxInFlight
    BY CountEmpty, Bounds
  <2> QED
    BY <1>1, <1>3, <1>4, <2>1 DEF DeskOK, DeskTypes, DeskCoded
<1>6. SlotCoded'
  BY <1>1, <1>4 DEF SlotCoded, field
<1>7. NoneTooMany'
  BY <1>1, <1>3 DEF NoneTooMany, Due, ToTrigger, panel
<1> QED
  BY <1>2, <1>5, <1>6, <1>7 DEF OfficeInv

\* The desk starts again with nothing to send: a button that is down has to be
\* let go before it triggers.
LEMMA RestartKeepsInv == ASSUME OfficeInv, DeskRestart PROVE OfficeInv'
PROOF
<1> USE DEF DeskRestart
<1>1. OfficeTypes /\ DeskOK(Desk) /\ SlotCoded /\ NoneTooMany
  BY DEF OfficeInv
<1>2. OfficeTypes'
  <2>1. setup.failures \in Nat
    BY <1>1, OfficeAssumption DEF OfficeTypes, Surroundings
  <2> QED
    BY <1>1, <2>1 DEF OfficeTypes, Surroundings, panel, field
<1>3. \A c \in DOMAIN Columns : shot'[c] = IF button[c] THEN "ARMED" ELSE "WAITING"
  BY DEF Updated
<1>4. /\ IsDesk(Desk)' /\ Desk'.shot = shot' /\ Desk'.tx = <<>> /\ Desk'.rx = <<>>
      /\ Desk'.active = None /\ Desk'.link = "down" /\ Desk'.air = Desk.air
      /\ Desk'.back = <<>> /\ Desk'.coded = Desk.coded /\ Desk'.sent = Desk.sent
  BY DEF Desk, IsDesk
<1>5. setup' = setup /\ \A cod, s, text : IsCoded(cod, s, text)' <=> IsCoded(cod, s, text)
  BY DEF IsCoded
<1>6. DeskOK(Desk)'
  <2>1. \A s \in Places : Count(<<>>, From(s)) <= MaxInFlight
    BY CountEmpty, Bounds
  <2>2. shot' \in [DOMAIN Columns -> {"WAITING", "ARMED", "TRIGGERED"}]
    BY <1>3
  <2>3. DeskTypes(Desk)'
    BY <1>1, <1>4, <2>1, <2>2, Bounds DEF DeskOK, DeskTypes
  <2>4. DeskCoded(Desk)'
    BY <1>1, <1>4, <1>5 DEF DeskOK, DeskCoded
  <2> QED
    BY <2>3, <2>4 DEF DeskOK
<1>7. SlotCoded'
  BY <1>1, <1>5 DEF SlotCoded, field
<1>8. ASSUME NEW s \in Places
      PROVE  (Due(Desk, s) <= released[s])'
  <2>1. ToTrigger(Desk, s)' = {}
    BY <1>3, <1>4 DEF ToTrigger, panel
  <2>2. Due(Desk, s)' = Desk.sent[s] + 0 + 0 + 0
    BY <1>4, <2>1, CountEmpty, FS_EmptySet DEF Due
  <2>3. Due(Desk, s) \in Nat /\ Desk.sent[s] \in Nat /\ Cardinality(ToTrigger(Desk, s)) \in Nat
        /\ Count(Desk.tx, To(s)) \in Nat
    BY <1>1, DueType DEF DeskOK
  <2>4. PICK k \in {0, 1} :
          Due(Desk, s) = Desk.sent[s] + Cardinality(ToTrigger(Desk, s)) + Count(Desk.tx, To(s)) + k
    BY DEF Due
  <2>5. Due(Desk, s) <= released[s] /\ released[s] \in Nat /\ released' = released
    BY <1>1 DEF NoneTooMany, OfficeTypes, panel
  <2> QED
    BY <2>2, <2>3, <2>4, <2>5
<1> QED
  BY <1>2, <1>6, <1>7, <1>8 DEF OfficeInv, NoneTooMany

\* A button that is pressed triggers nothing yet.
LEMMA PressKeepsInv ==
    ASSUME OfficeInv, NEW c \in DOMAIN Columns, PressCode(c)
    PROVE  OfficeInv'
PROOF
<1> USE DEF PressCode
<1>1. OfficeTypes /\ DeskOK(Desk) /\ SlotCoded /\ NoneTooMany
  BY DEF OfficeInv
<1>2. OfficeTypes'
  BY <1>1 DEF OfficeTypes, Surroundings, field
<1>3. DeskOK(Desk)' /\ setup' = setup /\ Desk' = Desk
  BY <1>1, DeskKept DEF Desk, desk
<1>4. SlotCoded'
  BY <1>1, <1>3 DEF SlotCoded, IsCoded, field, desk
<1>5. ASSUME NEW s \in Places
      PROVE  (Due(Desk, s) <= released[s])'
  <2>1. ToTrigger(Desk, s)' \subseteq ToTrigger(Desk, s)
    BY <1>1, <1>3 DEF ToTrigger, OfficeTypes, Surroundings
  <2>2. /\ Cardinality(ToTrigger(Desk, s)') <= Cardinality(ToTrigger(Desk, s))
        /\ Cardinality(ToTrigger(Desk, s)') \in Nat
    BY <2>1, ToTriggerFinite, FS_Subset, FS_CardinalityType
  <2>3. Due(Desk, s) \in Nat /\ Desk.sent[s] \in Nat /\ Cardinality(ToTrigger(Desk, s)) \in Nat
        /\ Count(Desk.tx, To(s)) \in Nat
    BY <1>1, DueType DEF DeskOK
  <2>4. PICK k \in {0, 1} :
          /\ Due(Desk, s) = Desk.sent[s] + Cardinality(ToTrigger(Desk, s))
                            + Count(Desk.tx, To(s)) + k
          /\ Due(Desk, s)' = Desk.sent[s] + Cardinality(ToTrigger(Desk, s)')
                             + Count(Desk.tx, To(s)) + k
    BY <1>3 DEF Due
  <2>5. Due(Desk, s) <= released[s] /\ released[s] \in Nat /\ released' = released
    BY <1>1 DEF NoneTooMany, OfficeTypes
  <2> QED
    BY <2>2, <2>3, <2>4, <2>5
<1> QED
  BY <1>2, <1>3, <1>4, <1>5 DEF OfficeInv, NoneTooMany

\* A button that is let go may trigger one control of its station, the one it
\* is counted for.
LEMMA ReleaseKeepsInv ==
    ASSUME OfficeInv, NEW c \in DOMAIN Columns, ReleaseCode(c)
    PROVE  OfficeInv'
PROOF
<1> USE DEF ReleaseCode
<1>1. OfficeTypes /\ DeskOK(Desk) /\ SlotCoded /\ NoneTooMany
  BY DEF OfficeInv
<1>2. OfficeTypes'
  <2>1. Columns[c].station \in Places
    BY OfficeAssumption
  <2>2. released' \in [Places -> Nat]
    BY <1>1, <2>1 DEF OfficeTypes
  <2> QED
    BY <1>1, <2>2 DEF OfficeTypes, Surroundings, field
<1>3. DeskOK(Desk)' /\ setup' = setup /\ Desk' = Desk
  BY <1>1, DeskKept DEF Desk, desk
<1>4. SlotCoded'
  BY <1>1, <1>3 DEF SlotCoded, IsCoded, field, desk
<1>5. ASSUME NEW s \in Places
      PROVE  (Due(Desk, s) <= released[s])'
  <2> DEFINE T == ToTrigger(Desk, s)
             more == IF Columns[c].station = s THEN 1 ELSE 0
  <2>1. ToTrigger(Desk, s)' \subseteq T \cup (IF Columns[c].station = s THEN {c} ELSE {})
    BY <1>1, <1>3 DEF ToTrigger, OfficeTypes, Surroundings
  <2>2. IsFiniteSet(T) /\ Cardinality(T) \in Nat
    BY ToTriggerFinite
  <2>3. /\ Cardinality(ToTrigger(Desk, s)') <= Cardinality(T) + more
        /\ Cardinality(ToTrigger(Desk, s)') \in Nat
    <3>1. CASE Columns[c].station = s
      <4>1. /\ IsFiniteSet(T \cup {c})
            /\ Cardinality(T \cup {c}) \in {Cardinality(T), Cardinality(T) + 1}
        BY <2>2, FS_AddElement
      <4>2. /\ Cardinality(ToTrigger(Desk, s)') <= Cardinality(T \cup {c})
            /\ Cardinality(ToTrigger(Desk, s)') \in Nat
        BY <2>1, <3>1, <4>1, FS_Subset, FS_CardinalityType
      <4> QED
        BY <2>2, <3>1, <4>1, <4>2
    <3>2. CASE Columns[c].station # s
      BY <2>1, <2>2, <3>2, FS_Subset, FS_CardinalityType
    <3> QED
      BY <3>1, <3>2
  <2>4. Due(Desk, s) \in Nat /\ Desk.sent[s] \in Nat /\ Count(Desk.tx, To(s)) \in Nat
    BY <1>1, DueType DEF DeskOK
  <2>5. PICK k \in {0, 1} :
          /\ Due(Desk, s) = Desk.sent[s] + Cardinality(T) + Count(Desk.tx, To(s)) + k
          /\ Due(Desk, s)' = Desk.sent[s] + Cardinality(ToTrigger(Desk, s)')
                             + Count(Desk.tx, To(s)) + k
    BY <1>3 DEF Due
  <2>6. /\ Due(Desk, s) <= released[s] /\ released[s] \in Nat
        /\ released'[s] = released[s] + more
    BY <1>1, OfficeAssumption DEF NoneTooMany, OfficeTypes
  <2>7. more \in {0, 1}
    OBVIOUS
  <2> HIDE DEF T, more
  <2> QED
    BY <2>2, <2>3, <2>4, <2>5, <2>6, <2>7
<1> QED
  BY <1>2, <1>3, <1>4, <1>5 DEF OfficeInv, NoneTooMany

\* A lever moves to another of its positions.
LEMMA LeverKeepsInv ==
    ASSUME OfficeInv, NEW c \in DOMAIN Columns, MoveLever(c)
    PROVE  OfficeInv'
PROOF
<1>1. OfficeTypes /\ DeskOK(Desk) /\ SlotCoded /\ NoneTooMany
  BY DEF OfficeInv
<1>2. PICK l \in Columns[c].positions : levers' = [levers EXCEPT ![c] = l]
  BY DEF MoveLever
<1>3. UNCHANGED <<setup, button, released, desk, air, back, field, failures>>
  BY DEF MoveLever
<1>4. OfficeTypes'
  <2>1. levers \in Contacts
    BY <1>1 DEF OfficeTypes, Surroundings
  <2>2. \A k \in DOMAIN Columns : levers'[k] \in Columns[k].positions
    BY <1>1, <1>2, <2>1 DEF OfficeTypes, Contacts
  <2>3. levers' = [k \in DOMAIN Columns |-> levers'[k]]
    BY <1>2, <2>1 DEF Contacts
  <2>4. levers' \in Contacts
    BY <2>2, <2>3, LeversAreContacts
  <2> QED
    BY <1>1, <1>3, <2>2, <2>4 DEF OfficeTypes, Surroundings, field
<1>5. DeskOK(Desk)' /\ \A s \in Places : Due(Desk, s)' = Due(Desk, s)
  BY <1>1, <1>3, DeskKept
<1>6. SlotCoded'
  BY <1>1, <1>3 DEF SlotCoded, IsCoded, field, desk
<1>7. NoneTooMany'
  BY <1>1, <1>3, <1>5 DEF NoneTooMany
<1> QED
  BY <1>4, <1>5, <1>6, <1>7 DEF OfficeInv

\* A control arrives at its field unit and takes the place of the one before.
LEMMA DeliverKeepsInv ==
    ASSUME OfficeInv, NEW s \in Places, Deliver(s)
    PROVE  OfficeInv'
PROOF
<1> USE DEF Deliver
<1>1. OfficeTypes /\ DeskOK(Desk) /\ SlotCoded /\ NoneTooMany
  BY DEF OfficeInv
<1>2. OfficeTypes'
  BY <1>1 DEF OfficeTypes, Surroundings, panel
<1>3. /\ IsDesk(Desk)' /\ Desk'.shot = Desk.shot /\ Desk'.tx = Desk.tx /\ Desk'.rx = Desk.rx
      /\ Desk'.active = Desk.active /\ Desk'.link = Desk.link /\ Desk'.back = Desk.back
      /\ Desk'.coded = Desk.coded /\ Desk'.sent = Desk.sent
      /\ Desk.air = air /\ Desk'.air = [air EXCEPT ![s] = Tail(@)]
  BY DEF Desk, IsDesk, desk
<1>4. setup' = setup /\ \A cod, x, text : IsCoded(cod, x, text)' <=> IsCoded(cod, x, text)
  BY DEF IsCoded
<1>5. /\ air \in [Places -> Seq(Texts)] /\ \A x \in Places : Len(air[x]) <= MaxInFlight
      /\ \A x \in Places : \A i \in DOMAIN air[x] : IsCoded(coded, x, air[x][i])
  BY <1>1, DeskFields DEF DeskOK, DeskTypes, DeskCoded
<1>6. /\ Len(air[s]) \in Nat \ {0} /\ Tail(air[s]) \in Seq(Texts)
      /\ DOMAIN air[s] = 1 .. Len(air[s])
      /\ Len(Tail(air[s])) = Len(air[s]) - 1 /\ DOMAIN Tail(air[s]) = 1 .. Len(air[s]) - 1
      /\ \A i \in 1 .. Len(air[s]) - 1 : Tail(air[s])[i] = air[s][i + 1]
      /\ Head(air[s]) = air[s][1]
  BY <1>5, HeadTailProperties, EmptySeq
<1>7. /\ Desk'.air \in [Places -> Seq(Texts)]
      /\ \A x \in Places : Len(Desk'.air[x]) <= MaxInFlight
  BY <1>3, <1>5, <1>6, Bounds
<1>8. \A x \in Places : \A i \in DOMAIN Desk'.air[x] : IsCoded(coded, x, Desk'.air[x][i])
  <2>1. \A i \in DOMAIN Tail(air[s]) : IsCoded(coded, s, Tail(air[s])[i])
    BY <1>5, <1>6
  <2>2. ASSUME NEW x \in Places, x # s
        PROVE  Desk'.air[x] = air[x]
    BY <1>3, <1>5, <2>2
  <2>3. Desk'.air[s] = Tail(air[s])
    BY <1>3, <1>5
  <2> QED
    BY <1>5, <2>1, <2>2, <2>3
<1>9. DeskOK(Desk)'
  <2>1. Desk.coded = coded
    BY DeskFields
  <2>2. DeskTypes(Desk)'
    BY <1>1, <1>3, <1>7 DEF DeskOK, DeskTypes
  <2>3. DeskCoded(Desk)'
    BY <1>1, <1>3, <1>4, <1>8, <2>1 DEF DeskOK, DeskCoded
  <2> QED
    BY <2>2, <2>3 DEF DeskOK
<1>10. SlotCoded'
  <2>1. IsCoded(coded, s, Head(air[s]))
    BY <1>5, <1>6
  <2>2. coded' = coded /\ slot' = [slot EXCEPT ![s] = Head(air[s])]
    BY DEF desk
  <2>3. \A x \in Places : slot'[x] = IF x = s THEN Head(air[s]) ELSE slot[x]
    BY <1>1, <2>2 DEF OfficeTypes
  <2> QED
    BY <1>1, <1>4, <2>1, <2>2, <2>3 DEF SlotCoded
<1>11. NoneTooMany'
  BY <1>1, <1>3 DEF NoneTooMany, Due, ToTrigger, panel
<1> QED
  BY <1>2, <1>9, <1>10, <1>11 DEF OfficeInv

\* A field unit takes its control, and indicates while there is room on the way.
LEMMA CycleKeepsInv ==
    ASSUME OfficeInv, NEW s \in Places, FieldCycle(s)
    PROVE  OfficeInv'
PROOF
<1> DEFINE indicates == setup.peer = "cyclic" \/ told[s] # plant[s]
           m == [from |-> s, at |-> plant[s]]
<1>1. OfficeTypes /\ DeskOK(Desk) /\ SlotCoded /\ NoneTooMany
  BY DEF OfficeInv
<1>2. /\ indicates => Cardinality({i \in DOMAIN back : back[i].from = s}) < MaxInFlight
      /\ slot' = [slot EXCEPT ![s] = None]
      /\ told' = IF indicates THEN [told EXCEPT ![s] = plant[s]] ELSE told
      /\ back' = IF indicates /\ link # "down" THEN Append(back, m) ELSE back
      /\ UNCHANGED <<setup, panel, desk, air, plant, failures>>
  BY DEF FieldCycle
<1>3. obeyed' = [x \in Places |-> obeyed'[x]]
  <2>1. obeyed = [x \in Places |-> obeyed[x]]
    BY <1>1 DEF OfficeTypes
  <2>2. obeyed' = obeyed \/ \E heard : obeyed' = [obeyed EXCEPT ![s] = heard]
    BY DEF FieldCycle
  <2> QED
    BY <2>1, <2>2
<1>4. OfficeTypes'
  <2>1. told' \in [Places -> Nat] /\ \A x \in Places : told'[x] \in DOMAIN IndicationAt[x]
    BY <1>1, <1>2 DEF OfficeTypes, Surroundings
  <2>2. slot' = [x \in Places |-> slot'[x]]
    BY <1>1, <1>2 DEF OfficeTypes
  <2> QED
    BY <1>1, <1>2, <1>3, <2>1, <2>2 DEF OfficeTypes, Surroundings, panel
<1>5. /\ IsDesk(Desk)' /\ Desk'.shot = Desk.shot /\ Desk'.tx = Desk.tx /\ Desk'.rx = Desk.rx
      /\ Desk'.active = Desk.active /\ Desk'.link = Desk.link /\ Desk'.air = Desk.air
      /\ Desk'.coded = Desk.coded /\ Desk'.sent = Desk.sent /\ Desk'.back = back'
  BY <1>2 DEF Desk, IsDesk, desk
<1>6. setup' = setup /\ \A cod, x, text : IsCoded(cod, x, text)' <=> IsCoded(cod, x, text)
  BY <1>2 DEF IsCoded
<1>7. back \in Seq(IndicationsSent) /\ \A x \in Places : Count(back, From(x)) <= MaxInFlight
  BY <1>1, DeskFields DEF DeskOK, DeskTypes
<1>8. back' \in Seq(IndicationsSent) /\ \A x \in Places : Count(back', From(x)) <= MaxInFlight
  <2>1. CASE back' = back
    BY <1>7, <2>1
  <2>2. CASE indicates /\ back' = Append(back, m)
    <3>1. m \in IndicationsSent
      BY <1>1 DEF IndicationsSent, OfficeTypes
    <3>2. {i \in DOMAIN back : back[i].from = s} = PlacesOf(back, From(s))
      <4>1. \A i \in DOMAIN back : back[i] \in IndicationsSent
        BY <1>7
      <4> QED
        BY <4>1 DEF PlacesOf, From
    <3>3. Count(back, From(s)) < MaxInFlight
      BY <1>2, <2>2, <3>2 DEF Count
    <3>4. ASSUME NEW x \in Places
          PROVE  Count(back', From(x)) <= MaxInFlight
      <4>1. Count(back, From(x)) \in Nat
        BY <1>7, CountType
      <4>2. Count(back', From(x)) = Count(back, From(x)) + (IF m \in From(x) THEN 1 ELSE 0)
        BY <1>7, <2>2, <3>1, CountAppend
      <4>3. m \in From(x) <=> x = s
        BY <3>1 DEF From
      <4> QED
        BY <1>7, <3>3, <4>1, <4>2, <4>3, Bounds
    <3>5. Append(back, m) \in Seq(IndicationsSent)
      BY <1>7, <3>1, AppendProperties
    <3> QED
      BY <2>2, <3>4, <3>5
  <2> QED
    BY <1>2, <2>1, <2>2
<1>9. DeskOK(Desk)'
  <2>1. DeskTypes(Desk)'
    BY <1>1, <1>5, <1>8 DEF DeskOK, DeskTypes
  <2>2. DeskCoded(Desk)'
    BY <1>1, <1>5, <1>6 DEF DeskOK, DeskCoded
  <2> QED
    BY <2>1, <2>2 DEF DeskOK
<1>10. SlotCoded'
  <2>1. coded' = coded
    BY <1>2 DEF desk
  <2>2. \A x \in Places : slot'[x] = IF x = s THEN None ELSE slot[x]
    BY <1>1, <1>2 DEF OfficeTypes
  <2> QED
    BY <1>1, <1>6, <2>1, <2>2 DEF SlotCoded
<1>11. NoneTooMany'
  BY <1>1, <1>2, <1>5 DEF NoneTooMany, Due, ToTrigger, panel
<1> QED
  BY <1>4, <1>9, <1>10, <1>11 DEF OfficeInv

\* A move of a plant keeps the invariant.
LEMMA PlantKeepsInv ==
    ASSUME OfficeInv, NEW s \in Places, PlantMoves(s)
    PROVE  OfficeInv'
PROOF
<1> USE DEF PlantMoves
<1>1. OfficeTypes /\ DeskOK(Desk) /\ SlotCoded /\ NoneTooMany
  BY DEF OfficeInv
<1>2. OfficeTypes'
  <2>1. plant' \in [Places -> Nat] /\ \A x \in Places : plant'[x] \in DOMAIN IndicationAt[x]
    BY <1>1, OfficeAssumption DEF OfficeTypes
  <2> QED
    BY <1>1, <2>1 DEF OfficeTypes, Surroundings, panel
<1>3. DeskOK(Desk)' /\ \A s2 \in Places : Due(Desk, s2)' = Due(Desk, s2)
  BY <1>1, DeskKept DEF panel
<1>4. SlotCoded'
  BY <1>1 DEF SlotCoded, IsCoded, desk
<1>5. NoneTooMany'
  BY <1>1, <1>3 DEF NoneTooMany, panel
<1> QED
  BY <1>2, <1>3, <1>4, <1>5 DEF OfficeInv

\* The window of the alignment closes.
LEMMA AlignmentKeepsInv == ASSUME OfficeInv, AlignmentEnds PROVE OfficeInv'
PROOF
<1> USE DEF AlignmentEnds
<1>1. OfficeTypes /\ DeskOK(Desk) /\ SlotCoded /\ NoneTooMany
  BY DEF OfficeInv
<1>2. OfficeTypes'
  BY <1>1 DEF OfficeTypes, Surroundings, panel, field
<1>3. /\ IsDesk(Desk)' /\ Desk'.shot = Desk.shot /\ Desk'.tx = Desk.tx /\ Desk'.rx = Desk.rx
      /\ Desk'.active = Desk.active /\ Desk'.link = "up" /\ Desk'.air = Desk.air
      /\ Desk'.back = Desk.back /\ Desk'.coded = Desk.coded /\ Desk'.sent = Desk.sent
  BY DEF Desk, IsDesk
<1>4. setup' = setup /\ \A cod, s, text : IsCoded(cod, s, text)' <=> IsCoded(cod, s, text)
  BY DEF IsCoded
<1>5. DeskOK(Desk)'
  BY <1>1, <1>3, <1>4 DEF DeskOK, DeskTypes, DeskCoded
<1>6. SlotCoded'
  BY <1>1, <1>4 DEF SlotCoded, field
<1>7. NoneTooMany'
  BY <1>1, <1>3 DEF NoneTooMany, Due, ToTrigger, panel
<1> QED
  BY <1>2, <1>5, <1>6, <1>7 DEF OfficeInv

\* Every step keeps the invariant.
LEMMA OfficeStep == OfficeInv /\ [Next]_vars => OfficeInv'
PROOF
<1> SUFFICES ASSUME OfficeInv, [Next]_vars
             PROVE  OfficeInv'
  OBVIOUS
<1>1. ASSUME NEW answered \in IF link = "down" THEN BOOLEAN ELSE {TRUE},
             NEW elapsed \in IF active = None THEN {TRUE} ELSE BOOLEAN,
             DeskLoop(answered, elapsed)
      PROVE  OfficeInv'
  BY <1>1, LoopKeepsInv
<1>2. CASE AlignmentEnds
  BY <1>2, AlignmentKeepsInv
<1>3. CASE ConnectionLost
  BY <1>3, LossKeepsInv
<1>4. CASE DeskRestart
  BY <1>4, RestartKeepsInv
<1>5. ASSUME NEW c \in DOMAIN Columns, MoveLever(c) \/ PressCode(c) \/ ReleaseCode(c)
      PROVE  OfficeInv'
  BY <1>5, LeverKeepsInv, PressKeepsInv, ReleaseKeepsInv
<1>6. ASSUME NEW s \in Places, Deliver(s) \/ FieldCycle(s) \/ PlantMoves(s)
      PROVE  OfficeInv'
  BY <1>6, DeliverKeepsInv, CycleKeepsInv, PlantKeepsInv
<1>7. CASE UNCHANGED vars
  <2>1. OfficeTypes /\ DeskOK(Desk) /\ SlotCoded /\ NoneTooMany
    BY DEF OfficeInv
  <2>2. UNCHANGED <<setup, panel, desk, air, back, field, failures>>
    BY <1>7 DEF vars
  <2>3. OfficeTypes'
    BY <2>1, <2>2 DEF OfficeTypes, Surroundings, panel, field
  <2>4. DeskOK(Desk)' /\ \A s \in Places : Due(Desk, s)' = Due(Desk, s)
    BY <2>1, <2>2, DeskKept DEF panel
  <2>5. SlotCoded' /\ NoneTooMany'
    BY <2>1, <2>2, <2>4 DEF SlotCoded, IsCoded, NoneTooMany, desk, field, panel
  <2> QED
    BY <2>3, <2>4, <2>5 DEF OfficeInv
<1> QED
  BY <1>1, <1>2, <1>3, <1>4, <1>5, <1>6, <1>7 DEF Next

\* The inductive invariant of the desk, the code line and the field units.
THEOREM OfficeInvariant == Spec => []OfficeInv
  BY OfficeInitially, OfficeStep, PTL DEF Spec

-----------------------------------------------------------------------------
(* What it implies.                                                        *)

\* The invariant contains the type invariant of the office.
LEMMA InvImpliesTypes == OfficeInv => TypeOK
PROOF
<1> SUFFICES ASSUME OfficeInv
             PROVE  TypeOK
  OBVIOUS
<1>1. OfficeTypes /\ DeskTypes(Desk)
  BY DEF OfficeInv, DeskOK
<1>2. /\ shot \in [DOMAIN Columns -> {"WAITING", "ARMED", "TRIGGERED"}]
      /\ tx \in Seq(ControlsSent) /\ Len(tx) <= TxCapacity
      /\ rx \in Seq(IndicationsSent) /\ Len(rx) <= RxCapacity
      /\ link \in {"up", "aligning", "down"}
      /\ \A s \in Places : Len(air[s]) <= MaxInFlight
      /\ back \in Seq(IndicationsSent)
      /\ \A s \in Places : Count(back, From(s)) <= MaxInFlight
  BY <1>1, DeskFields DEF DeskTypes
<1>3. \A m \in Range(tx) : m.to \in Places
  BY <1>2, MessageFacts DEF Range
<1>4. \A m \in Range(rx) : m.from \in Places
  BY <1>2, MessageFacts DEF Range
<1>5. \A m \in Range(back) : m.from \in Places /\ m.at \in DOMAIN IndicationAt[m.from]
  BY <1>2, MessageFacts DEF Range
<1>6. ASSUME NEW s \in Places
      PROVE  Cardinality({i \in DOMAIN back : back[i].from = s}) <= MaxInFlight
  <2>1. \A i \in DOMAIN back : back[i] \in IndicationsSent
    BY <1>2
  <2>2. {i \in DOMAIN back : back[i].from = s} = PlacesOf(back, From(s))
    BY <2>1 DEF PlacesOf, From
  <2> QED
    BY <1>2, <2>2 DEF Count
<1>7. failures \in 0 .. setup.failures
  <2>1. setup.failures \in Nat
    BY <1>1, OfficeAssumption DEF OfficeTypes, Surroundings
  <2> QED
    BY <1>1, <2>1 DEF OfficeTypes
<1> QED
  BY <1>1, <1>2, <1>3, <1>4, <1>5, <1>6, <1>7 DEF TypeOK, OfficeTypes, Surroundings

\* What is due, counted by the invariant, is what OneControlPerCode counts.
LEMMA InvImpliesOneControl == OfficeInv => OneControlPerCode
PROOF
<1> SUFFICES ASSUME OfficeInv, NEW s \in Places
             PROVE  sent[s] + StillToSend(s) <= released[s]
  BY DEF OneControlPerCode
<1>1. DeskTypes(Desk) /\ Due(Desk, s) <= released[s]
  BY DEF OfficeInv, DeskOK, NoneTooMany
<1>2. tx \in Seq(ControlsSent) /\ active \in ControlsSent \cup IndicationsSent \cup {None}
  BY <1>1, DeskFields DEF DeskTypes
<1>3. {c \in DOMAIN Columns : /\ Columns[c].station = s
                              /\ \/ shot[c] = "TRIGGERED"
                                 \/ shot[c] = "ARMED" /\ ~button[c]} = ToTrigger(Desk, s)
  BY DeskFields DEF ToTrigger
<1>4. {i \in DOMAIN tx : tx[i].to = s} = PlacesOf(tx, To(s))
  <2>1. \A i \in DOMAIN tx : tx[i] \in ControlsSent
    BY <1>2
  <2> QED
    BY <2>1 DEF PlacesOf, To
<1>5. active # None /\ ~Inbound(active) /\ active.to = s <=> active # None /\ active \in To(s)
  BY <1>2, MessageFacts DEF To
<1>6. /\ Due(Desk, s) \in Nat /\ Desk.sent[s] \in Nat
      /\ Cardinality(ToTrigger(Desk, s)) \in Nat /\ Count(Desk.tx, To(s)) \in Nat
  BY <1>1, DueType
<1>7. PICK k \in {0, 1} :
        /\ k = IF active # None /\ active \in To(s) THEN 1 ELSE 0
        /\ Due(Desk, s) = Desk.sent[s] + Cardinality(ToTrigger(Desk, s))
                          + Count(Desk.tx, To(s)) + k
  BY DeskFields DEF Due
<1>8. StillToSend(s) = Cardinality(ToTrigger(Desk, s)) + Count(Desk.tx, To(s)) + k
  BY <1>3, <1>4, <1>5, <1>7, DeskFields DEF StillToSend, Count
<1>9. Desk.sent[s] = sent[s]
  BY DeskFields
<1> QED
  BY <1>1, <1>6, <1>7, <1>8, <1>9

\* The queues of the desk and the network stay within their capacities, in
\* every build and over lost connections and restarts, and what is played,
\* queued or on its way belongs to a station of the desk.
THEOREM TypeCorrect == Spec => []TypeOK
  BY OfficeInvariant, InvImpliesTypes, PTL

\* A station gets no more controls than its CODE button was pressed and let go
\* for: none is coded twice by a button that is held, by a pass of the loop, by
\* the display cycle or by a restart.
THEOREM NoControlTooMany == Spec => []OneControlPerCode
  BY OfficeInvariant, InvImpliesOneControl, PTL

-----------------------------------------------------------------------------
(* What the line does to a control, from the levers to the functions the   *)
(* field unit takes it for.                                                *)

\* What the levers of a station can demand: nothing but what is asserted by a
\* function of the wire.
LEMMA HarvestedFacts ==
    ASSUME NEW s, NEW lv, NEW i \in Indices, NEW ctl, ctl = Harvested(lv, s)
    PROVE  /\ ctl.switch[i] \in {"NORMAL", "REVERSE", "NO_CHANGE"}
           /\ ctl.signal[i] \in {"RIGHT", "LEFT", "STOP", "NO_CHANGE"}
           /\ ctl.lock[i] = "NO_CHANGE"
PROOF
<1>1. \A l : SwitchLever(l) \in {"NORMAL", "REVERSE", "NO_CHANGE"}
  BY DEF SwitchLever
<1>2. \A l : SignalLever(l) \in {"RIGHT", "LEFT", "STOP"}
  BY DEF SignalLever
<1>3. ctl.switch[i] \in {"NORMAL", "REVERSE", "NO_CHANGE"}
  BY <1>1 DEF Harvested, NoControls
<1>4. ctl.signal[i] \in {"RIGHT", "LEFT", "STOP", "NO_CHANGE"}
  BY <1>2 DEF Harvested, NoControls
<1>5. ctl.lock[i] = "NO_CHANGE"
  BY DEF Harvested, NoControls
<1> QED
  BY <1>3, <1>4, <1>5

\* An appliance of the desk asserts functions of its own type only.
LEMMA DeskAsserts ==
    ASSUME NEW s \in Places, NEW lv, NEW i \in DOMAIN FieldControls[s]
    PROVE  AssertedControls(DeskControls[s][i], Harvested(lv, s))
               \subseteq RolesOf(FieldControls[s], ControlRoles, i)
PROOF
<1>1. PICK e : e = DeskControls[s][i]
  OBVIOUS
<1>2. PICK ctl : ctl = Harvested(lv, s)
  OBVIOUS
<1>3. /\ e.type = FieldControls[s][i].type /\ e.index \in Indices
      /\ e.type \in {"SWITCH", "SIGNAL", "ELECTRIC_LOCK", "MAINTAINER"}
  BY <1>1, SchemaAssumption DEF SameWire, Controllable
<1>4. /\ ctl.switch[e.index] \in {"NORMAL", "REVERSE", "NO_CHANGE"}
      /\ ctl.signal[e.index] \in {"RIGHT", "LEFT", "STOP", "NO_CHANGE"}
      /\ ctl.lock[e.index] = "NO_CHANGE"
  BY <1>2, <1>3, HarvestedFacts
<1>5. CASE e.type = "SWITCH"
  <2>1. AssertedControls(e, ctl) \subseteq {"NW", "RW"}
    BY <1>4, <1>5, AssertedFor DEF SwitchWire
  <2> QED
    BY <1>1, <1>2, <1>3, <1>5, <2>1, RoleFacts DEF RolesOf
<1>6. CASE e.type = "SIGNAL"
  <2>1. AssertedControls(e, ctl) \subseteq {"SG", "NG", "H"}
    BY <1>4, <1>6, AssertedFor DEF SignalWire
  <2> QED
    BY <1>1, <1>2, <1>3, <1>6, <2>1, RoleFacts DEF RolesOf
<1>7. CASE e.type = "ELECTRIC_LOCK"
  <2>1. AssertedControls(e, ctl) = {}
    BY <1>4, <1>7, AssertedFor
  <2> QED
    BY <1>1, <1>2, <2>1
<1>8. CASE e.type = "MAINTAINER"
  <2>1. AssertedControls(e, ctl) \subseteq {Sole}
    BY <1>8, AssertedFor
  <2> QED
    BY <1>1, <1>2, <1>3, <1>8, <2>1, RoleFacts DEF RolesOf
<1> QED
  BY <1>3, <1>5, <1>6, <1>7, <1>8

\* Two appliances of one name that have a function in common are the same.
LEMMA SameAppliance ==
    ASSUME NEW schema, Controllable(schema), NEW i \in DOMAIN schema, NEW j \in DOMAIN schema,
           schema[i].name = schema[j].name,
           NEW r \in RolesOf(schema, ControlRoles, i), r \in RolesOf(schema, ControlRoles, j)
    PROVE  i = j
PROOF
<1>1. /\ schema[i].type \in {"SWITCH", "SIGNAL", "ELECTRIC_LOCK", "MAINTAINER"}
      /\ schema[j].type \in {"SWITCH", "SIGNAL", "ELECTRIC_LOCK", "MAINTAINER"}
  BY DEF Controllable
<1>2. schema[i].type = schema[j].type
  BY <1>1, RoleFacts DEF RolesOf, Sole
<1> QED
  BY <1>2 DEF Controllable

\* Functions of an appliance that are consistent are one and the same.
LEMMA ConsistentIsOne ==
    ASSUME NEW schema, Controllable(schema), NEW i \in DOMAIN schema,
           NEW h, h \subseteq RolesOf(schema, ControlRoles, i), Consistent(schema[i].type, h),
           NEW x \in h, NEW y \in h
    PROVE  x = y
PROOF
<1>1. schema[i].type \in {"SWITCH", "SIGNAL", "ELECTRIC_LOCK", "MAINTAINER"}
  BY DEF Controllable
<1>2. ASSUME NEW S, IsFiniteSet(S), h \subseteq S, Cardinality(h \cap S) <= 1
      PROVE  x = y
  <2>1. h = h \cap S /\ IsFiniteSet(h)
    BY <1>2, FS_Subset
  <2> QED
    BY <1>2, <2>1, AtMostOne
<1>3. CASE schema[i].type = "SWITCH"
  <2>1. IsFiniteSet({"NW", "RW"})
    <3>1. IsFiniteSet({"NW"} \cup {"RW"})
      BY FS_Singleton, FS_AddElement
    <3>2. {"NW"} \cup {"RW"} = {"NW", "RW"}
      OBVIOUS
    <3> QED
      BY <3>1, <3>2
  <2>2. h \subseteq {"NW", "RW"} /\ Cardinality(h \cap {"NW", "RW"}) <= 1
    BY <1>3, RoleFacts DEF RolesOf, Consistent, Exclusive
  <2> QED
    BY <1>2, <2>1, <2>2
<1>4. CASE schema[i].type = "SIGNAL"
  <2>1. IsFiniteSet({"SG", "NG", "H"})
    <3>1. IsFiniteSet({"SG"} \cup {"NG"} \cup {"H"})
      BY FS_Singleton, FS_AddElement
    <3>2. {"SG"} \cup {"NG"} \cup {"H"} = {"SG", "NG", "H"}
      OBVIOUS
    <3> QED
      BY <3>1, <3>2
  <2>2. h \subseteq {"SG", "NG", "H"} /\ Cardinality(h \cap {"SG", "NG", "H"}) <= 1
    BY <1>4, RoleFacts DEF RolesOf, Consistent, Exclusive
  <2> QED
    BY <1>2, <2>1, <2>2
<1>5. CASE schema[i].type \in {"ELECTRIC_LOCK", "MAINTAINER"}
  BY <1>5, RoleFacts DEF RolesOf
<1> QED
  BY <1>1, <1>3, <1>4, <1>5

\* The functions of some roles per entry, by name.
Named(schema, f) ==
    UNION {{<<schema[i].name, x>> : x \in f[i]} : i \in DOMAIN schema}

\* A text that is accepted is taken for the functions it was heard to assert.
LEMMA TextTakenFor ==
    ASSUME NEW s \in Places, NEW text, NEW taken, taken = Heard("text", s, text), taken # None
    PROVE  /\ Accepted(FieldControls[s], ControlRoles, "S", text)
           /\ taken = Named(FieldControls[s],
                            [i \in DOMAIN FieldControls[s] |->
                                HeardRoles(FieldControls[s], ControlRoles, text, i)])
PROOF
<1>1. PICK schema : schema = FieldControls[s]
  OBVIOUS
<1>2. PICK ctl : ctl = DecodeControls(schema, text)
  OBVIOUS
<1>3. ctl.vitalValid = Accepted(schema, ControlRoles, "S", text)
  BY <1>2, Zenon DEF DecodeControls, ControlsHeard
<1>4. taken = IF ctl.vitalValid THEN Functions(schema, ctl) ELSE None
  BY <1>1, <1>2 DEF Heard
<1>5. Accepted(schema, ControlRoles, "S", text) /\ taken = Functions(schema, ctl)
  BY <1>3, <1>4
<1>6. \A i \in DOMAIN schema :
          AssertedControls(schema[i], ctl) = HeardRoles(schema, ControlRoles, text, i)
  BY <1>1, <1>2, <1>5, DecodedAsHeard, SchemaAssumption
<1>7. Functions(schema, ctl) =
          Named(schema, [i \in DOMAIN schema |-> AssertedControls(schema[i], ctl)])
  BY DEF Functions, Named
<1>8. [i \in DOMAIN schema |-> AssertedControls(schema[i], ctl)] =
          [i \in DOMAIN schema |-> HeardRoles(schema, ControlRoles, text, i)]
  BY <1>6
<1> QED
  BY <1>1, <1>5, <1>7, <1>8

\* A control text, whole or cut anywhere, is refused or taken for what was
\* coded, which may have the last function of the station added.
LEMMA TextsAsCoded ==
    ASSUME NEW s \in Places, NEW lv, NEW ctl, ctl = Harvested(lv, s),
           NEW r \in Read("text", ControlMessage("text", s, ctl)),
           NEW taken, taken = Heard("text", s, r), taken # None
    PROVE  taken \in Reading(s, Functions(DeskControls[s], ctl))
PROOF
<1>1. PICK desks : desks = DeskControls[s]
  OBVIOUS
<1>2. PICK schema : schema = FieldControls[s]
  OBVIOUS
<1>3. /\ SameWire(desks, schema) /\ Controllable(schema) /\ IsSchema(schema, ControlRoles)
      /\ DOMAIN desks = DOMAIN schema
      /\ \A i \in DOMAIN schema : desks[i].name = schema[i].name
  BY <1>1, <1>2, SchemaAssumption DEF Controllable, SameWire
<1>4. PICK asserted : asserted = [i \in DOMAIN desks |-> AssertedControls(desks[i], ctl)]
  OBVIOUS
<1>5. OfSchema(schema, ControlRoles, asserted)
  BY <1>1, <1>2, <1>3, <1>4, DeskAsserts DEF OfSchema
<1>6. PICK whole : whole = WriteTokens(desks, ControlRoles, "S", asserted)
  OBVIOUS
<1>7. r \in {whole} \cup CutShort(whole)
  BY <1>1, <1>4, <1>6 DEF Read, ControlMessage, EncodeControls
<1>8. PICK heard : heard = [i \in DOMAIN schema |-> HeardRoles(schema, ControlRoles, r, i)]
  OBVIOUS
<1>9. /\ Accepted(schema, ControlRoles, "S", r) /\ taken = Named(schema, heard)
      /\ Functions(desks, ctl) = Named(schema, asserted)
  <2>1. Accepted(schema, ControlRoles, "S", r) /\ taken = Named(schema, heard)
    BY <1>2, <1>8, TextTakenFor
  <2>2. Functions(desks, ctl) = Named(schema, asserted)
    BY <1>3, <1>4 DEF Functions, Named
  <2> QED
    BY <2>1, <2>2
<1>10. \/ Asserts(schema, ControlRoles, r, asserted)
       \/ AssertsLastToo(schema, ControlRoles, r, asserted)
  BY <1>3, <1>5, <1>6, <1>7, <1>9, CutTexts
<1>11. CASE Asserts(schema, ControlRoles, r, asserted)
  <2>1. Named(schema, heard) = Named(schema, asserted)
    BY <1>8, <1>11 DEF Asserts, Named
  <2> QED
    BY <1>1, <1>9, <2>1 DEF Reading
<1>12. CASE AssertsLastToo(schema, ControlRoles, r, asserted)
  <2>1. PICK last : last = LastOf(schema, ControlRoles)
    OBVIOUS
  <2>2. /\ last.entry \in DOMAIN schema
        /\ last.role \in RolesOf(schema, ControlRoles, last.entry)
        /\ last.role \notin asserted[last.entry]
        /\ \A i \in DOMAIN schema :
              heard[i] = asserted[i] \cup (IF i = last.entry THEN {last.role} ELSE {})
    BY <1>8, <1>12, <2>1 DEF AssertsLastToo
  <2>3. PICK fn : fn = <<schema[last.entry].name, last.role>>
    OBVIOUS
  <2>4. PICK others : others = {<<schema[last.entry].name, x>> :
                                   x \in RolesOf(schema, ControlRoles, last.entry)}
    OBVIOUS
  <2>5. LastTerm(s).fn = fn /\ LastTerm(s).others = others
    BY <1>2, <2>1, <2>3, <2>4 DEF LastTerm, Last, LastOf, RolesOf
  <2>6. heard[last.entry] \subseteq RolesOf(schema, ControlRoles, last.entry)
    BY <1>5, <2>2 DEF OfSchema
  <2>7. Consistent(schema[last.entry].type, heard[last.entry])
    BY <1>3, <1>8, <1>9, <2>2, SchemasWired, HeardForEntry
  <2>8. asserted[last.entry] = {}
    BY <1>3, <2>2, <2>6, <2>7, ConsistentIsOne
  <2>9. Named(schema, asserted) \cap others = {}
    <3> SUFFICES ASSUME NEW i \in DOMAIN schema, NEW x \in asserted[i],
                        NEW y \in RolesOf(schema, ControlRoles, last.entry),
                        <<schema[i].name, x>> = <<schema[last.entry].name, y>>
                 PROVE  FALSE
      BY <2>4 DEF Named
    <3>1. x = y /\ schema[i].name = schema[last.entry].name
      OBVIOUS
    <3>2. x \in RolesOf(schema, ControlRoles, i)
      BY <1>5 DEF OfSchema
    <3>3. i = last.entry
      BY <1>3, <2>2, <3>1, <3>2, SameAppliance
    <3> QED
      BY <2>8, <3>3
  <2>10. Named(schema, heard) = Named(schema, asserted) \cup {fn}
    BY <2>2, <2>3 DEF Named
  <2> QED
    BY <1>1, <1>9, <2>5, <2>9, <2>10 DEF Reading
<1> QED
  BY <1>10, <1>11, <1>12

\* What an appliance of the desk asserts is one function at most.
LEMMA DeskAssertsOne ==
    ASSUME NEW s \in Places, NEW lv, NEW i \in DOMAIN FieldControls[s]
    PROVE  Consistent(FieldControls[s][i].type,
                      AssertedControls(DeskControls[s][i], Harvested(lv, s)))
PROOF
<1>1. PICK e : e = DeskControls[s][i]
  OBVIOUS
<1>2. PICK ctl : ctl = Harvested(lv, s)
  OBVIOUS
<1>3. /\ e.type = FieldControls[s][i].type /\ e.index \in Indices
      /\ e.type \in {"SWITCH", "SIGNAL", "ELECTRIC_LOCK", "MAINTAINER"}
  BY <1>1, SchemaAssumption DEF SameWire, Controllable
<1>4. /\ ctl.switch[e.index] \in {"NORMAL", "REVERSE", "NO_CHANGE"}
      /\ ctl.signal[e.index] \in {"RIGHT", "LEFT", "STOP", "NO_CHANGE"}
  BY <1>2, <1>3, HarvestedFacts
<1>5. ASSUME NEW h, NEW E, h = {} \/ \E x : h = {x}
      PROVE  Cardinality(h \cap E) <= 1
  <2>1. PICK both : both = h \cap E
    OBVIOUS
  <2>2. both = {} \/ \E x : both = {x}
    BY <1>5, <2>1
  <2>3. CASE both = {}
    <3>1. Cardinality(both) = 0
      BY <2>3, FS_EmptySet
    <3> QED
      BY <2>1, <3>1
  <2>4. CASE \E x : both = {x}
    <3>1. Cardinality(both) = 1
      BY <2>4, FS_Singleton
    <3> QED
      BY <2>1, <3>1
  <2> QED
    BY <2>2, <2>3, <2>4
<1>6. CASE e.type = "SWITCH"
  <2>1. PICK h : h = AssertedControls(e, ctl)
    OBVIOUS
  <2>2. h = {} \/ \E x : h = {x}
    BY <1>4, <1>6, <2>1, AssertedFor DEF SwitchWire
  <2> QED
    BY <1>1, <1>2, <1>3, <1>5, <2>1, <2>2 DEF Consistent
<1>7. CASE e.type = "SIGNAL"
  <2>1. PICK h : h = AssertedControls(e, ctl)
    OBVIOUS
  <2>2. h = {} \/ h = {"SG"} \/ h = {"NG"} \/ h = {"H"}
    BY <1>4, <1>7, <2>1, AssertedFor DEF SignalWire
  <2>3. h = {} \/ \E x : h = {x}
    BY <2>2
  <2> QED
    BY <1>1, <1>2, <1>3, <1>5, <2>1, <2>3 DEF Consistent
<1>8. CASE e.type \in {"ELECTRIC_LOCK", "MAINTAINER"}
  BY <1>3, <1>8 DEF Consistent, Exclusive
<1> QED
  BY <1>3, <1>6, <1>7, <1>8

\* The bits of a packed control are those of its functions: the map of each
\* appliance hears what the appliance asserts.
LEMMA PackedBitsHeard ==
    ASSUME NEW s \in Places, NEW schema, schema = FieldControls[s],
           NEW asserted, OfSchema(schema, ControlRoles, asserted),
           NEW frame, frame = PackControls(s, Named(schema, asserted)),
           NEW i \in DOMAIN schema
    PROVE  HeardBits(MapsOf(schema, ControlRoles)[i], frame) = asserted[i]
PROOF
<1>1. PICK start : start = StartBit(schema, ControlRoles)
  OBVIOUS
<1>2. PICK terms : terms = Terms(schema, ControlRoles)
  OBVIOUS
<1>3. PICK functions : functions = Named(schema, asserted)
  OBVIOUS
<1>4. /\ Controllable(schema) /\ IsSchema(schema, ControlRoles)
      /\ \A k \in DOMAIN schema : /\ schema[k].skip \in Nat
                                  /\ schema[k].type \in ControlTypes
  BY SchemaAssumption DEF Controllable, ControlTypes
<1> DEFINE roles(k) == ControlRoles[schema[k].type]
           Place(k, r) == CHOOSE n \in DOMAIN roles(k) : roles(k)[n] = r
           Bit(t) == start[t.entry] + Place(t.entry, t.role) - 1
           fn(t) == <<schema[t.entry].name, t.role>>
<1>5. /\ \A t \in Range(terms) : /\ t.entry \in DOMAIN schema
                                 /\ t.role \in Range(roles(t.entry))
      /\ \A k \in DOMAIN schema : \A r \in Range(roles(k)) :
             \E t \in Range(terms) : t.entry = k /\ t.role = r
  <2>1. /\ \A n \in DOMAIN terms :
                  /\ terms[n].entry \in DOMAIN schema
                  /\ terms[n].role \in RolesOf(schema, ControlRoles, terms[n].entry)
        /\ \A k \in DOMAIN schema : \A r \in RolesOf(schema, ControlRoles, k) :
                  \E n \in DOMAIN terms : terms[n].entry = k /\ terms[n].role = r
    BY <1>2, <1>4, TermsElements
  <2>2. Range(terms) = {terms[n] : n \in DOMAIN terms}
    BY DEF Range
  <2>3. \A k : RolesOf(schema, ControlRoles, k) = Range(roles(k))
    BY DEF RolesOf
  <2> HIDE DEF roles
  <2> QED
    BY <2>1, <2>2, <2>3
<1>6. ASSUME NEW k \in DOMAIN schema, NEW n \in DOMAIN roles(k)
      PROVE  Place(k, roles(k)[n]) = n
  BY <1>4, <1>6, RoleLists DEF RoleList
<1> HIDE DEF Place
<1>7. frame.bits = {Bit(t) : t \in {x \in Range(terms) : fn(x) \in functions}}
  <2> DEFINE item(t) == [fn |-> fn(t), bit |-> Bit(t)]
  <2>1. ControlBits[s] = [t \in Range(terms) |-> item(t)]
    BY <1>1, <1>2 DEF ControlBits, Place
  <2> HIDE DEF Bit, fn
  <2>2. frame.bits = {b.bit : b \in {x \in Range(ControlBits[s]) : x.fn \in functions}}
    BY <1>3 DEF PackControls
  <2>3. \A t : item(t).fn = fn(t) /\ item(t).bit = Bit(t)
    OBVIOUS
  <2> HIDE DEF item
  <2>4. Range(ControlBits[s]) = {item(t) : t \in Range(terms)}
    BY <2>1 DEF Range
  <2> QED
    BY <2>2, <2>3, <2>4
<1>8. ASSUME NEW t \in Range(terms)
      PROVE  fn(t) \in functions <=> t.role \in asserted[t.entry]
  <2>1. t.entry \in DOMAIN schema /\ t.role \in RolesOf(schema, ControlRoles, t.entry)
    BY <1>5 DEF RolesOf
  <2>2. ASSUME NEW k \in DOMAIN schema, NEW r \in asserted[k], fn(t) = <<schema[k].name, r>>
        PROVE  t.role \in asserted[t.entry]
    <3>1. r = t.role /\ schema[k].name = schema[t.entry].name
      BY <2>2
    <3>2. t.role \in RolesOf(schema, ControlRoles, k)
      BY <3>1 DEF OfSchema
    <3>3. k = t.entry
      BY <1>4, <2>1, <3>1, <3>2, SameAppliance
    <3> QED
      BY <3>1, <3>3
  <2> QED
    BY <1>3, <2>1, <2>2 DEF Named
<1>9. ASSUME NEW n \in DOMAIN roles(i)
      PROVE  start[i] + n - 1 \in frame.bits <=> roles(i)[n] \in asserted[i]
  <2>1. PICK t \in Range(terms) : t.entry = i /\ t.role = roles(i)[n]
    BY <1>5 DEF Range
  <2>2. Bit(t) = start[i] + n - 1
    BY <1>6, <2>1
  <2>3. ASSUME roles(i)[n] \in asserted[i]
        PROVE  start[i] + n - 1 \in frame.bits
    BY <1>7, <1>8, <2>1, <2>2, <2>3
  <2>4. ASSUME start[i] + n - 1 \in frame.bits
        PROVE  roles(i)[n] \in asserted[i]
    <3>1. PICK x \in Range(terms) : fn(x) \in functions /\ Bit(x) = start[i] + n - 1
      BY <1>7, <2>4
    <3>2. x.entry \in DOMAIN schema /\ x.role \in Range(roles(x.entry))
      BY <1>5
    <3>3. PICK m \in DOMAIN roles(x.entry) : x.role = roles(x.entry)[m]
      BY <3>2 DEF Range
    <3>4. start[x.entry] + m - 1 = start[i] + n - 1
      BY <1>6, <3>1, <3>2, <3>3
    <3>5. x.entry = i /\ m = n
      BY <1>1, <1>4, <3>2, <3>4, SchemasWired, BitsApart
    <3> QED
      BY <1>8, <3>1, <3>3, <3>5
  <2> QED
    BY <2>3, <2>4
<1>10. PICK m : m = MapsOf(schema, ControlRoles)[i]
  OBVIOUS
<1>11. m.roles = roles(i) /\ m.first = start[i]
  BY <1>1, <1>4, <1>10 DEF MapsOf, BitsOf, ControlTypes
<1>12. asserted[i] \subseteq Range(roles(i))
  BY DEF OfSchema, RolesOf
<1> HIDE DEF roles
<1>13. HeardBits(m, frame) = {roles(i)[k] : k \in {j \in DOMAIN roles(i) :
                                                     start[i] + j - 1 \in frame.bits}}
  BY <1>11 DEF HeardBits
<1> QED
  BY <1>9, <1>10, <1>12, <1>13 DEF Range

\* What the desk coded for the bit-packed line, and the field unit got as a
\* whole, is what it is taken for.
LEMMA WholeFrameAsCoded ==
    ASSUME NEW s \in Places, NEW lv, NEW functions,
           functions = Functions(DeskControls[s], Harvested(lv, s))
    PROVE  Heard("bits", s, PackControls(s, functions)) = functions
PROOF
<1>1. PICK desks : desks = DeskControls[s]
  OBVIOUS
<1>2. PICK schema : schema = FieldControls[s]
  OBVIOUS
<1>3. PICK codec : codec = ControlFrame[s]
  OBVIOUS
<1>4. /\ SameWire(desks, schema) /\ Controllable(schema) /\ IsSchema(schema, ControlRoles)
      /\ DOMAIN desks = DOMAIN schema
      /\ \A i \in DOMAIN schema : desks[i].name = schema[i].name /\ schema[i].skip \in Nat
      /\ MaxEntries \in Nat /\ Len(schema) <= MaxEntries
  BY <1>1, <1>2, SchemaAssumption, OfficeAssumption DEF Controllable, SameWire
<1>5. codec = DeclareBits(NoBits(0), schema, ControlRoles)
  BY <1>2, <1>3 DEF ControlFrame
<1>6. PICK asserted :
          asserted = [i \in DOMAIN schema |-> AssertedControls(desks[i], Harvested(lv, s))]
  OBVIOUS
<1>7. OfSchema(schema, ControlRoles, asserted)
  BY <1>1, <1>2, <1>6, DeskAsserts DEF OfSchema
<1>8. \A i \in DOMAIN schema : Consistent(schema[i].type, asserted[i])
  BY <1>1, <1>2, <1>6, DeskAssertsOne
<1>9. functions = Named(schema, asserted)
  BY <1>1, <1>4, <1>6 DEF Functions, Named
<1>10. PICK frame : frame = PackControls(s, functions)
  OBVIOUS
<1>11. frame.bytes = codec.bytes /\ codec.bytes \in Nat
  <2>1. codec.bytes \in Nat
    BY <1>4, <1>5, CutFrames
  <2> QED
    BY <1>3, <1>10, <2>1 DEF PackControls
<1>12. \A i \in DOMAIN schema : HeardBits(MapsOf(schema, ControlRoles)[i], frame) = asserted[i]
  BY <1>2, <1>7, <1>9, <1>10, PackedBitsHeard
<1>13. PICK ctl : ctl = UnpackControls(codec, frame)
  OBVIOUS
<1>14. /\ UnpackAccepts(codec, frame) /\ ctl.vitalValid
       /\ \A i \in DOMAIN schema : AssertedControls(schema[i], ctl) = asserted[i]
  BY <1>4, <1>5, <1>7, <1>8, <1>11, <1>12, <1>13, UnpackedAsPacked
<1>15. Heard("bits", s, frame) = Functions(schema, ctl)
  BY <1>2, <1>3, <1>13, <1>14 DEF Heard
<1>16. Functions(schema, ctl) = functions
  BY <1>9, <1>14 DEF Functions, Named
<1> QED
  BY <1>10, <1>15, <1>16

\* A frame that lost its end is refused, and a whole one taken for what was
\* coded.
LEMMA FramesAsCoded ==
    ASSUME NEW s \in Places, NEW lv \in Contacts, NEW ctl, ctl = Harvested(lv, s),
           NEW r \in Read("bits", ControlMessage("bits", s, ctl)),
           NEW taken, taken = Heard("bits", s, r), taken # None
    PROVE  taken = Functions(DeskControls[s], ctl)
PROOF
<1>1. PICK functions : functions = Functions(DeskControls[s], ctl)
  OBVIOUS
<1>2. PICK m : m = PackControls(s, functions)
  OBVIOUS
<1>3. m.bytes = ControlFrame[s].bytes
  BY <1>2 DEF PackControls
<1>4. r \in {m} \cup {[bytes |-> n, bits |-> {b \in m.bits : b < 8 * n}] :
                          n \in 0 .. m.bytes - 1}
  BY <1>1, <1>2 DEF Read, ControlMessage
<1>5. CASE r = m
  BY <1>1, <1>2, <1>5, WholeFrameAsCoded
<1>6. CASE r # m
  <2>1. r.bytes \in 0 .. ControlFrame[s].bytes - 1
    BY <1>3, <1>4, <1>6
  <2>2. ControlFrame[s] = DeclareBits(NoBits(0), FieldControls[s], ControlRoles)
    BY DEF ControlFrame
  <2>3. /\ IsSchema(FieldControls[s], ControlRoles)
        /\ \A i \in DOMAIN FieldControls[s] : FieldControls[s][i].skip \in Nat
    BY SchemaAssumption DEF Controllable
  <2>4. ~UnpackAccepts(ControlFrame[s], r)
    BY <2>1, <2>2, <2>3, CutFrames
  <2>5. taken = None
    BY <2>4 DEF Heard
  <2> QED
    BY <2>5
<1> QED
  BY <1>1, <1>5, <1>6

-----------------------------------------------------------------------------
(* What the field units obey: nothing in parts, and on the bit-packed line *)
(* CodedControls.                                                          *)

\* What a field unit takes a coded control for is that control, or one that a
\* cut text may be read as.
LEMMA HeardIsCoded ==
    ASSUME setup \in Setups, NEW s \in Places, NEW text, IsCoded(coded, s, text),
           NEW heard \in OutcomesOf(setup.wire, s, text), heard # None
    PROVE  \E c \in coded[s] : /\ heard \in Reading(s, c)
                               /\ setup.wire = "bits" => heard = c
PROOF
<1>1. PICK k \in Codings : /\ k.station = s /\ k.wire = setup.wire /\ k.message = text
                           /\ k.functions \in coded[s]
  BY DEF IsCoded
<1>2. PICK lv \in Contacts : k = CodingOf(s, setup.wire, lv)
  <2>1. PICK x \in Places \X Wires \X Contacts : k = CodingOf(x[1], x[2], x[3])
    BY DEF Codings
  <2>2. x[1] = s /\ x[2] = setup.wire
    BY <1>1, <2>1 DEF CodingOf
  <2> QED
    BY <2>1, <2>2
<1> DEFINE ctl == Harvested(lv, s)
           functions == Functions(DeskControls[s], ctl)
<1>3. functions \in coded[s] /\ text = ControlMessage(setup.wire, s, ctl)
  BY <1>1, <1>2 DEF CodingOf
<1>4. PICK r \in Read(setup.wire, text) : heard = Heard(setup.wire, s, r)
  <2> DEFINE Outcome(a, w, m) ==
                 [station |-> a, wire |-> w, message |-> m,
                  heard |-> {Heard(w, a, r) : r \in Read(w, m)}]
             T == {<<x.station, x.wire, x.message>> : x \in Codings}
             Found(o) == o.station = s /\ o.wire = setup.wire /\ o.message = text
  <2>1. PICK y : y = <<k.station, k.wire, k.message>>
    OBVIOUS
  <2>2. y \in T /\ y[1] = s /\ y[2] = setup.wire /\ y[3] = text
    BY <1>1, <2>1
  <2> HIDE DEF T
  <2>3. Outcomes = {Outcome(m[1], m[2], m[3]) : m \in T}
    BY DEF Outcomes, T
  <2>4. Outcome(y[1], y[2], y[3]) \in Outcomes
    BY <2>2, <2>3
  <2>5. \E o \in Outcomes : Found(o)
    BY <2>2, <2>4
  <2>6. PICK o \in Outcomes : /\ Found(o)
                              /\ OutcomesOf(setup.wire, s, text) = o.heard
    BY <2>5 DEF OutcomesOf
  <2>7. PICK m \in T : o = Outcome(m[1], m[2], m[3])
    BY <2>3, <2>6
  <2>8. m[1] = s /\ m[2] = setup.wire /\ m[3] = text
    BY <2>6, <2>7
  <2>9. o.heard = {Heard(setup.wire, s, r) : r \in Read(setup.wire, text)}
    BY <2>7, <2>8
  <2> QED
    BY <2>6, <2>9
<1>5. setup.wire \in Wires
  BY OfficeAssumption DEF Wires
<1>6. heard \in {None} \cup (IF setup.wire = "bits" THEN {functions}
                             ELSE Reading(s, functions))
  <2>1. CASE setup.wire = "bits"
    BY <1>3, <1>4, <2>1, FramesAsCoded
  <2>2. CASE setup.wire = "text"
    BY <1>3, <1>4, <2>2, TextsAsCoded
  <2> QED
    BY <1>5, <2>1, <2>2 DEF Wires
<1>7. functions \in Reading(s, functions)
  BY DEF Reading
<1> HIDE DEF functions
<1> QED
  BY <1>3, <1>6, <1>7

\* The field unit's cycle as CodedControls and the frame of the bit-packed line
\* see it.
LEMMA ObeyedInCycle ==
    ASSUME OfficeInv, NEW s \in Places, FieldCycle(s)
    PROVE  \/ obeyed' = obeyed
           \/ \E c \in coded[s] : \E heard \in Reading(s, c) :
                 /\ obeyed' = [obeyed EXCEPT ![s] = heard]
                 /\ setup.wire = "bits" => heard = c
PROOF
<1>1. CASE slot[s] = None
  BY <1>1 DEF FieldCycle
<1>2. CASE slot[s] # None
  <2>1. PICK heard \in OutcomesOf(setup.wire, s, slot[s]) :
            obeyed' = IF heard = None THEN obeyed ELSE [obeyed EXCEPT ![s] = heard]
    BY <1>2 DEF FieldCycle
  <2>2. setup \in Setups /\ IsCoded(coded, s, slot[s])
    BY <1>2 DEF OfficeInv, OfficeTypes, Surroundings, SlotCoded
  <2>3. CASE heard = None
    BY <2>1, <2>3
  <2>4. CASE heard # None
    <3>1. PICK c \in coded[s] : /\ heard \in Reading(s, c)
                                /\ setup.wire = "bits" => heard = c
      BY <2>2, <2>4, HeardIsCoded
    <3> QED
      BY <2>1, <2>4, <3>1
  <2> QED
    BY <2>3, <2>4
<1> QED
  BY <1>1, <1>2

\* At first nothing is coded and nothing obeyed.
LEMMA CodedInitially == Init => Coded!CInit
  BY DEF Init, Coded!CInit

\* A pass of the desk's loop codes one control of a station as its levers stand,
\* or none; a cycle of a field unit on the bit-packed line obeys one that was
\* coded, or none.
LEMMA StepIsCoded ==
    OfficeInv /\ [Next]_vars => [setup.wire = "bits" => Coded!CNext]_(Coded!cvars)
PROOF
<1> SUFFICES ASSUME OfficeInv, [Next]_vars, setup.wire = "bits"
             PROVE  [Coded!CNext]_(Coded!cvars)
  OBVIOUS
<1>1. ASSUME UNCHANGED <<coded, obeyed>>
      PROVE  [Coded!CNext]_(Coded!cvars)
  BY <1>1 DEF Coded!cvars
<1>2. ASSUME NEW answered \in IF link = "down" THEN BOOLEAN ELSE {TRUE},
             NEW elapsed \in IF active = None THEN {TRUE} ELSE BOOLEAN,
             DeskLoop(answered, elapsed)
      PROVE  [Coded!CNext]_(Coded!cvars)
  <2>1. /\ obeyed' = obeyed
        /\ \/ coded' = coded
           \/ \E s \in Places :
                 coded' = [coded EXCEPT ![s] =
                              @ \cup {Coding(setup.wire, s, levers).functions}]
    BY <1>2, LoopPass DEF field
  <2>2. CASE coded' = coded
    BY <1>1, <2>1, <2>2
  <2>3. ASSUME NEW s \in Places,
               coded' = [coded EXCEPT ![s] =
                            @ \cup {Coding(setup.wire, s, levers).functions}]
        PROVE  Coded!CNext
    <3>1. PICK k : k = Coding(setup.wire, s, levers)
      OBVIOUS
    <3>2. k \in Codings /\ k.station = s
      BY <3>1, CodingFacts DEF OfficeInv, OfficeTypes, Surroundings
    <3>3. k.functions \in Controls[s]
      BY <3>2 DEF Controls
    <3>4. Coded!Code(s, k.functions)
      BY <2>1, <2>3, <3>1 DEF Coded!Code
    <3> QED
      BY <3>3, <3>4 DEF Coded!CNext
  <2> QED
    BY <2>1, <2>2, <2>3
<1>3. CASE AlignmentEnds \/ ConnectionLost \/ DeskRestart
  BY <1>1, <1>3 DEF AlignmentEnds, ConnectionLost, DeskRestart, field
<1>4. ASSUME NEW c \in DOMAIN Columns, MoveLever(c) \/ PressCode(c) \/ ReleaseCode(c)
      PROVE  [Coded!CNext]_(Coded!cvars)
  BY <1>1, <1>4 DEF MoveLever, PressCode, ReleaseCode, desk, field
<1>5. ASSUME NEW s \in Places, Deliver(s) \/ PlantMoves(s)
      PROVE  [Coded!CNext]_(Coded!cvars)
  BY <1>1, <1>5 DEF Deliver, PlantMoves, desk
<1>6. ASSUME NEW s \in Places, FieldCycle(s)
      PROVE  [Coded!CNext]_(Coded!cvars)
  <2>1. coded' = coded
    BY <1>6 DEF FieldCycle, desk
  <2>2. CASE obeyed' = obeyed
    BY <1>1, <2>1, <2>2
  <2>3. CASE \E c \in coded[s] : obeyed' = [obeyed EXCEPT ![s] = c]
    BY <2>1, <2>3 DEF Coded!CNext, Coded!Obey
  <2> QED
    BY <1>6, <2>2, <2>3, ObeyedInCycle
<1>7. CASE UNCHANGED vars
  BY <1>1, <1>7 DEF vars, desk, field
<1> QED
  BY <1>2, <1>3, <1>4, <1>5, <1>6, <1>7 DEF Next

\* With the bit-packed line the panel, the queues, the frames and the field
\* units' buffers implement CodedControls: a field unit obeys whole controls
\* only, each one coded at its station with the levers as they stood then.
THEOREM FramesImplement == Spec => FramesImplementCoded
PROOF
<1>1. Init => Coded!CInit
  BY CodedInitially
<1>2. OfficeInv /\ [Next]_vars => [setup.wire = "bits" => Coded!CNext]_(Coded!cvars)
  BY StepIsCoded
<1>3. Spec => []OfficeInv
  BY OfficeInvariant
<1> QED
  BY <1>1, <1>2, <1>3, PTL DEF Spec, FramesImplementCoded

\* What is obeyed has a coded control in it as long as that control stays coded.
LEMMA WholeControlsStay == OfficeInv /\ NoPartialControls /\ [Next]_vars => NoPartialControls'
PROOF
<1> SUFFICES ASSUME OfficeInv, NoPartialControls, [Next]_vars,
                    NEW s \in Places, obeyed'[s] # None
             PROVE  \E c \in coded'[s] : obeyed'[s] \in Reading(s, c)
  BY DEF NoPartialControls
<1>1. coded \in [Places -> SUBSET FunctionSets] /\ obeyed = [x \in Places |-> obeyed[x]]
  BY DeskFields DEF OfficeInv, OfficeTypes, DeskOK, DeskTypes
<1>2. ASSUME obeyed' = obeyed, coded[s] \subseteq coded'[s]
      PROVE  \E c \in coded'[s] : obeyed'[s] \in Reading(s, c)
  BY <1>2 DEF NoPartialControls
<1>3. ASSUME NEW answered \in IF link = "down" THEN BOOLEAN ELSE {TRUE},
             NEW elapsed \in IF active = None THEN {TRUE} ELSE BOOLEAN,
             DeskLoop(answered, elapsed)
      PROVE  \E c \in coded'[s] : obeyed'[s] \in Reading(s, c)
  <2>1. /\ obeyed' = obeyed
        /\ \/ coded' = coded
           \/ \E x \in Places :
                 coded' = [coded EXCEPT ![x] =
                              @ \cup {Coding(setup.wire, x, levers).functions}]
    BY <1>3, LoopPass DEF field
  <2>2. coded[s] \subseteq coded'[s]
    BY <1>1, <2>1
  <2> QED
    BY <1>2, <2>1, <2>2
<1>4. CASE AlignmentEnds \/ ConnectionLost \/ DeskRestart
  BY <1>2, <1>4 DEF AlignmentEnds, ConnectionLost, DeskRestart, field
<1>5. ASSUME NEW c \in DOMAIN Columns, MoveLever(c) \/ PressCode(c) \/ ReleaseCode(c)
      PROVE  \E k \in coded'[s] : obeyed'[s] \in Reading(s, k)
  BY <1>2, <1>5 DEF MoveLever, PressCode, ReleaseCode, desk, field
<1>6. ASSUME NEW x \in Places, Deliver(x) \/ PlantMoves(x)
      PROVE  \E c \in coded'[s] : obeyed'[s] \in Reading(s, c)
  BY <1>2, <1>6 DEF Deliver, PlantMoves, desk
<1>7. ASSUME NEW x \in Places, FieldCycle(x)
      PROVE  \E c \in coded'[s] : obeyed'[s] \in Reading(s, c)
  <2>1. coded' = coded
    BY <1>7 DEF FieldCycle, desk
  <2>2. CASE obeyed' = obeyed
    BY <1>2, <2>1, <2>2
  <2>3. ASSUME NEW c \in coded[x], NEW heard \in Reading(x, c),
               obeyed' = [obeyed EXCEPT ![x] = heard]
        PROVE  \E k \in coded'[s] : obeyed'[s] \in Reading(s, k)
    <3>1. CASE x = s
      BY <1>1, <2>1, <2>3, <3>1
    <3>2. CASE x # s
      <4>1. obeyed'[s] = obeyed[s]
        BY <1>1, <2>3, <3>2
      <4> QED
        BY <2>1, <4>1 DEF NoPartialControls
    <3> QED
      BY <3>1, <3>2
  <2> QED
    BY <1>7, <2>2, <2>3, ObeyedInCycle
<1>8. CASE UNCHANGED vars
  BY <1>2, <1>8 DEF vars, desk, field
<1> QED
  BY <1>3, <1>4, <1>5, <1>6, <1>7, <1>8 DEF Next

\* A field unit never obeys a part of a control or a mix of two: what it obeys has
\* one coded control in it whole, and on a text that was cut at most the last
\* function of the schema in addition.
THEOREM NoPartialObedience == Spec => []NoPartialControls
PROOF
<1>1. Init => NoPartialControls
  BY DEF Init, NoPartialControls
<1>2. OfficeInv /\ NoPartialControls /\ [Next]_vars => NoPartialControls'
  BY WholeControlsStay
<1>3. Spec => []OfficeInv
  BY OfficeInvariant
<1> QED
  BY <1>1, <1>2, <1>3, PTL DEF Spec

\* A frame that lost its end is refused, and one that came is obeyed as coded.
LEMMA FramesStayExact == OfficeInv /\ FramesAreExact /\ [Next]_vars => FramesAreExact'
PROOF
<1> SUFFICES ASSUME OfficeInv, FramesAreExact, [Next]_vars, setup'.wire = "bits",
                    NEW s \in Places
             PROVE  (obeyed[s] \in coded[s] \cup {None})'
  BY DEF FramesAreExact
<1>1. coded \in [Places -> SUBSET FunctionSets] /\ obeyed = [x \in Places |-> obeyed[x]]
  BY DeskFields DEF OfficeInv, OfficeTypes, DeskOK, DeskTypes
<1>2. ASSUME setup' = setup, obeyed' = obeyed, coded[s] \subseteq coded'[s]
      PROVE  (obeyed[s] \in coded[s] \cup {None})'
  BY <1>2 DEF FramesAreExact
<1>3. ASSUME NEW answered \in IF link = "down" THEN BOOLEAN ELSE {TRUE},
             NEW elapsed \in IF active = None THEN {TRUE} ELSE BOOLEAN,
             DeskLoop(answered, elapsed)
      PROVE  (obeyed[s] \in coded[s] \cup {None})'
  <2>1. /\ obeyed' = obeyed /\ setup' = setup
        /\ \/ coded' = coded
           \/ \E x \in Places :
                 coded' = [coded EXCEPT ![x] =
                              @ \cup {Coding(setup.wire, x, levers).functions}]
    BY <1>3, LoopPass DEF field
  <2>2. coded[s] \subseteq coded'[s]
    BY <1>1, <2>1
  <2> QED
    BY <1>2, <2>1, <2>2
<1>4. CASE AlignmentEnds \/ ConnectionLost \/ DeskRestart
  BY <1>2, <1>4 DEF AlignmentEnds, ConnectionLost, DeskRestart, field
<1>5. ASSUME NEW c \in DOMAIN Columns, MoveLever(c) \/ PressCode(c) \/ ReleaseCode(c)
      PROVE  (obeyed[s] \in coded[s] \cup {None})'
  BY <1>2, <1>5 DEF MoveLever, PressCode, ReleaseCode, desk, field
<1>6. ASSUME NEW x \in Places, Deliver(x) \/ PlantMoves(x)
      PROVE  (obeyed[s] \in coded[s] \cup {None})'
  BY <1>2, <1>6 DEF Deliver, PlantMoves, desk
<1>7. ASSUME NEW x \in Places, FieldCycle(x)
      PROVE  (obeyed[s] \in coded[s] \cup {None})'
  <2>1. coded' = coded /\ setup' = setup
    BY <1>7 DEF FieldCycle, desk
  <2>2. \/ obeyed' = obeyed
        \/ \E c \in coded[x] : obeyed' = [obeyed EXCEPT ![x] = c]
    BY <1>7, <2>1, ObeyedInCycle
  <2> QED
    BY <1>1, <2>1, <2>2 DEF FramesAreExact
<1>8. CASE UNCHANGED vars
  BY <1>2, <1>8 DEF vars, desk, field
<1> QED
  BY <1>3, <1>4, <1>5, <1>6, <1>7, <1>8 DEF Next

\* On the bit-packed line a field unit obeys exactly what was coded at its
\* station: a frame is taken as a whole or refused.
THEOREM FramesExact == Spec => []FramesAreExact
PROOF
<1>1. Init => FramesAreExact
  BY DEF Init, FramesAreExact
<1> QED
  BY <1>1, OfficeInvariant, FramesStayExact, PTL DEF Spec

-----------------------------------------------------------------------------
(* The panel of the fast build.                                            *)

\* The columns of a station.
Own(s) == {c \in DOMAIN Columns : Columns[c].station = s}

\* In the fast build every indication passes through one queue: the lamps of a
\* station show no later state than the first of its indications on the way,
\* these come in the order of the plant's moves, and the plant's last indication
\* is the latest of all.
InOrderOfMoves ==
    /\ \A s \in Places : told[s] <= plant[s]
    /\ \A i \in DOMAIN back : back[i].at <= told[back[i].from]
    /\ \A i, j \in DOMAIN back :
          i < j /\ back[i].from = back[j].from => back[i].at <= back[j].at
LampsBehind ==
    /\ DOMAIN lamps = DOMAIN Columns
    /\ \A s \in Places : \A v \in Shows(s, lamps) :
          v <= told[s] /\ \A i \in DOMAIN back : back[i].from = s => v <= back[i].at
PanelInv ==
    /\ link = "down" => back = <<>>
    /\ InOrderOfMoves
    /\ LampsBehind

\* Lamps that show a state of the plant show no other.
LEMMA ShowsOne ==
    ASSUME NEW s \in Places, NEW lit, NEW v \in Shows(s, lit), NEW w \in Shows(s, lit)
    PROVE  v = w
PROOF
<1>1. /\ v \in DOMAIN IndicationAt[s] /\ w \in DOMAIN IndicationAt[s]
      /\ DOMAIN TrueLamps[s][v] = Own(s) /\ DOMAIN TrueLamps[s][w] = Own(s)
      /\ \A c \in Own(s) : lit[c] = TrueLamps[s][v][c] /\ lit[c] = TrueLamps[s][w][c]
  BY DEF Shows, TrueLamps, Own
<1>2. /\ TrueLamps[s][v] = [c \in Own(s) |-> TrueLamps[s][v][c]]
      /\ TrueLamps[s][w] = [c \in Own(s) |-> TrueLamps[s][w][c]]
  BY <1>1 DEF TrueLamps, Own
<1>3. TrueLamps[s][v] = TrueLamps[s][w]
  BY <1>1, <1>2
<1> QED
  BY <1>1, <1>3, PanelAssumption

\* A dark desk shows nothing.
LEMMA DarkShowsNothing ==
    ASSUME NEW s \in Places, NEW lit, \A c \in DOMAIN Columns : lit[c] = {}
    PROVE  Shows(s, lit) = {}
PROOF
<1> SUFFICES ASSUME NEW v \in Shows(s, lit)
             PROVE  FALSE
  OBVIOUS
<1>1. /\ v \in DOMAIN IndicationAt[s] /\ DOMAIN TrueLamps[s][v] = Own(s)
      /\ \A c \in Own(s) : lit[c] = TrueLamps[s][v][c]
  BY DEF Shows, TrueLamps, Own
<1>2. PICK c \in Own(s) : TrueLamps[s][v][c] # {}
  BY <1>1, PanelAssumption
<1> QED
  BY <1>1, <1>2 DEF Own

\* Each end finds an appliance by its name, under the number it gave it.
LEMMA NumberIs ==
    ASSUME NEW schema, Indicable(schema), NEW i \in DOMAIN schema
    PROVE  NumberIn(schema, schema[i].type, schema[i].name) = schema[i].index
PROOF
<1>1. \A n \in Indices :
          (\E k \in DOMAIN schema : /\ schema[k].type = schema[i].type
                                    /\ schema[k].name = schema[i].name /\ schema[k].index = n)
          <=> n = schema[i].index
  BY DEF Indicable
<1>2. schema[i].index \in Indices
  BY DEF Indicable
<1> QED
  BY <1>1, <1>2 DEF NumberIn

\* A vector that is like the plant's lights the lamps of the plant.
LEMMA AlikeLit ==
    ASSUME NEW written, Indicable(written), NEW schema, Indicable(schema),
           SameWire(written, schema), NEW from, NEW out,
           \A i \in DOMAIN schema : Alike(out, schema[i], from, written[i]),
           NEW c, NEW col, col = Columns[c],
           Fitted(col.switch) => Listed(schema, "SWITCH", col.switch),
           Fitted(col.signal) => Listed(schema, "SIGNAL", col.signal),
           Fitted(col.maintainer) => Listed(schema, "MAINTAINER", col.maintainer),
           \A t \in Range(col.tracks) : Listed(schema, "TRACK", t)
    PROVE  LitLamps(c, out, schema) = LitLamps(c, from, written)
PROOF
<1>1. ASSUME NEW type, NEW name, Listed(schema, type, name)
      PROVE  \E e, d : /\ e.type = type /\ Alike(out, e, from, d)
                       /\ NumberIn(schema, type, name) = e.index
                       /\ NumberIn(written, type, name) = d.index
  <2>1. PICK i \in DOMAIN schema : schema[i].type = type /\ schema[i].name = name
    BY <1>1 DEF Listed
  <2>2. i \in DOMAIN written /\ written[i].type = type /\ written[i].name = name
    BY <2>1 DEF SameWire
  <2> QED
    BY <2>1, <2>2, NumberIs
<1> DEFINE Sw(ind, entries) == ind.switches[NumberIn(entries, "SWITCH", col.switch)]
           Sig(ind, entries) == ind.signals[NumberIn(entries, "SIGNAL", col.signal)]
           Calls(ind, entries) == ind.maintainer[NumberIn(entries, "MAINTAINER", col.maintainer)]
           At(entries, t) == NumberIn(entries, "TRACK", t)
           Lit(ind, entries, t) == /\ At(entries, t) < ind.trackCount
                                   /\ ind.tracks[At(entries, t)] = "OCCUPIED"
           switchLamp == [NORMAL |-> {"SW_NORMAL"}, REVERSE |-> {"SW_REVERSE"}, UNKNOWN |-> {}]
           signalLamp == [LEFT |-> {"SIG_LEFT"}, RIGHT |-> {"SIG_RIGHT"}, STOP |-> {"SIG_STOP"}]
           SwLamps(sw) == IF Fitted(col.switch) /\ sw.kr THEN switchLamp[sw.position] ELSE {}
           SigLamps(sig) == IF Fitted(col.signal) THEN signalLamp[sig.authority] ELSE {}
           Call(calls) == IF Fitted(col.maintainer) /\ calls THEN {"MAINTAINER"} ELSE {}
           Occupied(ind, entries) == {t \in Range(col.tracks) : Lit(ind, entries, t)}
<1>2. \A ind, entries :
          LitLamps(c, ind, entries) =
              SwLamps(Sw(ind, entries)) \cup SigLamps(Sig(ind, entries))
              \cup Call(Calls(ind, entries)) \cup Occupied(ind, entries)
  BY DEF LitLamps
<1>3. SwLamps(Sw(out, schema)) = SwLamps(Sw(from, written))
  <2>1. CASE Fitted(col.switch)
    <3>1. PICK e, d : /\ e.type = "SWITCH" /\ Alike(out, e, from, d)
                      /\ NumberIn(schema, "SWITCH", col.switch) = e.index
                      /\ NumberIn(written, "SWITCH", col.switch) = d.index
      BY <1>1, <2>1
    <3>2. /\ out.switches[e.index].kr = from.switches[d.index].kr
          /\ from.switches[d.index].kr =>
                out.switches[e.index].position = from.switches[d.index].position
      BY <3>1 DEF Alike
    <3> HIDE DEF switchLamp
    <3> QED
      BY <3>1, <3>2
  <2> QED
    BY <2>1
<1>4. SigLamps(Sig(out, schema)) = SigLamps(Sig(from, written))
  <2>1. CASE Fitted(col.signal)
    <3>1. PICK e, d : /\ e.type = "SIGNAL" /\ Alike(out, e, from, d)
                      /\ NumberIn(schema, "SIGNAL", col.signal) = e.index
                      /\ NumberIn(written, "SIGNAL", col.signal) = d.index
      BY <1>1, <2>1
    <3>2. out.signals[e.index].authority = from.signals[d.index].authority
      BY <3>1 DEF Alike
    <3> HIDE DEF signalLamp
    <3> QED
      BY <3>1, <3>2
  <2> QED
    BY <2>1
<1>5. Call(Calls(out, schema)) = Call(Calls(from, written))
  <2>1. CASE Fitted(col.maintainer)
    <3>1. PICK e, d : /\ e.type = "MAINTAINER" /\ Alike(out, e, from, d)
                      /\ NumberIn(schema, "MAINTAINER", col.maintainer) = e.index
                      /\ NumberIn(written, "MAINTAINER", col.maintainer) = d.index
      BY <1>1, <2>1
    <3>2. out.maintainer[e.index] = from.maintainer[d.index]
      BY <3>1 DEF Alike
    <3> QED
      BY <3>1, <3>2
  <2> QED
    BY <2>1
<1>6. Occupied(out, schema) = Occupied(from, written)
  <2>1. ASSUME NEW t \in Range(col.tracks)
        PROVE  Lit(out, schema, t) <=> Lit(from, written, t)
    <3>1. PICK e, d : /\ e.type = "TRACK" /\ Alike(out, e, from, d)
                      /\ NumberIn(schema, "TRACK", t) = e.index
                      /\ NumberIn(written, "TRACK", t) = d.index
      BY <1>1
    <3>2. /\ e.index < out.trackCount /\ d.index < from.trackCount
          /\ (out.tracks[e.index] = "OCCUPIED") = (from.tracks[d.index] = "OCCUPIED")
      BY <3>1 DEF Alike
    <3> QED
      BY <3>1, <3>2
  <2> QED
    BY <2>1
<1> HIDE DEF SwLamps, SigLamps, Call, Occupied, Sw, Sig, Calls
<1> QED
  BY <1>2, <1>3, <1>4, <1>5, <1>6

\* An indication, on either line, lights the lamps that the plant stands for,
\* although the desk and the field unit number the appliances differently.
THEOREM TrueToThePlant ==
    ASSUME NEW s \in Places, NEW v \in DOMAIN IndicationAt[s], NEW w \in Wires
    PROVE  LampsTold(w, s, v) = TrueLamps[s][v]
PROOF
<1>1. PICK desks, fields, ind :
          desks = DeskIndications[s] /\ fields = FieldIndications[s] /\ ind = IndicationAt[s][v]
  OBVIOUS
<1>2. /\ SameWire(fields, desks) /\ Indicable(desks) /\ Indicable(fields)
      /\ Len(fields) <= MaxEntries /\ MaxEntries \in Nat
      /\ \A i \in DOMAIN fields :
            fields[i].skip \in Nat /\ fields[i].activeHigh = desks[i].activeHigh
      /\ Covers(ind, fields)
  BY <1>1, IndicationAssumption, OfficeAssumption
<1>3. DOMAIN desks = DOMAIN fields
  BY <1>2 DEF SameWire
<1>4. ASSUME NEW c \in Own(s), NEW schema, schema \in {desks, fields}
      PROVE  /\ Fitted(Columns[c].switch) => Listed(schema, "SWITCH", Columns[c].switch)
             /\ Fitted(Columns[c].signal) => Listed(schema, "SIGNAL", Columns[c].signal)
             /\ Fitted(Columns[c].maintainer) =>
                    Listed(schema, "MAINTAINER", Columns[c].maintainer)
             /\ \A t \in Range(Columns[c].tracks) : Listed(schema, "TRACK", t)
  <2>1. \A type, name : Listed(desks, type, name) => Listed(schema, type, name)
    BY <1>2, <1>3, <1>4 DEF Listed, SameWire
  <2>2. /\ Fitted(Columns[c].switch) => Listed(desks, "SWITCH", Columns[c].switch)
        /\ Fitted(Columns[c].signal) => Listed(desks, "SIGNAL", Columns[c].signal)
        /\ Fitted(Columns[c].maintainer) =>
               Listed(desks, "MAINTAINER", Columns[c].maintainer)
        /\ \A t \in Range(Columns[c].tracks) : Listed(desks, "TRACK", t)
    BY <1>1, IndicationAssumption DEF Own
  <2> QED
    BY <2>1, <2>2
<1>5. ASSUME NEW schema, schema \in {desks, fields}, NEW out, NEW c \in Own(s),
             \A i \in DOMAIN schema : Alike(out, schema[i], ind, fields[i])
      PROVE  LitLamps(c, out, schema) = LitLamps(c, ind, fields)
  <2>1. SameWire(fields, schema) /\ Indicable(schema)
    BY <1>2, <1>5 DEF SameWire
  <2>2. PICK col : col = Columns[c]
    OBVIOUS
  <2> QED
    BY <1>2, <1>4, <1>5, <2>1, <2>2, AlikeLit
<1>6. TrueLamps[s][v] = [c \in Own(s) |-> LitLamps(c, ind, fields)]
  BY <1>1 DEF TrueLamps, Own
<1>7. CASE w = "bits"
  <2>1. PICK out : out = UnpackIndications(IndicationFrame[s], PackIndications(IndicationFrame[s], ind))
    OBVIOUS
  <2>2. IndicationFrame[s] = DeclareBits(NoBits(0), fields, IndicationRoles)
    BY <1>1 DEF IndicationFrame
  <2>3. \A i \in DOMAIN fields : Alike(out, fields[i], ind, fields[i])
    BY <1>2, <2>1, <2>2, IndicationsUnpacked
  <2>4. LampsTold(w, s, v) = [c \in Own(s) |-> LitLamps(c, out, fields)]
    BY <1>1, <1>7, <2>1 DEF LampsTold, Own
  <2>5. \A c \in Own(s) : LitLamps(c, out, fields) = LitLamps(c, ind, fields)
    BY <1>5, <2>3
  <2> QED
    BY <1>6, <2>4, <2>5
<1>8. CASE w # "bits"
  <2>1. PICK text : text = EncodeIndications(fields, ind)
    OBVIOUS
  <2>2. PICK out : out = DecodeIndications(desks, text)
    OBVIOUS
  <2>3. /\ IndicationsAccepted(desks, text)
        /\ \A i \in DOMAIN desks : Alike(out, desks[i], ind, fields[i])
    BY <1>2, <1>3, <2>1, <2>2, IndicationsRead
  <2>4. LampsTold(w, s, v) = [c \in Own(s) |-> LitLamps(c, out, desks)]
    BY <1>1, <1>8, <2>1, <2>2, <2>3 DEF LampsTold, Own
  <2>5. \A c \in Own(s) : LitLamps(c, out, desks) = LitLamps(c, ind, fields)
    BY <1>5, <2>3
  <2> QED
    BY <1>6, <2>4, <2>5
<1> QED
  BY <1>7, <1>8

\* An indication that is shown lights its station as its plant was, and no other.
LEMMA ShownIndication ==
    ASSUME setup \in Setups, NEW m \in IndicationsSent, NEW lit, DOMAIN lit = DOMAIN Columns,
           NEW lit2, lit2 = Shown(lit, m)
    PROVE  /\ DOMAIN lit2 = DOMAIN Columns
           /\ Shows(m.from, lit2) = {m.at}
           /\ \A s \in Places \ {m.from} : Shows(s, lit2) = Shows(s, lit)
PROOF
<1>1. setup.wire \in Wires /\ m.from \in Places /\ m.at \in DOMAIN IndicationAt[m.from]
  BY OfficeAssumption, MessageFacts DEF Wires
<1>2. PICK f : f = TrueLamps[m.from][m.at]
  OBVIOUS
<1>3. ToldLamps(setup.wire, m) = f
  <2> DEFINE Found(i) == i.station = m.from /\ i.wire = setup.wire /\ i.at = m.at
  <2>1. PICK x : x = [station |-> m.from, wire |-> setup.wire, at |-> m.at,
                      lit |-> LampsTold(setup.wire, m.from, m.at)]
    OBVIOUS
  <2>2. x \in Indicated /\ Found(x)
    BY <1>1, <2>1 DEF Indicated
  <2>3. PICK i \in Indicated : Found(i) /\ ToldLamps(setup.wire, m) = i.lit
    BY <2>2 DEF ToldLamps
  <2>4. PICK s \in Places : \E w \in Wires, v \in DOMAIN IndicationAt[s] :
            i = [station |-> s, wire |-> w, at |-> v, lit |-> LampsTold(w, s, v)]
    BY DEF Indicated
  <2>5. i.lit = LampsTold(setup.wire, m.from, m.at)
    BY <2>3, <2>4
  <2> QED
    BY <1>1, <1>2, <2>3, <2>5, TrueToThePlant
<1>4. DOMAIN f = Own(m.from) /\ Own(m.from) \subseteq DOMAIN Columns
  BY <1>1, <1>2 DEF TrueLamps, Own
<1>5. lit2 = [c \in DOMAIN Columns |-> IF c \in Own(m.from) THEN f[c] ELSE lit[c]]
  BY <1>3, <1>4 DEF Shown
<1>6. m.at \in Shows(m.from, lit2)
  BY <1>1, <1>2, <1>4, <1>5 DEF Shows
<1>7. Shows(m.from, lit2) = {m.at}
  BY <1>1, <1>6, ShowsOne
<1>8. ASSUME NEW s \in Places, s # m.from
      PROVE  Shows(s, lit2) = Shows(s, lit)
  <2>1. \A c \in Own(s) : lit2[c] = lit[c]
    BY <1>5, <1>8 DEF Own
  <2>2. \A v \in DOMAIN IndicationAt[s] : DOMAIN TrueLamps[s][v] = Own(s)
    BY DEF TrueLamps, Own
  <2> QED
    BY <2>1, <2>2 DEF Shows
<1> QED
  BY <1>5, <1>7, <1>8

\* One pass of the desk's loop in the fast build: nothing for the panel, or what
\* the broker retained, or one indication, shown at once.
LEMMA FastPass ==
    ASSUME OfficeInv, setup.build = "fast", NEW answered \in BOOLEAN, NEW elapsed \in BOOLEAN,
           DeskLoop(answered, elapsed)
    PROVE  /\ UNCHANGED <<setup, panel, field, failures>>
           /\ \/ lamps' = lamps /\ back' = back /\ link' = link
              \/ lamps' = lamps /\ link = "down" /\ link' = "aligning" /\ back' = Retained
              \/ /\ link # "down" /\ link' = link /\ back # <<>>
                 /\ back' = Tail(back) /\ lamps' = Shown(lamps, Head(back))
PROOF
<1>1. PICK received : received = Receive(Desk, answered)
  OBVIOUS
<1>2. PICK heard : heard = SyncInputs(received)
  OBVIOUS
<1>3. PICK polled \in PollCode(heard) :
        \E d \in {UpdateCodeLine(polled, elapsed)} :
            /\ lamps' = d.lamps /\ link' = d.link /\ back' = d.back
            /\ UNCHANGED <<setup, panel, field, failures>>
  BY <1>1, <1>2 DEF DeskLoop
<1>4. PICK d : /\ d = UpdateCodeLine(polled, elapsed)
               /\ lamps' = d.lamps /\ link' = d.link /\ back' = d.back
               /\ UNCHANGED <<setup, panel, field, failures>>
  BY <1>3
<1>5. Surroundings /\ DeskOK(Desk)
  BY DEF OfficeInv, OfficeTypes
<1>6. DeskOK(received)
  BY <1>1, <1>5, ReceiveStage
<1>7. DeskOK(heard) /\ heard.lamps = received.lamps /\ heard.link = received.link
      /\ heard.back = received.back
  <2>1. DeskOK(heard)
    BY <1>2, <1>5, <1>6, SyncStage
  <2>2. IsDesk(received)
    BY <1>6 DEF DeskOK, DeskTypes
  <2> QED
    BY <1>2, <2>1, <2>2 DEF SyncInputs, IsDesk
<1>8. polled.lamps = heard.lamps /\ polled.link = heard.link /\ polled.back = heard.back
  <2>1. CASE polled = heard
    BY <2>1
  <2>2. ASSUME NEW s, polled = Poll(heard, s)
        PROVE  polled.lamps = heard.lamps /\ polled.link = heard.link
               /\ polled.back = heard.back
    <3>1. PICK x : x = [heard EXCEPT !.shot[Min(Triggered(heard, s))] = "WAITING",
                                     !.coded[s] = @ \cup {Coding(setup.wire, s, levers).functions}]
      OBVIOUS
    <3>2. IsDesk(heard)
      BY <1>7 DEF DeskOK, DeskTypes
    <3>3. IsDesk(x) /\ x.lamps = heard.lamps /\ x.link = heard.link /\ x.back = heard.back
      BY <3>1, <3>2 DEF IsDesk
    <3>4. polled = Publish(x, [to |-> s, text |-> Coding(setup.wire, s, levers).message])
      BY <2>2, <3>1 DEF Poll, Enqueue
    <3>5. polled.lamps = x.lamps /\ polled.link = x.link /\ polled.back = x.back
      BY <3>3, <3>4 DEF Publish, IsDesk
    <3> QED
      BY <3>3, <3>5
  <2> QED
    BY <1>3, <2>1, <2>2 DEF PollCode
<1>9. d = polled
  BY <1>4 DEF UpdateCodeLine
<1>10. lamps' = received.lamps /\ link' = received.link /\ back' = received.back
  BY <1>4, <1>7, <1>8, <1>9
<1>11. \/ received = Desk
       \/ link = "down" /\ received = [Desk EXCEPT !.link = "aligning", !.back = Retained]
       \/ /\ link # "down" /\ back # <<>>
          /\ received = Take([Desk EXCEPT !.back = Tail(@)], Head(back))
  BY <1>1, DeskFields DEF Receive
<1>12. CASE received = Desk
  BY <1>4, <1>10, <1>12, DeskFields
<1>13. CASE link = "down" /\ received = [Desk EXCEPT !.link = "aligning", !.back = Retained]
  <2>1. received.lamps = lamps /\ received.link = "aligning" /\ received.back = Retained
    BY <1>13, DeskFields DEF IsDesk
  <2> QED
    BY <1>4, <1>10, <1>13, <2>1
<1>14. CASE /\ link # "down" /\ back # <<>>
            /\ received = Take([Desk EXCEPT !.back = Tail(@)], Head(back))
  <2>1. PICK x : x = [Desk EXCEPT !.back = Tail(@)]
    OBVIOUS
  <2>2. IsDesk(x) /\ x.lamps = lamps /\ x.link = link /\ x.back = Tail(back)
    BY <2>1, DeskFields DEF IsDesk
  <2>3. received = [x EXCEPT !.lamps = Shown(@, Head(back))]
    BY <1>14, <2>1 DEF Take
  <2>4. received.lamps = Shown(lamps, Head(back)) /\ received.link = link
        /\ received.back = Tail(back)
    BY <2>2, <2>3 DEF IsDesk
  <2> QED
    BY <1>4, <1>10, <1>14, <2>4
<1> QED
  BY <1>11, <1>12, <1>13, <1>14

\* A pass keeps the lamps behind the indications on their way, and never shows an
\* earlier state than before.
LEMMA PassKeepsOrder ==
    ASSUME OfficeInv, PanelInv, setup.build = "fast",
           NEW answered \in BOOLEAN, NEW elapsed \in BOOLEAN, DeskLoop(answered, elapsed)
    PROVE  /\ PanelInv'
           /\ \A s \in Places : \A v \in Shows(s, lamps), w \in Shows(s, lamps') : v <= w
PROOF
<1>1. /\ setup \in Setups /\ back \in Seq(IndicationsSent)
      /\ told \in [Places -> Nat] /\ plant \in [Places -> Nat]
      /\ \A s \in Places : told[s] \in DOMAIN IndicationAt[s]
  BY DeskFields DEF OfficeInv, OfficeTypes, Surroundings, DeskOK, DeskTypes
<1>2. \A s \in Places : DOMAIN IndicationAt[s] \subseteq Nat
  BY OfficeAssumption
<1>3. \A s \in Places : Shows(s, lamps) \subseteq Nat
  BY <1>2 DEF Shows
<1>4. /\ link = "down" => back = <<>>
      /\ InOrderOfMoves /\ LampsBehind
  BY DEF PanelInv
<1>5. told' = told /\ plant' = plant /\ setup' = setup
  BY FastPass DEF field
<1>6. CASE lamps' = lamps /\ back' = back /\ link' = link
  <2>1. PanelInv'
    BY <1>4, <1>5, <1>6 DEF PanelInv, InOrderOfMoves, LampsBehind, Shows
  <2>2. ASSUME NEW s \in Places, NEW v \in Shows(s, lamps), NEW w \in Shows(s, lamps')
        PROVE  v <= w
    BY <1>3, <1>6, <2>2, ShowsOne
  <2> QED
    BY <2>1, <2>2
<1>7. CASE lamps' = lamps /\ link = "down" /\ link' = "aligning" /\ back' = Retained
  <2>1. /\ DOMAIN Retained = DOMAIN Stations
        /\ \A i \in DOMAIN Stations : /\ Retained[i].from = Stations[i]
                                      /\ Retained[i].at = told[Stations[i]]
                                      /\ Stations[i] \in Places
    BY DEF Retained, Places
  <2>2. InOrderOfMoves'
    <3>1. \A i \in DOMAIN back' : back'[i].at <= told[back'[i].from]
      BY <1>1, <1>7, <2>1
    <3>2. \A i, j \in DOMAIN back' :
              i < j /\ back'[i].from = back'[j].from => back'[i].at <= back'[j].at
      BY <1>1, <1>7, <2>1
    <3> QED
      BY <1>4, <1>5, <3>1, <3>2 DEF InOrderOfMoves
  <2>3. LampsBehind'
    <3>1. ASSUME NEW s \in Places, NEW v \in Shows(s, lamps')
          PROVE  v <= told[s] /\ \A i \in DOMAIN back' : back'[i].from = s => v <= back'[i].at
      <4>1. v <= told[s]
        BY <1>4, <1>7, <3>1 DEF LampsBehind
      <4> QED
        BY <1>7, <2>1, <4>1
    <3> QED
      BY <1>4, <1>5, <1>7, <3>1 DEF LampsBehind, Shows
  <2>4. ASSUME NEW s \in Places, NEW v \in Shows(s, lamps), NEW w \in Shows(s, lamps')
        PROVE  v <= w
    BY <1>3, <1>7, <2>4, ShowsOne
  <2> QED
    BY <1>7, <2>2, <2>3, <2>4 DEF PanelInv
<1>8. CASE /\ link # "down" /\ link' = link /\ back # <<>>
           /\ back' = Tail(back) /\ lamps' = Shown(lamps, Head(back))
  <2>1. PICK m : m = Head(back)
    OBVIOUS
  <2>2. /\ Len(back) \in Nat \ {0} /\ DOMAIN back = 1 .. Len(back)
        /\ m = back[1] /\ m \in IndicationsSent
        /\ DOMAIN back' = 1 .. Len(back) - 1
        /\ \A i \in 1 .. Len(back) - 1 : back'[i] = back[i + 1]
    BY <1>1, <1>8, <2>1, HeadTailProperties, EmptySeq, LenProperties
  <2>3. m.from \in Places /\ m.at \in Nat
    BY <1>2, <2>2, MessageFacts
  <2>4. /\ DOMAIN lamps' = DOMAIN Columns
        /\ Shows(m.from, lamps') = {m.at}
        /\ \A s \in Places \ {m.from} : Shows(s, lamps') = Shows(s, lamps)
    <3>1. DOMAIN lamps = DOMAIN Columns
      BY <1>4 DEF LampsBehind
    <3>2. lamps' = Shown(lamps, m)
      BY <1>8, <2>1
    <3>3. setup \in Setups /\ m \in IndicationsSent
      BY <1>1, <2>2
    <3> QED
      BY <3>1, <3>2, <3>3, ShownIndication
  <2>5. InOrderOfMoves'
    <3>1. ASSUME NEW i \in DOMAIN back'
          PROVE  back'[i].at <= told[back'[i].from]
      <4>1. i + 1 \in DOMAIN back /\ back'[i] = back[i + 1]
        BY <2>2
      <4> QED
        BY <1>4, <4>1 DEF InOrderOfMoves
    <3>2. ASSUME NEW i \in DOMAIN back', NEW j \in DOMAIN back',
                 i < j, back'[i].from = back'[j].from
          PROVE  back'[i].at <= back'[j].at
      <4>1. i + 1 \in DOMAIN back /\ j + 1 \in DOMAIN back /\ i + 1 < j + 1
        BY <2>2, <3>2
      <4> QED
        BY <1>4, <2>2, <3>2, <4>1 DEF InOrderOfMoves
    <3> QED
      BY <1>4, <1>5, <3>1, <3>2 DEF InOrderOfMoves
  <2>6. ASSUME NEW s \in Places, NEW v \in Shows(s, lamps')
        PROVE  v <= told[s] /\ \A i \in DOMAIN back' : back'[i].from = s => v <= back'[i].at
    <3>1. CASE s = m.from
      <4>1. v = m.at /\ 1 \in DOMAIN back
        BY <2>2, <2>4, <2>6, <3>1
      <4>2. v <= told[s]
        BY <1>4, <2>2, <3>1, <4>1 DEF InOrderOfMoves
      <4>3. ASSUME NEW i \in DOMAIN back', back'[i].from = s
            PROVE  v <= back'[i].at
        <5>1. i + 1 \in DOMAIN back /\ 1 < i + 1 /\ back'[i] = back[i + 1]
          BY <2>2
        <5> QED
          BY <1>4, <2>2, <3>1, <4>1, <4>3, <5>1 DEF InOrderOfMoves
      <4> QED
        BY <4>2, <4>3
    <3>2. CASE s # m.from
      <4>1. v \in Shows(s, lamps)
        BY <2>4, <2>6, <3>2
      <4>2. v <= told[s] /\ \A j \in DOMAIN back : back[j].from = s => v <= back[j].at
        BY <1>4, <4>1 DEF LampsBehind
      <4>3. \A i \in DOMAIN back' : i + 1 \in DOMAIN back /\ back'[i] = back[i + 1]
        BY <2>2
      <4> QED
        BY <4>2, <4>3
    <3> QED
      BY <3>1, <3>2
  <2>7. LampsBehind'
    BY <1>5, <2>4, <2>6 DEF LampsBehind, Shows
  <2>8. ASSUME NEW s \in Places, NEW v \in Shows(s, lamps), NEW w \in Shows(s, lamps')
        PROVE  v <= w
    <3>1. CASE s = m.from
      <4>1. w = m.at /\ 1 \in DOMAIN back
        BY <2>2, <2>4, <2>8, <3>1
      <4> QED
        BY <1>4, <2>2, <2>8, <3>1, <4>1 DEF LampsBehind
    <3>2. CASE s # m.from
      <4>1. w = v
        BY <2>4, <2>8, <3>2, ShowsOne
      <4> QED
        BY <1>3, <4>1
    <3> QED
      BY <3>1, <3>2
  <2> QED
    BY <1>8, <2>5, <2>7, <2>8 DEF PanelInv
<1> QED
  BY <1>6, <1>7, <1>8, FastPass

\* A step that leaves the panel, the indications on their way and the session
\* alone keeps their order, whatever the plants do.
LEMMA PanelKept ==
    ASSUME OfficeInv, PanelInv, UNCHANGED <<lamps, back, link, told>>,
           \A s \in Places : plant'[s] \in Nat /\ plant[s] <= plant'[s]
    PROVE  /\ PanelInv'
           /\ \A s \in Places : \A v \in Shows(s, lamps), w \in Shows(s, lamps') : v <= w
PROOF
<1>1. told \in [Places -> Nat] /\ plant \in [Places -> Nat]
  BY DEF OfficeInv, OfficeTypes
<1>2. \A s \in Places : Shows(s, lamps) \subseteq Nat
  BY OfficeAssumption DEF Shows
<1>3. \A s \in Places : told'[s] <= plant'[s]
  BY <1>1 DEF PanelInv, InOrderOfMoves
<1>4. PanelInv'
  BY <1>3 DEF PanelInv, InOrderOfMoves, LampsBehind, Shows
<1>5. ASSUME NEW s \in Places, NEW v \in Shows(s, lamps), NEW w \in Shows(s, lamps')
      PROVE  v <= w
  BY <1>2, <1>5, ShowsOne
<1> QED
  BY <1>4, <1>5

\* A field unit that indicates adds its latest move at the end of the queue.
LEMMA CyclePanel ==
    ASSUME OfficeInv, PanelInv, NEW s \in Places, FieldCycle(s)
    PROVE  /\ PanelInv'
           /\ \A x \in Places : \A v \in Shows(x, lamps), w \in Shows(x, lamps') : v <= w
PROOF
<1>1. /\ told \in [Places -> Nat] /\ plant \in [Places -> Nat]
      /\ \A x \in Places : plant[x] \in DOMAIN IndicationAt[x]
      /\ back \in Seq(IndicationsSent)
  BY DeskFields DEF OfficeInv, OfficeTypes, DeskOK, DeskTypes
<1>2. \A x \in Places : Shows(x, lamps) \subseteq Nat
  BY OfficeAssumption DEF Shows
<1>3. UNCHANGED <<lamps, link, plant>>
  BY DEF FieldCycle, desk
<1>4. CASE told' = told /\ back' = back
  BY <1>1, <1>3, <1>4, PanelKept
<1>5. CASE told' = [told EXCEPT ![s] = plant[s]]
  <2>1. /\ told'[s] = plant[s] /\ \A x \in Places \ {s} : told'[x] = told[x]
        /\ \A x \in Places : told[x] <= told'[x] /\ told'[x] <= plant[x]
    BY <1>1, <1>5 DEF PanelInv, InOrderOfMoves
  <2>2. \/ back' = back /\ link = "down"
        \/ link # "down" /\ back' = Append(back, [from |-> s, at |-> plant[s]])
        \/ told' = told /\ back' = back
    BY DEF FieldCycle
  <2>3. ASSUME back' = back, link = "down"
        PROVE  PanelInv'
    <3>1. back = <<>> /\ DOMAIN back = {}
      BY <2>3 DEF PanelInv
    <3>2. InOrderOfMoves'
      BY <1>3, <2>1, <2>3, <3>1 DEF InOrderOfMoves
    <3>3. ASSUME NEW x \in Places, NEW v \in Shows(x, lamps)
          PROVE  v <= told'[x]
      <4>1. v \in Nat /\ v <= told[x] /\ told[x] \in Nat /\ told'[x] \in Nat
        BY <1>1, <1>2, <1>5 DEF PanelInv, LampsBehind
      <4> QED
        BY <2>1, <4>1
    <3>4. LampsBehind'
      BY <1>3, <2>3, <3>1, <3>3 DEF PanelInv, LampsBehind, Shows
    <3>5. (link = "down" => back = <<>>)'
      BY <2>3, <3>1
    <3> QED
      BY <3>2, <3>4, <3>5 DEF PanelInv
  <2>4. ASSUME link # "down", back' = Append(back, [from |-> s, at |-> plant[s]])
        PROVE  PanelInv'
    <3>1. PICK m : m = [from |-> s, at |-> plant[s]]
      OBVIOUS
    <3>2. m.from = s /\ m.at = plant[s]
      BY <3>1
    <3>3. /\ Len(back) \in Nat /\ DOMAIN back = 1 .. Len(back)
          /\ DOMAIN back' = 1 .. Len(back) + 1
          /\ \A i \in 1 .. Len(back) : back'[i] = back[i]
          /\ back'[Len(back) + 1] = m
      <4>1. m \in IndicationsSent
        <5>1. m \in {[from |-> s, at |-> v] : v \in DOMAIN IndicationAt[s]}
          BY <1>1, <3>1
        <5> QED
          BY <5>1, Zenon DEF IndicationsSent
      <4> QED
        <5>1. Len(back) \in Nat /\ DOMAIN back = 1 .. Len(back)
          BY <1>1, LenProperties
        <5>2. /\ back' \in Seq(IndicationsSent) /\ Len(back') = Len(back) + 1
              /\ \A i \in 1 .. Len(back) : back'[i] = back[i]
              /\ back'[Len(back) + 1] = m
          BY <1>1, <2>4, <3>1, <4>1, AppendProperties
        <5>3. DOMAIN back' = 1 .. Len(back')
          BY <5>2, LenProperties
        <5> QED
          BY <5>1, <5>2, <5>3
    <3>4. \A i \in 1 .. Len(back) : /\ back[i].from \in Places /\ back[i].at \in Nat
                                    /\ back[i].at <= told[back[i].from]
      <4>1. \A i \in 1 .. Len(back) : back[i] \in IndicationsSent
        BY <1>1, <3>3
      <4>2. \A x \in Places : DOMAIN IndicationAt[x] \subseteq Nat
        BY OfficeAssumption
      <4> QED
        BY <3>3, <4>1, <4>2, MessageFacts DEF PanelInv, InOrderOfMoves
    <3>5. \A i \in DOMAIN back' : back'[i].at <= told'[back'[i].from]
      <4>1. ASSUME NEW i \in 1 .. Len(back)
            PROVE  back'[i].at <= told'[back'[i].from]
        <5>1. PICK x \in Places : x = back[i].from
          BY <3>4
        <5>2. back[i].at <= told[x] /\ told[x] <= told'[x] /\ told[x] \in Nat /\ told'[x] \in Nat
              /\ back[i].at \in Nat
          BY <1>1, <1>5, <2>1, <3>4, <5>1
        <5> QED
          BY <3>3, <5>1, <5>2
      <4>2. back'[Len(back) + 1].at <= told'[back'[Len(back) + 1].from]
        BY <1>1, <2>1, <3>2, <3>3
      <4> QED
        BY <3>3, <4>1, <4>2
    <3>6. ASSUME NEW i \in DOMAIN back', NEW j \in DOMAIN back',
                 i < j, back'[i].from = back'[j].from
          PROVE  back'[i].at <= back'[j].at
      <4>1. i \in 1 .. Len(back)
        BY <3>3, <3>6
      <4>2. CASE j \in 1 .. Len(back)
        BY <3>3, <3>6, <4>1, <4>2 DEF PanelInv, InOrderOfMoves
      <4>3. CASE j = Len(back) + 1
        <5>1. back[i].from = s /\ back[i].at <= told[s] /\ told[s] <= plant[s]
          BY <1>1, <2>1, <3>2, <3>3, <3>4, <3>6, <4>1, <4>3 DEF PanelInv, InOrderOfMoves
        <5>2. back[i].at \in Nat /\ told[s] \in Nat /\ plant[s] \in Nat
          BY <1>1, <3>4, <4>1
        <5>3. back'[j].at = plant[s] /\ back'[i].at = back[i].at
          BY <3>2, <3>3, <4>1, <4>3
        <5> QED
          BY <5>1, <5>2, <5>3
      <4> QED
        BY <3>3, <4>2, <4>3
    <3>7. InOrderOfMoves'
      BY <1>3, <2>1, <3>5, <3>6 DEF InOrderOfMoves
    <3>8. ASSUME NEW x \in Places, NEW v \in Shows(x, lamps)
          PROVE  /\ v <= told'[x]
                 /\ \A i \in DOMAIN back' : back'[i].from = x => v <= back'[i].at
      <4>1. /\ v \in Nat /\ v <= told[x] /\ told[x] \in Nat /\ told'[x] \in Nat
            /\ told[x] <= told'[x] /\ told[x] <= plant[x] /\ plant[x] \in Nat
        BY <1>1, <1>2, <1>5, <2>1 DEF PanelInv, LampsBehind, InOrderOfMoves
      <4>2. ASSUME NEW i \in DOMAIN back', back'[i].from = x
            PROVE  v <= back'[i].at
        <5>1. CASE i \in 1 .. Len(back)
          BY <3>3, <4>2, <5>1 DEF PanelInv, LampsBehind
        <5>2. CASE i = Len(back) + 1
          <6>1. x = s /\ back'[i].at = plant[s]
            BY <3>2, <3>3, <4>2, <5>2
          <6> QED
            BY <4>1, <6>1
        <5> QED
          BY <3>3, <5>1, <5>2
      <4>3. v <= told'[x]
        BY <4>1
      <4> QED
        BY <4>2, <4>3
    <3>9. LampsBehind'
      BY <1>3, <3>8 DEF PanelInv, LampsBehind, Shows
    <3>10. link' # "down"
      BY <1>3, <2>4
    <3> QED
      BY <3>7, <3>9, <3>10 DEF PanelInv
  <2>5. PanelInv'
    BY <1>1, <1>3, <2>2, <2>3, <2>4, PanelKept
  <2>6. ASSUME NEW x \in Places, NEW v \in Shows(x, lamps), NEW w \in Shows(x, lamps')
        PROVE  v <= w
    BY <1>2, <1>3, <2>6, ShowsOne
  <2> QED
    BY <2>5, <2>6
<1> QED
  BY <1>4, <1>5 DEF FieldCycle

\* A desk that restarts is dark, and asks the broker again.
LEMMA RestartPanel ==
    ASSUME OfficeInv, PanelInv, DeskRestart
    PROVE  /\ PanelInv'
           /\ \A s \in Places : \A v \in Shows(s, lamps), w \in Shows(s, lamps') : v <= w
PROOF
<1>1. /\ DOMAIN lamps' = DOMAIN Columns /\ \A c \in DOMAIN Columns : lamps'[c] = {}
      /\ link' = "down" /\ back' = <<>> /\ told' = told /\ plant' = plant
  BY DEF DeskRestart, field
<1>2. \A s \in Places : Shows(s, lamps') = {}
  BY <1>1, DarkShowsNothing
<1>3. \A s \in Places : Shows(s, lamps)' = {}
  BY <1>2 DEF Shows
<1>4. PanelInv'
  BY <1>1, <1>3 DEF PanelInv, InOrderOfMoves, LampsBehind
<1> QED
  BY <1>2, <1>4

\* A connection that is lost takes with it what was on its way.
LEMMA LossPanel ==
    ASSUME OfficeInv, PanelInv, ConnectionLost
    PROVE  /\ PanelInv'
           /\ \A s \in Places : \A v \in Shows(s, lamps), w \in Shows(s, lamps') : v <= w
PROOF
<1>1. lamps' = lamps /\ link' = "down" /\ back' = <<>> /\ told' = told /\ plant' = plant
  BY DEF ConnectionLost, field
<1>2. PanelInv'
  BY <1>1 DEF PanelInv, InOrderOfMoves, LampsBehind, Shows
<1>3. \A s \in Places : Shows(s, lamps) \subseteq Nat
  BY OfficeAssumption DEF Shows
<1>4. ASSUME NEW s \in Places, NEW v \in Shows(s, lamps), NEW w \in Shows(s, lamps')
      PROVE  v <= w
  BY <1>1, <1>3, <1>4, ShowsOne
<1> QED
  BY <1>2, <1>4

\* In the fast build every step keeps the order, and no lamp falls back.
LEMMA PanelStep ==
    OfficeInv /\ setup.build = "fast" /\ PanelInv /\ [Next]_vars
        => /\ PanelInv'
           /\ \A s \in Places : \A v \in Shows(s, lamps), w \in Shows(s, lamps') : v <= w
PROOF
<1> DEFINE Onwards ==
        /\ PanelInv'
        /\ \A s \in Places : \A v \in Shows(s, lamps), w \in Shows(s, lamps') : v <= w
<1> SUFFICES ASSUME OfficeInv, setup.build = "fast", PanelInv, [Next]_vars
             PROVE  Onwards
  OBVIOUS
<1>0. plant \in [Places -> Nat]
  BY DEF OfficeInv, OfficeTypes
<1>1. ASSUME UNCHANGED <<lamps, back, link, told, plant>>
      PROVE  Onwards
  BY <1>0, <1>1, PanelKept
<1>2. ASSUME NEW answered \in IF link = "down" THEN BOOLEAN ELSE {TRUE},
             NEW elapsed \in IF active = None THEN {TRUE} ELSE BOOLEAN,
             DeskLoop(answered, elapsed)
      PROVE  Onwards
  BY <1>2, PassKeepsOrder
<1>3. CASE AlignmentEnds
  <2>1. /\ link = "aligning" /\ link' = "up"
        /\ lamps' = lamps /\ back' = back /\ told' = told /\ plant' = plant
    BY <1>3 DEF AlignmentEnds, field
  <2>2. PanelInv'
    BY <2>1 DEF PanelInv, InOrderOfMoves, LampsBehind, Shows
  <2>3. \A s \in Places : Shows(s, lamps) \subseteq Nat
    BY OfficeAssumption DEF Shows
  <2>4. ASSUME NEW s \in Places, NEW v \in Shows(s, lamps), NEW w \in Shows(s, lamps')
        PROVE  v <= w
    BY <2>1, <2>3, <2>4, ShowsOne
  <2> QED
    BY <2>2, <2>4
<1>4. CASE ConnectionLost
  BY <1>4, LossPanel
<1>5. CASE DeskRestart
  BY <1>5, RestartPanel
<1>6. ASSUME NEW c \in DOMAIN Columns, MoveLever(c) \/ PressCode(c) \/ ReleaseCode(c)
      PROVE  Onwards
  BY <1>1, <1>6 DEF MoveLever, PressCode, ReleaseCode, desk, field
<1>7. ASSUME NEW s \in Places, Deliver(s)
      PROVE  Onwards
  BY <1>1, <1>7 DEF Deliver, desk
<1>8. ASSUME NEW s \in Places, FieldCycle(s)
      PROVE  Onwards
  BY <1>8, CyclePanel
<1>9. ASSUME NEW s \in Places, PlantMoves(s)
      PROVE  Onwards
  <2>1. /\ UNCHANGED <<lamps, back, link, told>>
        /\ \A x \in Places : plant'[x] \in Nat /\ plant[x] <= plant'[x]
    BY <1>0, <1>9 DEF PlantMoves, desk
  <2> QED
    BY <2>1, PanelKept
<1>10. CASE UNCHANGED vars
  BY <1>1, <1>10 DEF vars, desk, field
<1> QED
  BY <1>2, <1>3, <1>4, <1>5, <1>6, <1>7, <1>8, <1>9, <1>10 DEF Next

\* In the fast build a station's lamps never fall back from a later to an earlier
\* state of its plant, whatever is lost and repeated on the way.
THEOREM NeverGoesBack == Spec => PanelNeverGoesBack
PROOF
<1>1. ASSUME Init
      PROVE  PanelInv
  <2>1. /\ link = "down" /\ back = <<>> /\ told = plant
        /\ plant = [s \in Places |-> Min(DOMAIN IndicationAt[s])]
        /\ DOMAIN lamps = DOMAIN Columns /\ \A c \in DOMAIN Columns : lamps[c] = {}
    BY <1>1 DEF Init
  <2>2. \A s \in Places : Shows(s, lamps) = {}
    BY <2>1, DarkShowsNothing
  <2>3. \A s \in Places : plant[s] \in Nat
    BY <2>1, MinInSet, OfficeAssumption
  <2> QED
    BY <2>1, <2>2, <2>3 DEF PanelInv, InOrderOfMoves, LampsBehind
<1> DEFINE I == setup.build = "fast" => PanelInv
<1>2. Init => I
  BY <1>1
<1>3. OfficeInv /\ I /\ [Next]_vars => I'
  <2>1. [Next]_vars => setup' = setup
    BY DEF Next, DeskLoop, AlignmentEnds, ConnectionLost, DeskRestart, MoveLever, PressCode,
           ReleaseCode, Deliver, FieldCycle, PlantMoves, vars
  <2> QED
    BY <2>1, PanelStep
<1>4. OfficeInv /\ I /\ [Next]_vars =>
          [setup.build = "fast" =>
               \A s \in Places : \A v \in Shows(s, lamps), w \in Shows(s, lamps') : v <= w]_vars
  BY PanelStep
<1> HIDE DEF I
<1> QED
  BY <1>2, <1>3, <1>4, OfficeInvariant, PTL DEF Spec, PanelNeverGoesBack
=============================================================================
