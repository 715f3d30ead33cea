------------------------------- MODULE Office -------------------------------
(***************************************************************************)
(* The dispatcher's desk (cTcMachine and the spcoast_ctc sketch), the code *)
(* line, and the field units' end of it (executeCycle).                    *)
(*                                                                         *)
(* The desk is one loop: take a message from the broker, read the panel,   *)
(* poll the CODE buttons, work the code line.  The build either publishes  *)
(* and applies at once ("fast") or plays a display cycle per panel column  *)
(* first, with a queue in each direction ("stepping").  A field unit keeps *)
(* one received control until its next cycle; it transmits its indications *)
(* on every cycle, or only when they have changed.  Its plant is abstract: *)
(* the indications run through a fixed history, one per move.              *)
(***************************************************************************)
EXTENDS WireCodec, TLC

CONSTANTS
    Stations,         \* the stations in the order of the desk, a sequence
    Columns,          \* per column number: what the panel column carries
    FieldControls,    \* per station: the schema the field unit decodes
    FieldIndications, \* per station: the schema the field unit encodes
    IndicationAt,     \* per station: its indication vector after each move
    TxCapacity,       \* CODELINE_TX_QUEUE_SIZE
    RxCapacity,       \* CODELINE_RX_QUEUE_SIZE
    Setups,           \* the builds, wires and peers to check, each with its bound on
                      \* restarts of the desk and lost connections
    MaxInFlight,      \* bound: messages of one station on their way
    MaxPresses,       \* bound, per station: presses of CODE
    None

VARIABLES
    setup,     \* the build, the wire and what makes a field unit transmit
    levers,    \* per column: the debounced contacts
    button,    \* per column: CODE is held down
    shot,      \* per column: the OneShot
    lamps,     \* per column: the lamps that are lit
    tx, rx,    \* the desk's queues of controls and of indications
    active,    \* what the display cycle is playing, or None
    link,      \* the desk's broker session: "up", "aligning" or "down"
    air,       \* per station: controls on their way to the field unit
    back,      \* indications on their way to the desk
    slot,      \* per station: the control received last and not yet taken
    plant,     \* per station: how often the plant has moved
    told,      \* per station: the move it indicated last (the retained message)
    obeyed,    \* per station: the functions of the control applied last
    coded,     \* history: per station, every control the desk has coded
    released,  \* history: per station, how often a CODE button was let go
    sent,      \* history: per station, how many controls were published
    failures   \* history: restarts of the desk and lost connections

panel == <<levers, button, released>>
desk == <<shot, lamps, tx, rx, active, link, coded, sent>>
field == <<slot, plant, told, obeyed>>
vars == <<setup, panel, desk, air, back, field, failures>>

Places == {Stations[i] : i \in DOMAIN Stations}

\* The desk's stations are different ones, each column belongs to one of them,
\* and a field unit's plant starts at the least of its moves.
ASSUME OfficeAssumption ==
    /\ Stations \in Seq(STRING)
    /\ \A i, j \in DOMAIN Stations : Stations[i] = Stations[j] => i = j
    /\ Len(Columns) \in Nat /\ DOMAIN Columns = 1 .. Len(Columns)
    /\ \A c \in DOMAIN Columns : /\ Columns[c].station \in Places
                                 /\ Columns[c].code \in BOOLEAN
                                 /\ Columns[c].positions # {}
    /\ \A s \in Places : DOMAIN IndicationAt[s] \in (SUBSET Nat) \ {{}}
    /\ TxCapacity \in Nat /\ RxCapacity \in Nat /\ MaxEntries \in Nat
    /\ Setups \subseteq [build : {"fast", "stepping"}, wire : {"text", "bits"},
                         peer : {"cyclic", "onChange"}, failures : Nat]
    /\ MaxInFlight \in Nat \ {0}

ColumnsOf(s) == SelectSeq(Columns, LAMBDA col : col.station = s)

-----------------------------------------------------------------------------
(* Building the desk's schemas: switches, tracks, signals, maintainer calls *)
(* in column order, each numbered in the order it is met.                   *)

Numbered(type, names) == [i \in DOMAIN names |-> Entry(type, names[i], i - 1)]
Of(s, type, names(_)) ==
    Numbered(type, FlattenSeq([i \in DOMAIN ColumnsOf(s) |-> names(ColumnsOf(s)[i])]))
\* The column has such an appliance; its name is not empty.
Fitted(name) == name # ""
One(name) == IF Fitted(name) THEN <<name>> ELSE <<>>

Switches == [s \in Places |-> Of(s, "SWITCH", LAMBDA col : One(col.switch))]
Tracks == [s \in Places |-> Of(s, "TRACK", LAMBDA col : col.tracks)]
Signals == [s \in Places |-> Of(s, "SIGNAL", LAMBDA col : One(col.signal))]
Maintainers == [s \in Places |-> Of(s, "MAINTAINER", LAMBDA col : One(col.maintainer))]

DeskControls == [s \in Places |-> Declared(Switches[s] \o Signals[s] \o Maintainers[s])]
DeskIndications ==
    [s \in Places |-> Declared(Switches[s] \o Tracks[s] \o Signals[s] \o Maintainers[s])]

\* Both ends of a station's line declare the same appliances in the same order,
\* every one an appliance of its own and within the tables.
ASSUME SchemaAssumption ==
    \A s \in Places :
        /\ SameWire(DeskControls[s], FieldControls[s]) /\ Controllable(FieldControls[s])
        /\ Len(FieldControls[s]) <= MaxEntries
        /\ \A i \in DOMAIN FieldControls[s] : /\ DeskControls[s][i].index \in Indices
                                             /\ FieldControls[s][i].skip \in Nat

Listed(schema, type, name) ==
    \E i \in DOMAIN schema : schema[i].type = type /\ schema[i].name = name

\* The same of what a field unit indicates, in the same polarity; what a column
\* has lamps for is indicated, and every indication tells all of it.
ASSUME IndicationAssumption ==
    \A s \in Places :
        LET desks == DeskIndications[s]
            fields == FieldIndications[s]
        IN /\ SameWire(fields, desks) /\ Indicable(desks) /\ Indicable(fields)
           /\ Len(fields) <= MaxEntries
           /\ \A i \in DOMAIN fields :
                 fields[i].skip \in Nat /\ fields[i].activeHigh = desks[i].activeHigh
           /\ \A v \in DOMAIN IndicationAt[s] : Covers(IndicationAt[s][v], fields)
           /\ \A c \in DOMAIN Columns : Columns[c].station = s =>
                 /\ Fitted(Columns[c].switch) => Listed(desks, "SWITCH", Columns[c].switch)
                 /\ Fitted(Columns[c].signal) => Listed(desks, "SIGNAL", Columns[c].signal)
                 /\ Fitted(Columns[c].maintainer) => Listed(desks, "MAINTAINER", Columns[c].maintainer)
                 /\ \A t \in Range(Columns[c].tracks) : Listed(desks, "TRACK", t)

NumberIn(entries, type, name) == CHOOSE i \in Indices : \E k \in DOMAIN entries :
    entries[k].type = type /\ entries[k].name = name /\ entries[k].index = i

-----------------------------------------------------------------------------
(* The panel.                                                              *)

\* Mutant: a button that is down triggers, and triggers again.
UpdatedOnPress(state, pressed) == IF pressed THEN "TRIGGERED" ELSE state

\* OneShot::update(): armed by a press, triggered by the release, latched.
Updated(state, pressed) ==
    CASE state = "WAITING" /\ pressed -> "ARMED"
      [] state = "ARMED" /\ ~pressed -> "TRIGGERED"
      [] OTHER -> state

\* harvestDemands(): one contact closed is a demand; none or several are not.
SwitchLever(l) ==
    CASE l.sw = {"N"} -> "NORMAL" [] l.sw = {"R"} -> "REVERSE" [] OTHER -> "NO_CHANGE"
SignalLever(l) ==
    CASE l.sig = {"R"} -> "RIGHT" [] l.sig = {"L"} -> "LEFT" [] OTHER -> "STOP"

\* The snapshot of a station's levers lv; nothing is demanded of what has none.
Harvested(lv, s) ==
    LET part == [SWITCH |-> "switch", SIGNAL |-> "signal", MAINTAINER |-> "maintainer"]
        leverOf(e) == lv[CHOOSE c \in DOMAIN Columns :
            Columns[c].station = s /\ Columns[c][part[e.type]] = e.name]
        At(entries, i, value(_), default) ==
            LET hits == {e \in Range(entries) : e.index = i} IN
            IF hits = {} THEN default ELSE value(leverOf(CHOOSE e \in hits : TRUE))
    IN [NoControls EXCEPT
        !.switch = [i \in Indices |-> At(Switches[s], i, SwitchLever, "NO_CHANGE")],
        !.signal = [i \in Indices |-> At(Signals[s], i, SignalLever, "NO_CHANGE")],
        !.maintainer = [i \in Indices |-> At(Maintainers[s], i, LAMBDA l : l.call, FALSE)]]

\* The columns of a station whose CODE is triggered.
Triggered(d, s) ==
    {c \in DOMAIN Columns : Columns[c].station = s /\ Columns[c].code /\ d.shot[c] = "TRIGGERED"}

\* applyIndications() of one column, the appliances found by the numbers of
\* these entries: the lamps that are lit afterwards.
LitLamps(c, ind, entries) ==
    LET col == Columns[c]
        sw == ind.switches[NumberIn(entries, "SWITCH", col.switch)]
        sig == ind.signals[NumberIn(entries, "SIGNAL", col.signal)]
        calls == ind.maintainer[NumberIn(entries, "MAINTAINER", col.maintainer)]
        occupied(t) == LET i == NumberIn(entries, "TRACK", t) IN
                       i < ind.trackCount /\ ind.tracks[i] = "OCCUPIED"
        switchLamp == [NORMAL |-> {"SW_NORMAL"}, REVERSE |-> {"SW_REVERSE"}, UNKNOWN |-> {}]
        signalLamp == [LEFT |-> {"SIG_LEFT"}, RIGHT |-> {"SIG_RIGHT"}, STOP |-> {"SIG_STOP"}]
    IN (IF Fitted(col.switch) /\ sw.kr THEN switchLamp[sw.position] ELSE {})
       \cup (IF Fitted(col.signal) THEN signalLamp[sig.authority] ELSE {})
       \cup (IF Fitted(col.maintainer) /\ calls THEN {"MAINTAINER"} ELSE {})
       \cup {t \in Range(col.tracks) : occupied(t)}

-----------------------------------------------------------------------------
(* Either code line.  A control is a text, or a frame of the bit-packed    *)
(* line; an indication on its way is known by the plant's move it tells.   *)

ControlFrame == [s \in Places |-> DeclareBits(NoBits(0), FieldControls[s], ControlRoles)]
IndicationFrame ==
    [s \in Places |-> DeclareBits(NoBits(0), FieldIndications[s], IndicationRoles)]

\* The functions a control asserts, by name.
Functions(schema, ctl) ==
    UNION {{<<schema[i].name, r>> : r \in AssertedControls(schema[i], ctl)} : i \in DOMAIN schema}

\* The bits of a station's functions; the office of that line is not in this
\* code, and packs a control the way the field unit unpacks it.
ControlBits == [s \in Places |->
    LET start == StartBit(FieldControls[s], ControlRoles)
    IN [t \in Range(Terms(FieldControls[s], ControlRoles)) |->
           LET e == FieldControls[s][t.entry]
               k == CHOOSE j \in DOMAIN ControlRoles[e.type] : ControlRoles[e.type][j] = t.role
           IN [fn |-> <<e.name, t.role>>, bit |-> start[t.entry] + k - 1]]]
PackControls(s, functions) ==
    [bytes |-> ControlFrame[s].bytes,
     bits |-> {b.bit : b \in {x \in Range(ControlBits[s]) : x.fn \in functions}}]

ControlMessage(w, s, ctl) ==
    IF w = "text" THEN EncodeControls(DeskControls[s], ctl)
    ELSE PackControls(s, Functions(DeskControls[s], ctl))

\* What the field unit reads of a control: all, or what its buffers had room for.
Read(w, m) ==
    {m} \cup (IF w = "text" THEN CutShort(m)
             ELSE {[bytes |-> n, bits |-> {b \in m.bits : b < 8 * n}] : n \in 0 .. m.bytes - 1})

\* The functions the field unit takes what it has read for; None if it refuses.
Heard(w, s, m) ==
    LET ctl == IF w = "text" THEN DecodeControls(FieldControls[s], m)
               ELSE IF UnpackAccepts(ControlFrame[s], m) THEN UnpackControls(ControlFrame[s], m)
               ELSE [NoControls EXCEPT !.vitalValid = FALSE]
    IN IF ctl.vitalValid THEN Functions(FieldControls[s], ctl) ELSE None

\* What the levers of a station can say, for each of their positions.
Wires == {"text", "bits"}
Contacts == [DOMAIN Columns -> UNION {col.positions : col \in Range(Columns)}]
CodingOf(s, w, lv) ==
    [station |-> s, wire |-> w, levers |-> lv,
     functions |-> Functions(DeskControls[s], Harvested(lv, s)),
     message |-> ControlMessage(w, s, Harvested(lv, s))]
Codings == {CodingOf(x[1], x[2], x[3]) : x \in Places \X Wires \X Contacts}
Coding(w, s, lv) == CHOOSE k \in Codings : k.station = s /\ k.wire = w /\ k.levers = lv

\* What a field unit may take each control for.
Outcomes ==
    {[station |-> m[1], wire |-> m[2], message |-> m[3],
      heard |-> {Heard(m[2], m[1], r) : r \in Read(m[2], m[3])}] :
         m \in {<<k.station, k.wire, k.message>> : k \in Codings}}
OutcomesOf(w, s, m) ==
    (CHOOSE o \in Outcomes : o.station = s /\ o.wire = w /\ o.message = m).heard

\* The lamps of a station's columns after each move, as either line shows them.
LampsTold(w, s, v) ==
    LET ind == IndicationAt[s][v]
        text == EncodeIndications(FieldIndications[s], ind)
        codec == IndicationFrame[s]
        own == {c \in DOMAIN Columns : Columns[c].station = s}
    IN IF w = "bits"
       THEN [c \in own |-> LitLamps(c, UnpackIndications(codec, PackIndications(codec, ind)),
                                    FieldIndications[s])]
       ELSE IF IndicationsAccepted(DeskIndications[s], text)
       THEN [c \in own |-> LitLamps(c, DecodeIndications(DeskIndications[s], text),
                                    DeskIndications[s])]
       ELSE <<>>
Indicated ==
    UNION {{[station |-> s, wire |-> w, at |-> v, lit |-> LampsTold(w, s, v)] :
                w \in Wires, v \in DOMAIN IndicationAt[s]} : s \in Places}
ToldLamps(w, m) ==
    (CHOOSE i \in Indicated : i.station = m.from /\ i.wire = w /\ i.at = m.at).lit

\* An indication that is accepted is shown on every column of its station.
Shown(lit, m) ==
    LET shows == ToldLamps(setup.wire, m)
    IN [c \in DOMAIN lit |-> IF c \in DOMAIN shows THEN shows[c] ELSE lit[c]]

-----------------------------------------------------------------------------
(* One pass of the desk's loop: each stage takes the desk as it finds it.  *)

Desk == [shot |-> shot, lamps |-> lamps, tx |-> tx, rx |-> rx, active |-> active,
         link |-> link, air |-> air, back |-> back, coded |-> coded, sent |-> sent]

\* onMqttMessage() and enqueueIndication(): at once after a (re)connection and
\* in the fast build; else queued, and dropped when the queue is full.
Take(d, m) ==
    IF d.link = "aligning" \/ setup.build = "fast" THEN [d EXCEPT !.lamps = Shown(@, m)]
    ELSE IF Len(d.rx) < RxCapacity THEN [d EXCEPT !.rx = Append(@, m)]
    ELSE d

\* Mutant: the broker retains nothing.
RetainedNothing == <<>>

\* Mutant: the broker repeats the first indication it ever had.
RetainedFirst == [i \in DOMAIN Stations |->
    [from |-> Stations[i], at |-> Min(DOMAIN IndicationAt[Stations[i]])]]

\* reconnectMqtt(): the broker sends what it has retained.
Retained == [i \in DOMAIN Stations |-> [from |-> Stations[i], at |-> told[Stations[i]]]]

Receive(d, answered) ==
    IF d.link = "down"
    THEN IF answered THEN [d EXCEPT !.link = "aligning", !.back = Retained] ELSE d
    ELSE IF d.back = <<>> THEN d
    ELSE Take([d EXCEPT !.back = Tail(@)], Head(d.back))

\* enqueueControl() of the fast build, and the end of a display cycle: mqtt.publish()
\* sends at most once, so what finds no room or no connection is lost.
Publish(d, m) ==
    IF d.link = "down" THEN d
    ELSE [d EXCEPT !.sent[m.to] = @ + 1,
                   !.air[m.to] = IF Len(@) < MaxInFlight THEN Append(@, m.text) ELSE @]

\* Mutant: the queue takes one control more than it has room for.
EnqueueOneMore(d, m) ==
    IF setup.build = "fast" THEN Publish(d, m)
    ELSE IF Len(d.tx) <= TxCapacity THEN [d EXCEPT !.tx = Append(@, m)]
    ELSE d

\* enqueueControl(): the fast build publishes at once; the stepping build queues
\* the control and refuses it when the queue is full.
Enqueue(d, m) ==
    IF setup.build = "fast" THEN Publish(d, m)
    ELSE IF Len(d.tx) < TxCapacity THEN [d EXCEPT !.tx = Append(@, m)]
    ELSE d

SyncInputs(d) == [d EXCEPT !.shot = [c \in DOMAIN Columns |-> Updated(@[c], button[c])]]

\* CtcStation::pollCode(): the first triggered column is reset, and the levers
\* of all columns as they stand are coded.
Poll(d, s) ==
    Enqueue([d EXCEPT !.shot[Min(Triggered(d, s))] = "WAITING",
                      !.coded[s] = @ \cup {Coding(setup.wire, s, levers).functions}],
            [to |-> s, text |-> Coding(setup.wire, s, levers).message])

\* cTcMachine::pollCode(): one station in every pass, the first that is ready.
PollCode(d) ==
    LET ready == {i \in DOMAIN Stations : Triggered(d, Stations[i]) # {}} IN
    {IF i = 0 THEN d ELSE Poll(d, Stations[i]) :
         i \in {IF ready = {} THEN 0 ELSE Min(ready)}}

\* Mutant: only a display of indications is ever started.
StartNextIndication(d) ==
    IF d.rx # <<>> THEN [d EXCEPT !.active = Head(d.rx), !.rx = Tail(@)] ELSE d

\* startNextIndicationCycle(), and if that starts none startNextControlCycle().
StartNext(d) ==
    IF d.rx # <<>> THEN [d EXCEPT !.active = Head(d.rx), !.rx = Tail(@)]
    ELSE IF d.tx # <<>> THEN [d EXCEPT !.active = Head(d.tx), !.tx = Tail(@)]
    ELSE d

Inbound(m) == "from" \in DOMAIN m

\* completeCodeLineCycle() after the last column.
Complete(d) ==
    LET done == [d EXCEPT !.active = None] IN
    StartNext(IF Inbound(d.active) THEN [done EXCEPT !.lamps = Shown(@, d.active)]
              ELSE Publish(done, d.active))

UpdateCodeLine(d, elapsed) ==
    IF setup.build = "fast" THEN d
    ELSE IF d.active = None THEN StartNext(d)
    ELSE IF elapsed THEN Complete(d)
    ELSE d

DeskLoop(answered, elapsed) ==
    \E now \in {Desk} :
    \E received \in {Receive(now, answered)} :
    \E heard \in {SyncInputs(received)} :
    \E polled \in PollCode(heard) :
    \E d \in {UpdateCodeLine(polled, elapsed)} :
        /\ shot' = d.shot /\ lamps' = d.lamps /\ tx' = d.tx /\ rx' = d.rx
        /\ active' = d.active /\ link' = d.link /\ air' = d.air /\ back' = d.back
        /\ coded' = d.coded /\ sent' = d.sent
        /\ UNCHANGED <<setup, panel, field, failures>>

\* The window after a connection in which indications are shown at once.
AlignmentEnds ==
    /\ link = "aligning"
    /\ link' = "up"
    /\ UNCHANGED <<setup, panel, shot, lamps, tx, rx, active, coded, sent, air, back, field,
                   failures>>

ConnectionLost ==
    /\ link # "down" /\ failures < setup.failures
    /\ link' = "down"
    /\ back' = <<>>
    /\ failures' = failures + 1
    /\ UNCHANGED <<setup, panel, shot, lamps, tx, rx, active, coded, sent, air, field>>

\* begin() has read the CODE buttons once; every lamp is out.
DeskRestart ==
    /\ failures < setup.failures
    /\ shot' = [c \in DOMAIN Columns |-> Updated("WAITING", button[c])]
    /\ lamps' = [c \in DOMAIN Columns |-> {}]
    /\ tx' = <<>> /\ rx' = <<>> /\ active' = None
    /\ link' = "down"
    /\ back' = <<>>
    /\ failures' = failures + 1
    /\ UNCHANGED <<setup, panel, coded, sent, air, field>>

-----------------------------------------------------------------------------
(* The dispatcher.                                                         *)

MoveLever(c) ==
    /\ \E l \in Columns[c].positions : l # levers[c] /\ levers' = [levers EXCEPT ![c] = l]
    /\ UNCHANGED <<setup, button, released, desk, air, back, field, failures>>

PressCode(c) ==
    /\ Columns[c].code /\ ~button[c] /\ released[Columns[c].station] < MaxPresses[Columns[c].station]
    /\ button' = [button EXCEPT ![c] = TRUE]
    /\ UNCHANGED <<setup, levers, released, desk, air, back, field, failures>>

ReleaseCode(c) ==
    /\ button[c]
    /\ button' = [button EXCEPT ![c] = FALSE]
    /\ released' = [released EXCEPT ![Columns[c].station] = @ + 1]
    /\ UNCHANGED <<setup, levers, desk, air, back, field, failures>>

-----------------------------------------------------------------------------
(* The field units.                                                        *)

\* onControlMessage(): the last control to arrive is the one that is kept.
Deliver(s) ==
    /\ air[s] # <<>>
    /\ slot' = [slot EXCEPT ![s] = Head(air[s])]
    /\ air' = [air EXCEPT ![s] = Tail(@)]
    /\ UNCHANGED <<setup, panel, desk, back, plant, told, obeyed, failures>>

\* executeCycle(): take the control, obey it if it is understood, indicate.
FieldCycle(s) ==
    LET indicates == setup.peer = "cyclic" \/ told[s] # plant[s]
        waiting == {i \in DOMAIN back : back[i].from = s}
    IN /\ indicates => Cardinality(waiting) < MaxInFlight
       /\ indicates \/ slot[s] # None
       /\ IF slot[s] = None THEN UNCHANGED obeyed
          ELSE \E heard \in OutcomesOf(setup.wire, s, slot[s]) :
                   obeyed' = IF heard = None THEN obeyed ELSE [obeyed EXCEPT ![s] = heard]
       /\ slot' = [slot EXCEPT ![s] = None]
       /\ told' = IF indicates THEN [told EXCEPT ![s] = plant[s]] ELSE told
       /\ back' = IF indicates /\ link # "down"
                  THEN Append(back, [from |-> s, at |-> plant[s]]) ELSE back
       /\ UNCHANGED <<setup, panel, desk, air, plant, failures>>

PlantMoves(s) ==
    /\ plant[s] + 1 \in DOMAIN IndicationAt[s]
    /\ plant' = [plant EXCEPT ![s] = @ + 1]
    /\ UNCHANGED <<setup, panel, desk, air, back, slot, told, obeyed, failures>>

-----------------------------------------------------------------------------

Init ==
    /\ setup \in Setups
    /\ levers = [c \in DOMAIN Columns |-> CHOOSE l \in Columns[c].positions : TRUE]
    /\ button = [c \in DOMAIN Columns |-> FALSE]
    /\ shot = [c \in DOMAIN Columns |-> "WAITING"]
    /\ lamps = [c \in DOMAIN Columns |-> {}]
    /\ tx = <<>> /\ rx = <<>> /\ active = None
    /\ link = "down"
    /\ air = [s \in Places |-> <<>>]
    /\ back = <<>>
    /\ slot = [s \in Places |-> None]
    /\ plant = [s \in Places |-> Min(DOMAIN IndicationAt[s])]
    /\ told = plant  \* the field units have been running
    /\ obeyed = [s \in Places |-> None]
    /\ coded = [s \in Places |-> {}]
    /\ released = [s \in Places |-> 0]
    /\ sent = [s \in Places |-> 0]
    /\ failures = 0

Next ==
    \/ \E answered \in IF link = "down" THEN BOOLEAN ELSE {TRUE},
         elapsed \in IF active = None THEN {TRUE} ELSE BOOLEAN : DeskLoop(answered, elapsed)
    \/ AlignmentEnds \/ ConnectionLost \/ DeskRestart
    \/ \E c \in DOMAIN Columns : MoveLever(c) \/ PressCode(c) \/ ReleaseCode(c)
    \/ \E s \in Places : Deliver(s) \/ FieldCycle(s) \/ PlantMoves(s)

\* The loops of the desk and of the field units run forever, the display cycle
\* takes bounded time, and a broker that is asked again and again answers.
Fairness ==
    /\ WF_vars(DeskLoop(TRUE, TRUE))
    /\ WF_vars(AlignmentEnds)
    /\ \A s \in Places : WF_vars(Deliver(s)) /\ WF_vars(FieldCycle(s))

Spec == Init /\ [][Next]_vars /\ Fairness

-----------------------------------------------------------------------------
(* Properties.                                                             *)

\* The desk's queues and the network stay within their capacities, and what is
\* played, queued or on its way belongs to a station of the desk.
TypeOK ==
    /\ setup \in Setups
    /\ \A c \in DOMAIN Columns : levers[c] \in Columns[c].positions
    /\ button \in [DOMAIN Columns -> BOOLEAN]
    /\ shot \in [DOMAIN Columns -> {"WAITING", "ARMED", "TRIGGERED"}]
    /\ link \in {"up", "aligning", "down"}
    /\ Len(tx) <= TxCapacity /\ \A m \in Range(tx) : m.to \in Places
    /\ Len(rx) <= RxCapacity /\ \A m \in Range(rx) : m.from \in Places
    /\ \A s \in Places : Len(air[s]) <= MaxInFlight /\ plant[s] \in DOMAIN IndicationAt[s]
    /\ \A s \in Places : Cardinality({i \in DOMAIN back : back[i].from = s}) <= MaxInFlight
    /\ \A m \in Range(back) : m.from \in Places /\ m.at \in DOMAIN IndicationAt[m.from]
    /\ failures \in 0 .. setup.failures

\* The controls of a station that are still to be published: what a release of
\* CODE has triggered or is about to, what is queued and what is played.
StillToSend(s) ==
    Cardinality({c \in DOMAIN Columns : /\ Columns[c].station = s
                                        /\ \/ shot[c] = "TRIGGERED"
                                           \/ shot[c] = "ARMED" /\ ~button[c]})
    + Cardinality({i \in DOMAIN tx : tx[i].to = s})
    + (IF active # None /\ ~Inbound(active) /\ active.to = s THEN 1 ELSE 0)

\* A station gets no more controls than its CODE button was pressed and let go
\* for, however long the button is held, whatever else is being coded or
\* played, and over restarts of the desk.
OneControlPerCode == \A s \in Places : sent[s] + StillToSend(s) <= released[s]

\* A frame of the bit-packed line that lost its end is refused as a whole: a
\* field unit obeys exactly what was coded at its station.
FramesAreExact ==
    setup.wire = "bits" => \A s \in Places : obeyed[s] \in coded[s] \cup {None}

\* What a station's columns would show if they saw its plant after a move.
TrueLamps == [s \in Places |-> [v \in DOMAIN IndicationAt[s] |->
    [c \in {d \in DOMAIN Columns : Columns[d].station = s} |->
        LitLamps(c, IndicationAt[s][v], FieldIndications[s])]]]

\* No two states of a plant look alike, and none like a panel that is dark.
ASSUME PanelAssumption ==
    \A s \in Places : \A v \in DOMAIN IndicationAt[s] :
        /\ \E c \in DOMAIN TrueLamps[s][v] : TrueLamps[s][v][c] # {}
        /\ \A u \in DOMAIN IndicationAt[s] \ {v} : TrueLamps[s][u] # TrueLamps[s][v]

Shows(s, lit) ==
    {v \in DOMAIN IndicationAt[s] :
        \A c \in DOMAIN TrueLamps[s][v] : lit[c] = TrueLamps[s][v][c]}

\* In the fast build a station's lamps never fall back from a later to an
\* earlier state of its plant, not even when a lost connection comes back and
\* the broker repeats what it has retained.
PanelNeverGoesBack ==
    [][setup.build = "fast" =>
           \A s \in Places : \A v \in Shows(s, lamps), w \in Shows(s, lamps') : v <= w]_vars

\* In the fast build the panel ends up showing the plant as it is, by name and
\* whatever number either end gives an appliance, after lost connections and
\* restarts, and also when a field unit speaks only once after a change.
PanelCatchesUp ==
    setup.build = "fast" => <>[](\A s \in Places : plant[s] \in Shows(s, lamps))

\* In the stepping build every control is played out in the end when the field
\* units indicate changes only; those that indicate in every cycle can keep
\* the display with indications for ever.
ControlsArePlayed ==
    setup.build = "stepping" /\ setup.peer = "onChange" =>
        \A s \in Places : []<>(\A m \in Range(tx) : m.to # s)

\* The last function of a station's text, and the other functions of its
\* appliance.
LastTerm(s) ==
    LET terms == Terms(FieldControls[s], ControlRoles) t == Last(terms)
    IN [fn |-> <<FieldControls[s][t.entry].name, t.role>>,
        others |-> {<<FieldControls[s][t.entry].name, r>> :
                        r \in Range(ControlRoles[FieldControls[s][t.entry].type])}]

\* The control c, or c as a text line makes it when only the last parenthesis
\* is lost: its last function is asserted too, if nothing else of its appliance is.
Reading(s, c) ==
    {c} \cup (IF c \cap LastTerm(s).others = {} THEN {c \cup {LastTerm(s).fn}} ELSE {})

\* Wherever a text or a frame was cut, whatever overtook or replaced it, a field
\* unit never obeys a part of a control or a mix of two.  What it obeys has in it,
\* whole, one control that was coded at its station with the levers as they stood
\* then.  On the text line there may be one function more, the last of the
\* schema: the disagreement that ObeysOnlyWhatWasCoded shows.
NoPartialControls ==
    \A s \in Places : obeyed[s] # None =>
        \E c \in coded[s] : obeyed[s] \in Reading(s, c)

Controls == [s \in Places |-> {k.functions : k \in {x \in Codings : x.station = s}}]
Coded == INSTANCE CodedControls WITH
    Stations <- Places, NoControl <- None

\* The rule of truncation as the primer has it, and what a code line promises: a
\* field unit obeys exactly a control that the dispatcher has coded at its
\* station.  The text line breaks it.
ObeysOnlyWhatWasCoded == Coded!CSpec

\* The bit-packed line keeps it: desk, broker and field units, with frames that
\* lose their ends, queues, lost connections and restarts, implement CodedControls.
FramesImplementCoded ==
    Coded!CInit /\ [][setup.wire = "bits" => Coded!CNext]_(Coded!cvars)
=============================================================================
