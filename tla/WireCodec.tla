----------------------------- MODULE WireCodec -----------------------------
(***************************************************************************)
(* The two codecs of the code line, as operators.                          *)
(*                                                                         *)
(* AarTextCodec: a text is a sequence of tokens.  A token is a function of *)
(* an appliance, <<name, role, suffix>>, and its form: "plain" asserts the *)
(* function, "dropped" is the token in parentheses, and "open" is a token  *)
(* that has lost its closing parenthesis, which reads as asserted.  Junk   *)
(* is whatever has no suffix: it is never the token that is expected.      *)
(*                                                                         *)
(* BitPackedCodec: a frame is its length in bytes and the set of its bits  *)
(* that are 1, numbered from bit 0 of byte 0.                              *)
(*                                                                         *)
(* A schema is the sequence of entries both ends declare; spellings, white *)
(* space, letter case and the fault counters are left out.                 *)
(***************************************************************************)
EXTENDS Naturals, FiniteSets, SequencesExt

CONSTANTS
    MaxEntries, \* MAX_MAP_ENTRIES
    Indices     \* appliance indices, 0 .. MAX_APPLIANCES - 1

ASSUME IndexAssumption == IsFiniteSet(Indices) /\ Indices = 0 .. Cardinality(Indices) - 1

Entry(type, name, index) ==
    [type |-> type, name |-> name, index |-> index, skip |-> 0, activeHigh |-> TRUE]
PadToByte == Entry("PAD_TO_BYTE", "", 0)
SkipBits(n) == [Entry("SKIP_BITS", "", 0) EXCEPT !.skip = n]

\* What is declared beyond the capacity of the table is not there.
Declared(entries) == SubSeq(entries, 1, Min({Len(entries), MaxEntries}))

\* The role of an appliance of one function, whose token is its bare name.
Sole == "sole"

ControlRoles ==
    [SWITCH |-> <<"NW", "RW">>, SIGNAL |-> <<"SG", "NG", "H">>,
     ELECTRIC_LOCK |-> <<"WL">>, MAINTAINER |-> <<Sole>>,
     SKIP_BITS |-> <<>>, PAD_TO_BYTE |-> <<>>]

IndicationRoles ==
    [SWITCH |-> <<"NW", "RW">>, TRACK |-> <<Sole>>, SIGNAL |-> <<"SG", "NG", "TE">>,
     MAST |-> <<Sole>>, ELECTRIC_LOCK |-> <<"WL">>, MAINTAINER |-> <<Sole>>,
     SKIP_BITS |-> <<>>, PAD_TO_BYTE |-> <<>>]

\* The functions of a schema in the order of the wire.
Terms(schema, roles) ==
    FlattenSeq([i \in DOMAIN schema |->
        [k \in DOMAIN roles[schema[i].type] |->
            [entry |-> i, role |-> roles[schema[i].type][k]]]])

\* The entries of a schema are of types that these roles know.
IsSchema(schema, roles) ==
    /\ Len(schema) \in Nat /\ DOMAIN schema = 1 .. Len(schema)
    /\ \A i \in DOMAIN schema : roles[schema[i].type] \in Seq(STRING)

\* Both ends declare the same appliances in the same order; each numbers them
\* in its own way.
SameWire(a, b) ==
    DOMAIN a = DOMAIN b /\ \A i \in DOMAIN a : a[i].type = b[i].type /\ a[i].name = b[i].name

\* Every entry is an appliance of its own that a control transaction reaches.
Controllable(schema) ==
    /\ IsSchema(schema, ControlRoles)
    /\ \A i \in DOMAIN schema :
          /\ schema[i].type \in {"SWITCH", "SIGNAL", "ELECTRIC_LOCK", "MAINTAINER"}
          /\ schema[i].index \in Indices
    /\ \A i, j \in DOMAIN schema :
          schema[i].type = schema[j].type
          /\ (schema[i].name = schema[j].name \/ schema[i].index = schema[j].index) => i = j

\* Every entry is an appliance of its own that an indication tells; a mast has
\* no bits, and the desk has no lamp for it.
Indicable(schema) ==
    /\ IsSchema(schema, IndicationRoles)
    /\ \A i \in DOMAIN schema :
          /\ schema[i].type \in {"SWITCH", "TRACK", "SIGNAL", "ELECTRIC_LOCK", "MAINTAINER"}
          /\ schema[i].index \in Indices /\ schema[i].activeHigh \in BOOLEAN
    /\ \A i, j \in DOMAIN schema :
          schema[i].type = schema[j].type
          /\ (schema[i].name = schema[j].name \/ schema[i].index = schema[j].index) => i = j

-----------------------------------------------------------------------------
(* Control transactions and indication vectors, and what they assert.      *)

NoControls ==
    [switch |-> [i \in Indices |-> "NO_CHANGE"], lock |-> [i \in Indices |-> "NO_CHANGE"],
     signal |-> [i \in Indices |-> "NO_CHANGE"], maintainer |-> [i \in Indices |-> FALSE],
     vitalValid |-> TRUE]

SwitchWire == [NORMAL |-> {"NW"}, REVERSE |-> {"RW"}, NO_CHANGE |-> {}]
SignalWire == [RIGHT |-> {"SG"}, LEFT |-> {"NG"}, STOP |-> {"H"}, NO_CHANGE |-> {}]

AssertedControls(e, ctl) ==
    CASE e.type = "SWITCH" -> SwitchWire[ctl.switch[e.index]]
      [] e.type = "SIGNAL" -> SignalWire[ctl.signal[e.index]]
      [] e.type = "ELECTRIC_LOCK" -> IF ctl.lock[e.index] = "UNLOCK" THEN {"WL"} ELSE {}
      [] e.type = "MAINTAINER" -> IF ctl.maintainer[e.index] THEN {Sole} ELSE {}
      [] OTHER -> {}

\* The demand that a set of asserted functions stands for.
DemandOf(wire, asserted) == CHOOSE d \in DOMAIN wire : wire[d] = asserted

NoIndications ==
    [switchCount |-> 0, trackCount |-> 0, signalCount |-> 0, mastCount |-> 0,
     switches |-> [i \in Indices |-> [position |-> "UNKNOWN", kr |-> FALSE, unlocked |-> FALSE]],
     tracks |-> [i \in Indices |-> "VACANT"],
     signals |-> [i \in Indices |-> [authority |-> "STOP", timeLocked |-> FALSE]],
     masts |-> [i \in Indices |-> "STOP"],
     maintainer |-> [i \in Indices |-> FALSE]]

\* An appliance the vector does not reach is indicated by dropped tokens.
AssertedIndications(e, ind) ==
    LET i == e.index IN
    CASE e.type = "SWITCH" /\ i < ind.switchCount /\ ind.switches[i].kr ->
             SwitchWire[ind.switches[i].position]
      [] e.type = "TRACK" /\ i < ind.trackCount ->
             IF (ind.tracks[i] = "OCCUPIED") = e.activeHigh THEN {Sole} ELSE {}
      [] e.type = "SIGNAL" /\ i < ind.signalCount ->
             (IF ind.signals[i].authority = "STOP" THEN {}
              ELSE SignalWire[ind.signals[i].authority])
             \cup (IF ind.signals[i].timeLocked THEN {"TE"} ELSE {})
      [] e.type = "MAST" /\ i < ind.mastCount -> IF ind.masts[i] # "STOP" THEN {Sole} ELSE {}
      [] e.type = "ELECTRIC_LOCK" /\ i < ind.switchCount ->
             IF ind.switches[i].unlocked THEN {"WL"} ELSE {}
      [] e.type = "MAINTAINER" -> IF ind.maintainer[i] THEN {Sole} ELSE {}
      [] OTHER -> {}

\* The vector reaches every appliance of the schema and has a state of it; a
\* switch in correspondence is in one of its positions.
Covers(ind, schema) ==
    \A i \in DOMAIN schema :
        LET type == schema[i].type
            n == schema[i].index
        IN /\ type = "SWITCH" => /\ n < ind.switchCount /\ ind.switches[n].kr \in BOOLEAN
                                 /\ ind.switches[n].kr =>
                                       ind.switches[n].position \in {"NORMAL", "REVERSE"}
           /\ type = "ELECTRIC_LOCK" => n < ind.switchCount
                                        /\ ind.switches[n].unlocked \in BOOLEAN
           /\ type = "TRACK" => n < ind.trackCount
           /\ type = "SIGNAL" => /\ n < ind.signalCount
                                 /\ ind.signals[n].authority \in {"LEFT", "RIGHT", "STOP"}
                                 /\ ind.signals[n].timeLocked \in BOOLEAN
           /\ type = "MAINTAINER" => ind.maintainer[n] \in BOOLEAN

-----------------------------------------------------------------------------
(* The text codec.                                                         *)

Token(e, role, suffix, form) == [fn |-> <<e.name, role, suffix>>, form |-> form]
Junk == [fn |-> <<"none", "none", "none">>, form |-> "plain"]

\* Both encoders write every function of the schema, asserted or dropped.
WriteTokens(schema, roles, suffix, asserted) ==
    LET terms == Terms(schema, roles) IN
    [n \in DOMAIN terms |->
        LET t == terms[n] IN
        Token(schema[t.entry], t.role, suffix,
              IF t.role \in asserted[t.entry] THEN "plain" ELSE "dropped")]

EncodeControls(schema, ctl) ==
    WriteTokens(schema, ControlRoles, "S",
                [i \in DOMAIN schema |-> AssertedControls(schema[i], ctl)])

EncodeIndications(schema, ind) ==
    WriteTokens(schema, IndicationRoles, "K",
                [i \in DOMAIN schema |-> AssertedIndications(schema[i], ind)])

\* The n-th token is the one that is due, with the suffix of its direction.
InStep(schema, roles, suffix, text, n) ==
    LET t == Terms(schema, roles)[n] IN
    /\ n \in DOMAIN text
    /\ text[n].fn = <<schema[t.entry].name, t.role, suffix>>

\* The functions of an entry the text asserts.
HeardRoles(schema, roles, text, i) ==
    LET terms == Terms(schema, roles) IN
    {terms[n].role : n \in {m \in DOMAIN terms \cap DOMAIN text :
                                terms[m].entry = i /\ text[m].form # "dropped"}}

\* Gate 2: at most one of these functions is asserted.
Exclusive == [SWITCH |-> {"NW", "RW"}, SIGNAL |-> {"SG", "NG", "H"}]
Consistent(type, heard) ==
    type \in DOMAIN Exclusive => Cardinality(heard \cap Exclusive[type]) <= 1

\* Entry i is decoded: no step up to its own has failed.
Decoded(schema, roles, suffix, text, i) ==
    LET terms == Terms(schema, roles) IN
    /\ \A n \in DOMAIN terms :
           terms[n].entry <= i => InStep(schema, roles, suffix, text, n)
    /\ \A j \in 1 .. i : Consistent(schema[j].type, HeardRoles(schema, roles, text, j))

\* A token of the right suffix after the last one; anything else is not seen.
Trailing(schema, roles, suffix, text) ==
    LET n == Len(Terms(schema, roles)) + 1 IN
    n \in DOMAIN text /\ text[n].fn[3] = suffix

\* Mutant: a text that ends early is taken as far as it goes.
AcceptedInPart(schema, roles, suffix, text) == ~Trailing(schema, roles, suffix, text)

Accepted(schema, roles, suffix, text) ==
    /\ schema # <<>> => Decoded(schema, roles, suffix, text, Len(schema))
    /\ ~Trailing(schema, roles, suffix, text)

\* What a declaration of an appliance was heard to assert; nobody declared it.
Undeclared == {"undeclared"}

\* The last decoded entry of a type and index decides.
HeardFor(schema, roles, suffix, text, type, index) ==
    LET declared == {i \in DOMAIN schema : schema[i].type = type /\ schema[i].index = index}
        hits == {i \in declared : Decoded(schema, roles, suffix, text, i)}
    IN IF hits = {} THEN Undeclared ELSE HeardRoles(schema, roles, text, Max(hits))

\* The transaction that heard(type, index) stands for.
ControlsHeard(heard(_, _), valid) ==
    LET Of(type, i, value(_), default) ==
            LET h == heard(type, i) IN IF h = Undeclared THEN default ELSE value(h)
    IN [switch |-> [i \in Indices |->
            Of("SWITCH", i, LAMBDA h : DemandOf(SwitchWire, h), "NO_CHANGE")],
        signal |-> [i \in Indices |->
            Of("SIGNAL", i, LAMBDA h : DemandOf(SignalWire, h), "NO_CHANGE")],
        lock |-> [i \in Indices |->
            Of("ELECTRIC_LOCK", i, LAMBDA h : IF h = {} THEN "LOCK" ELSE "UNLOCK", "NO_CHANGE")],
        maintainer |-> [i \in Indices |-> Of("MAINTAINER", i, LAMBDA h : h # {}, FALSE)],
        vitalValid |-> valid]

DecodeControls(schema, text) ==
    ControlsHeard(LAMBDA type, i : HeardFor(schema, ControlRoles, "S", text, type, i),
                  Accepted(schema, ControlRoles, "S", text))

\* One more than the highest index of a type that is declared.
CountOf(entries, type) == Max({0} \cup {e.index + 1 : e \in {d \in entries : d.type = type}})

\* The vector that heard(type, index) of these entries stands for.
IndicationsHeard(entries, heard(_, _)) ==
    LET Of(type, i, value(_), default) ==
            LET h == heard(type, i) IN IF h = Undeclared THEN default ELSE value(h)
        activeHigh(i) == \A e \in entries : e.type = "TRACK" /\ e.index = i => e.activeHigh
    IN [switchCount |-> CountOf(entries, "SWITCH"), trackCount |-> CountOf(entries, "TRACK"),
        signalCount |-> CountOf(entries, "SIGNAL"), mastCount |-> CountOf(entries, "MAST"),
        switches |-> [i \in Indices |->
            [position |-> Of("SWITCH", i,
                 LAMBDA h : IF h = {} THEN "UNKNOWN" ELSE DemandOf(SwitchWire, h), "UNKNOWN"),
             kr |-> Of("SWITCH", i, LAMBDA h : h # {}, FALSE),
             unlocked |-> Of("ELECTRIC_LOCK", i, LAMBDA h : h # {}, FALSE)]],
        tracks |-> [i \in Indices |->
            Of("TRACK", i,
               LAMBDA h : IF (h # {}) = activeHigh(i) THEN "OCCUPIED" ELSE "VACANT", "VACANT")],
        signals |-> [i \in Indices |->
            [authority |-> Of("SIGNAL", i,
                 LAMBDA h : IF h \subseteq {"TE"} THEN "STOP"
                            ELSE DemandOf(SignalWire, h \ {"TE"}), "STOP"),
             timeLocked |-> Of("SIGNAL", i, LAMBDA h : "TE" \in h, FALSE)]],
        masts |-> [i \in Indices |->
            Of("MAST", i, LAMBDA h : IF h = {} THEN "STOP" ELSE "CLEAR", "STOP")],
        maintainer |-> [i \in Indices |-> Of("MAINTAINER", i, LAMBDA h : h # {}, FALSE)]]

\* An indication text that is not accepted is dropped as a whole.
IndicationsAccepted(schema, text) == Accepted(schema, IndicationRoles, "K", text)

DecodeIndications(schema, text) ==
    IndicationsHeard(Range(schema),
        LAMBDA type, i : HeardFor(schema, IndicationRoles, "K", text, type, i))

\* What is left of a text whose end is lost: it ends after a token, inside a
\* token, or just before the closing parenthesis of a dropped one.
CutShort(text) ==
    {SubSeq(text, 1, n) : n \in 0 .. Len(text) - 1}
    \cup {Append(SubSeq(text, 1, n), Junk) : n \in 0 .. Len(text) - 1}
    \cup {Append(SubSeq(text, 1, n - 1), [text[n] EXCEPT !.form = "open"]) :
              n \in {m \in DOMAIN text : text[m].form = "dropped"}}

-----------------------------------------------------------------------------
(* The bit-packed codec.  Its tables are one set of maps, each the bits of *)
(* one appliance; a mast has none.                                         *)

BitsOf(e, roles) == IF e.type = "MAST" THEN <<>> ELSE roles[e.type]

\* The bit at which each entry starts; one past the last is the total.
StartBit(entries, roles) ==
    LET start[i \in 1 .. Len(entries) + 1] ==
            IF i = 1 THEN 0
            ELSE LET e == entries[i - 1] IN
                 CASE e.type = "PAD_TO_BYTE" -> ((start[i - 1] + 7) \div 8) * 8
                   [] e.type = "SKIP_BITS" -> start[i - 1] + e.skip
                   [] OTHER -> start[i - 1] + Len(BitsOf(e, roles))
    IN start

\* The map of each entry; a mast, a skip and a pad have no bits in theirs.
MapsOf(entries, roles) ==
    [i \in DOMAIN entries |->
        [type |-> entries[i].type, index |-> entries[i].index,
         activeHigh |-> entries[i].activeHigh, first |-> StartBit(entries, roles)[i],
         roles |-> BitsOf(entries[i], roles)]]

\* A later declaration replaces the maps of every type but the electric lock,
\* a table that is full takes no more, and the frame never gets shorter.
DeclareBits(codec, entries, roles) ==
    LET offered == codec.maps \o MapsOf(entries, roles)
        taken(maps, n) ==
            /\ n > Len(codec.maps) \/ offered[n].type = "ELECTRIC_LOCK"
            /\ offered[n].roles # <<>>
            /\ Cardinality({k \in DOMAIN maps : maps[k].type = offered[n].type}) < MaxEntries
        maps[n \in 0 .. Len(offered)] ==
            IF n = 0 THEN <<>>
            ELSE IF taken(maps[n - 1], n) THEN Append(maps[n - 1], offered[n])
            ELSE maps[n - 1]
        end == StartBit(entries, roles)[Len(entries) + 1]
    IN [bytes |-> Max({codec.bytes, (end + 7) \div 8}), maps |-> maps[Len(offered)]]

NoBits(bytes) == [bytes |-> bytes, maps |-> <<>>]

HeardBits(m, frame) ==
    {m.roles[k] : k \in {j \in DOMAIN m.roles : m.first + j - 1 \in frame.bits}}

\* Mutant: the length of a frame is not looked at.
UnpackAcceptsShort(codec, frame) ==
    \A m \in Range(codec.maps) : Consistent(m.type, HeardBits(m, frame))

\* unpackControls(): a short frame or two conflicting bits refuse the whole.
UnpackAccepts(codec, frame) ==
    /\ frame.bytes >= codec.bytes
    /\ \A m \in Range(codec.maps) : Consistent(m.type, HeardBits(m, frame))

HeardInMaps(codec, frame, type, index) ==
    LET hits == {n \in DOMAIN codec.maps :
                     codec.maps[n].type = type /\ codec.maps[n].index = index} IN
    IF hits = {} THEN Undeclared ELSE HeardBits(codec.maps[Max(hits)], frame)

UnpackControls(codec, frame) ==
    ControlsHeard(LAMBDA type, i : HeardInMaps(codec, frame, type, i),
                  UnpackAccepts(codec, frame))

\* packIndications(): the bits of the asserted functions, and no others.
PackedBits(codec, asserted(_)) ==
    UNION {{m.first + k - 1 : k \in {j \in DOMAIN m.roles : m.roles[j] \in asserted(m)}} :
               m \in Range(codec.maps)}

PackIndications(codec, ind) ==
    [bytes |-> codec.bytes, bits |-> PackedBits(codec, LAMBDA m : AssertedIndications(m, ind))]

\* The office of a bit-packed line is not in this code: it reads a frame the
\* way it was packed.
UnpackIndications(codec, frame) ==
    IndicationsHeard(Range(codec.maps), LAMBDA type, i : HeardInMaps(codec, frame, type, i))
=============================================================================
