------------------------- MODULE PlantConfig_proofs -------------------------
(***************************************************************************)
(* The calls that configure a plant and the file that it is written to,    *)
(* for builds and plants of any size.                                      *)
(*                                                                         *)
(* A plant is a record of tables; a table is a sequence of entries.  What  *)
(* a call may change is said once, by Keeps, and every operation of        *)
(* PlantConfig is shown to be such a change.  What serialize() writes is   *)
(* a file, and what deserialize() makes of one are calls that the          *)
(* interface takes; so the tables and the pointers into them stay sound.   *)
(***************************************************************************)
EXTENDS PlantFile, FiniteSetTheorems, SequenceTheorems, WellFoundedInduction, TLAPS

-----------------------------------------------------------------------------
(* Numbers, and the first entry of a name.                                 *)

\* A set of numbers that is not empty has a least one.
LEMMA LeastOf ==
    ASSUME NEW T, T \subseteq Nat, T # {}
    PROVE  \E x \in T : \A y \in T : x <= y
PROOF
<1>1. PICK x \in T : \A y \in T : ~ (<<y, x>> \in OpToRel(<, Nat))
  BY NatLessThanWellFounded, WFMin
<1>2. \A y \in T : ~ (y < x)
  BY <1>1, Zenon DEF OpToRel
<1> QED
  BY <1>2

\* The place of the first entry of a name.
LEMMA AtIs ==
    ASSUME NEW X, NEW table \in Seq(X), NEW n, Has(table, n)
    PROVE  /\ At(table, n) \in DOMAIN table
           /\ table[At(table, n)].name = n
           /\ \A j \in 1 .. At(table, n) - 1 : table[j].name # n
PROOF
<1> DEFINE T == {i \in DOMAIN table : table[i].name = n}
<1>1. Len(table) \in Nat /\ DOMAIN table = 1 .. Len(table)
  BY LenProperties
<1>2. T # {} /\ T \subseteq Nat
  BY <1>1 DEF Has, Named
<1>3. PICK i \in T : \A j \in T : i <= j
  BY <1>2, LeastOf
<1>4. /\ i \in DOMAIN table /\ table[i].name = n
      /\ \A j \in 1 .. (i - 1) : table[j].name # n
  BY <1>1, <1>3
<1> QED
  BY <1>4 DEF At

\* It is the same in a table that begins with the same names.
LEMMA AtKept ==
    ASSUME NEW X, NEW s \in Seq(X), NEW t \in Seq(X), NEW n, Has(s, n),
           Len(s) <= Len(t), \A i \in 1 .. Len(s) : t[i].name = s[i].name
    PROVE  Has(t, n) /\ At(t, n) = At(s, n)
PROOF
<1>1. /\ Len(s) \in Nat /\ DOMAIN s = 1 .. Len(s)
      /\ Len(t) \in Nat /\ DOMAIN t = 1 .. Len(t)
  BY LenProperties
<1>2. PICK i : i = At(s, n)
  OBVIOUS
<1>3. i \in 1 .. Len(s) /\ s[i].name = n /\ \A j \in 1 .. i - 1 : s[j].name # n
  BY <1>1, <1>2, AtIs
<1>4. i \in DOMAIN t /\ t[i].name = n
  BY <1>1, <1>3
<1>5. Has(t, n)
  BY <1>4 DEF Has, Named
<1>6. PICK k : k = At(t, n)
  OBVIOUS
<1>7. k \in 1 .. Len(t) /\ t[k].name = n /\ \A j \in 1 .. k - 1 : t[j].name # n
  BY <1>1, <1>5, <1>6, AtIs
<1>8. ~ (i < k)
  BY <1>1, <1>3, <1>4, <1>7
<1>9. ~ (k < i)
  <2> SUFFICES ASSUME k < i
               PROVE  FALSE
    OBVIOUS
  <2>1. k \in 1 .. i - 1 /\ k \in 1 .. Len(s)
    BY <1>1, <1>3, <1>7
  <2> QED
    BY <1>3, <1>7, <2>1
<1> QED
  BY <1>1, <1>2, <1>3, <1>5, <1>6, <1>7, <1>8, <1>9

-----------------------------------------------------------------------------
(* The types of a plant.                                                   *)

\* Strings, among them the words of the model (which the provers have to be told).
Words ==
    {"", "(unsourced)", "line", "automatic", "controlPoint", "circuit", "released", "cut",
     "switches", "circuits", "controls", "masts", "automatics", "HD_CHAIN",
     "governedBy", "displays", "aligns", "clears", "home", "proceed", "entrance", "approaching",
     "governs", "approach", "reads", "opposing", "block", "leaving",
     "addTrackCircuit", "addLineInput", "addAutomaticSignal", "addControlPointLine"}
Text == STRING \cup Words

\* Names and the words of the interface are text.
LEMMA TextIs == STRING \subseteq Text /\ Words \subseteq Text
  BY DEF Text

Bonds == [kind : Text, name : Text, rel : Text]

OwnerTables == {"routes", "automatics", "controlPoints", "oldAutomatics", "oldControlPoints"}
Kind(t) ==
    IF t = "oldAutomatics" THEN "automatics"
    ELSE IF t = "oldControlPoints" THEN "controlPoints" ELSE t

EntryFields(owners) ==
    TermFields(owners) \cup {"name", "incomplete"}
    \cup (IF owners = "routes" THEN {"automatic"} ELSE {})
    \cup (IF owners = "controlPoints" THEN {"traffic"} ELSE {})

\* An entry of a table of owners: its arrays hold no more than they have room for.
OwnerEntries(owners) ==
    {r \in [EntryFields(owners) -> Text \cup BOOLEAN \cup Seq(Bonds)] :
        /\ r.name \in Text
        /\ r.incomplete \in BOOLEAN
        /\ owners = "routes" => r.automatic \in BOOLEAN
        /\ owners = "controlPoints" => r.traffic \in Text
        /\ \A f \in TermFields(owners) :
             r[f] \in Seq(Bonds) /\ Len(r[f]) <= Limit(owners, f)}

\* A gap is of a name that a call gave, or of an output of a location.
Reportable == Text \cup Outputs(Text, {"H", "D", "F"})

ApplianceTables ==
    {"circuits", "lines", "switches", "crossovers", "controls", "masts"}
Tables == ApplianceTables \cup {"locks", "gaps"} \cup OwnerTables
Entries(t) ==
    IF t = "circuits" THEN [name : Text, timeout : Nat]
    ELSE IF t = "lines" THEN [name : Text, implicit : BOOLEAN, timeout : Nat]
    ELSE IF t = "switches"
         THEN [name : Text, derail : BOOLEAN, base : Text, pair : Text]
    ELSE IF t = "crossovers" THEN [name : Text, a : Text, b : Text]
    ELSE IF t \in {"controls", "masts"} THEN [name : Text]
    ELSE IF t = "locks" THEN Text \X Text
    ELSE IF t = "gaps"
         THEN [name : Reportable, call : Text, owner : Reportable,
               kind : {"implicit", "no_slot", "missing", "conflict"}]
    ELSE OwnerEntries(Kind(t))

Slots(p, t) ==
    IF t = "routes" THEN MaxRoutes ELSE IF t = "gaps" THEN MaxGaps ELSE p.slots

PlantFields == Tables \cup {"slots", "default"}
IsPlant(p) ==
    /\ p = [f \in PlantFields |-> p[f]]
    /\ p.slots \in Nat /\ p.default \in Nat
    /\ \A t \in Tables : p[t] \in Seq(Entries(t)) /\ Len(p[t]) <= Slots(p, t)

\* A bond that an owner of the plant has, or a slot that a reset left behind.
HasBond(p, b) ==
    \E t \in OwnerTables : \E i \in DOMAIN p[t] : \E f \in TermFields(Kind(t)) :
      \E k \in DOMAIN p[t][i][f] : p[t][i][f][k] = b
Linked(p) == \A b : HasBond(p, b) => InTables(p, b)

\* What changes on the way from p to q: tables grow, the cells of W may be
\* written anew, those of E may have a term more, the owners in D may be
\* declared, and what is bound is in the tables.
NamedTables == ApplianceTables \cup Owners
Cell(p, owners, i, f) == <<owners, p[owners][i].name, f>>
NamesGrow(p, q) ==
    \A t \in NamedTables :
      Len(p[t]) <= Len(q[t]) /\ \A i \in 1 .. Len(p[t]) : q[t][i].name = p[t][i].name
Extends(s, t) == ToSet(s) \subseteq ToSet(t) /\ Len(t) <= Len(s) + 1
\* No owner becomes complete, and no route loses its automatic signal.
FlagsStay(o, r, s) ==
    /\ r.incomplete => s.incomplete
    /\ o = "routes" /\ r.automatic => s.automatic
Keeps(p, q, W, E, D) ==
    /\ IsPlant(q) /\ NamesGrow(p, q)
    /\ \A f \in {"slots", "default", "oldAutomatics", "oldControlPoints"} : q[f] = p[f]
    /\ \A o \in Owners : \A i \in 1 .. Len(p[o]) :
         /\ FlagsStay(o, p[o][i], q[o][i])
         /\ \A f \in TermFields(o) :
              /\ Cell(p, o, i, f) \notin W => Extends(p[o][i][f], q[o][i][f])
              /\ Cell(p, o, i, f) \notin W \cup E => q[o][i][f] = p[o][i][f]
    /\ \A o \in Owners : \A i \in 1 .. Len(q[o]) :
         i \in 1 .. Len(p[o]) \/ <<o, q[o][i].name>> \in D
    /\ \A b : HasBond(q, b) => HasBond(p, b) \/ InTables(q, b)

\* The owners and their fields, and that tables are sequences.
LEMMA TableTypes ==
    ASSUME NEW p, IsPlant(p), NEW t \in Tables
    PROVE  /\ p[t] \in Seq(Entries(t)) /\ Len(p[t]) \in Nat /\ DOMAIN p[t] = 1 .. Len(p[t])
           /\ \A i \in 1 .. Len(p[t]) : p[t][i] \in Entries(t)
PROOF
<1>1. p[t] \in Seq(Entries(t))
  BY DEF IsPlant
<1> QED
  BY <1>1, LenProperties, ElementOfSeq

\* The entries of owners.
LEMMA OwnerTypes ==
    ASSUME NEW p, IsPlant(p), NEW t \in OwnerTables
    PROVE  /\ Entries(t) = OwnerEntries(Kind(t)) /\ Kind(t) \in Owners
           /\ p[t] \in Seq(OwnerEntries(Kind(t))) /\ Len(p[t]) \in Nat
           /\ DOMAIN p[t] = 1 .. Len(p[t])
           /\ \A i \in 1 .. Len(p[t]) :
                /\ p[t][i] \in OwnerEntries(Kind(t))
                /\ p[t][i].name \in Text
                /\ p[t][i].incomplete \in BOOLEAN
                /\ \A f \in TermFields(Kind(t)) :
                     p[t][i][f] \in Seq(Bonds) /\ Len(p[t][i][f]) <= Limit(Kind(t), f)
PROOF
<1>1. t \in Tables
  BY DEF Tables
<1>2. Entries(t) = OwnerEntries(Kind(t)) /\ Kind(t) \in Owners
  BY DEF Entries, OwnerTables, Kind, Owners
<1> HIDE DEF Entries
<1>3. /\ p[t] \in Seq(OwnerEntries(Kind(t))) /\ Len(p[t]) \in Nat /\ DOMAIN p[t] = 1 .. Len(p[t])
      /\ \A i \in 1 .. Len(p[t]) : p[t][i] \in OwnerEntries(Kind(t))
  BY <1>1, <1>2, TableTypes
<1> QED
  BY <1>2, <1>3 DEF OwnerEntries

\* The names that a table begins with are still in it.
LEMMA NamesKept ==
    ASSUME NEW p, NEW q, IsPlant(p), IsPlant(q), NamesGrow(p, q), NEW t \in NamedTables
    PROVE  /\ Named(p[t]) \subseteq Named(q[t])
           /\ \A n : Has(p[t], n) => Has(q[t], n) /\ At(q[t], n) = At(p[t], n)
PROOF
<1>1. t \in Tables
  BY DEF NamedTables, Tables, Owners, OwnerTables
<1>2. Len(p[t]) <= Len(q[t]) /\ \A i \in 1 .. Len(p[t]) : q[t][i].name = p[t][i].name
  BY DEF NamesGrow
<1>3. p[t] \in Seq(Entries(t)) /\ q[t] \in Seq(Entries(t))
  BY <1>1, <1>2, TableTypes
<1>4. ASSUME NEW n, Has(p[t], n)
      PROVE  Has(q[t], n) /\ At(q[t], n) = At(p[t], n)
  BY <1>2, <1>3, <1>4, AtKept
<1> QED
  BY <1>4 DEF Has

\* More locations have more outputs.
LEMMA OutputsGrow ==
    ASSUME NEW A, NEW B, NEW S, NEW T, A \subseteq B, S \subseteq T
    PROVE  Outputs(A, S) \subseteq Outputs(B, T)
  BY SMT DEF Outputs

\* What was in the tables is in them.
LEMMA InTablesKept ==
    ASSUME NEW p, NEW q, IsPlant(p), IsPlant(q), NamesGrow(p, q), NEW b, InTables(p, b)
    PROVE  InTables(q, b)
PROOF
<1>1. /\ Named(p.lines) \subseteq Named(q.lines)
      /\ Named(p.automatics) \subseteq Named(q.automatics)
      /\ Named(p.controlPoints) \subseteq Named(q.controlPoints)
      /\ Named(p.circuits) \subseteq Named(q.circuits)
      /\ Named(p.switches) \subseteq Named(q.switches)
      /\ Named(p.crossovers) \subseteq Named(q.crossovers)
      /\ Named(p.controls) \subseteq Named(q.controls)
      /\ Named(p.masts) \subseteq Named(q.masts)
  BY NamesKept DEF NamedTables, ApplianceTables, Owners
<1>2. CASE b.kind = "controlPoint"
  <2> DEFINE all(r) == Outputs(Named(r.controlPoints), {"H", "D", "F"})
  <2>1. all(p) \subseteq all(q)
    BY <1>1, OutputsGrow
  <2>2. InTables(p, b) <=> b.name \in all(p)
    BY <1>2 DEF InTables
  <2>3. InTables(q, b) <=> b.name \in all(q)
    BY <1>2 DEF InTables
  <2> HIDE DEF all
  <2> QED
    BY <2>1, <2>2, <2>3
<1>3. CASE b.kind \in {"line", "automatic", "circuit"}
  <2> DEFINE outputs(r) == Outputs(Named(r.automatics), {"H", "D"})
  <2>1. /\ Produced(p, "line") = Named(p.lines) /\ Produced(q, "line") = Named(q.lines)
        /\ Produced(p, "automatic") = outputs(p) /\ Produced(q, "automatic") = outputs(q)
        /\ Produced(p, "circuit") = Named(p.circuits)
        /\ Produced(q, "circuit") = Named(q.circuits)
    BY DEF Produced
  <2>5. outputs(p) \subseteq outputs(q)
    BY <1>1, OutputsGrow
  <2> HIDE DEF outputs
  <2>2. Produced(p, b.kind) \subseteq Produced(q, b.kind)
    BY <1>1, <1>3, <2>1, <2>5
  <2>3. InTables(p, b) <=> b.name \in Produced(p, b.kind)
    BY <1>3 DEF InTables
  <2>4. InTables(q, b) <=> b.name \in Produced(q, b.kind)
    BY <1>3 DEF InTables
  <2> QED
    BY <2>2, <2>3, <2>4
<1>4. CASE b.kind = "switches"
  BY <1>1, <1>4 DEF InTables, FindSwitch, Has
<1>5. CASE b.kind \in {"circuits", "controls", "masts", "automatics"}
  <2>1. Named(p[b.kind]) \subseteq Named(q[b.kind])
    BY <1>1, <1>5
  <2>2. InTables(p, b) <=> b.name \in Named(p[b.kind])
    BY <1>5 DEF InTables, Has
  <2>3. InTables(q, b) <=> b.name \in Named(q[b.kind])
    BY <1>5 DEF InTables, Has
  <2> QED
    BY <2>1, <2>2, <2>3
<1>6. CASE b.kind = "cut"
  BY <1>1, <1>6 DEF InTables, Has
<1>7. CASE b.kind \notin {"controlPoint", "line", "automatic", "circuit", "switches", "circuits",
                          "controls", "masts", "automatics", "cut"}
  BY <1>7 DEF InTables
<1> QED
  BY <1>2, <1>3, <1>4, <1>5, <1>6, <1>7

\* A change that is none.
LEMMA FlagsSame ==
    ASSUME NEW o, NEW r
    PROVE  FlagsStay(o, r, r)
  BY DEF FlagsStay

\* A field that nothing touches holds what it held.
LEMMA ExtendsSame ==
    ASSUME NEW p, IsPlant(p), NEW o \in Owners, NEW i \in 1 .. Len(p[o]), NEW f \in TermFields(o)
    PROVE  Extends(p[o][i][f], p[o][i][f]) /\ Len(p[o][i][f]) \in Nat
PROOF
<1>1. o \in OwnerTables /\ Kind(o) = o
  BY DEF Owners, OwnerTables, Kind
<1>2. p[o][i][f] \in Seq(Bonds)
  BY <1>1, OwnerTypes
<1> QED
  BY <1>2, LenProperties DEF Extends

\* Nothing changed is everything kept.
LEMMA KeepsSame ==
    ASSUME NEW p, NEW W, NEW E, NEW D, IsPlant(p)
    PROVE  Keeps(p, p, W, E, D)
PROOF
<1>1. \A t \in NamedTables : Len(p[t]) \in Nat
  BY TableTypes DEF NamedTables, Tables, Owners, OwnerTables
<1> QED
  BY <1>1, ExtendsSame, FlagsSame DEF Keeps, NamesGrow

\* A change that is allowed more.
LEMMA KeepsMore ==
    ASSUME NEW p, NEW q, NEW V, NEW F, NEW C, NEW W, NEW E, NEW D, Keeps(p, q, V, F, C),
           V \subseteq W, F \subseteq E \cup W, C \subseteq D
    PROVE  Keeps(p, q, W, E, D)
  BY DEF Keeps

\* One change after the other.
LEMMA KeepsBoth ==
    ASSUME NEW p, NEW q, NEW r, NEW V, NEW W, NEW E, NEW F, NEW C, NEW D,
           IsPlant(p), Keeps(p, q, V, E, C), Keeps(q, r, W, F, D), E \cap F \subseteq V \cup W
    PROVE  Keeps(p, r, V \cup W, E \cup F, C \cup D)
PROOF
<1>0. IsPlant(q) /\ IsPlant(r)
  BY DEF Keeps
<1>1. \A t \in NamedTables : Len(p[t]) \in Nat /\ Len(q[t]) \in Nat /\ Len(r[t]) \in Nat
  BY <1>0, TableTypes DEF NamedTables, Tables, Owners, OwnerTables
<1>2. \A f \in {"slots", "default", "oldAutomatics", "oldControlPoints"} : r[f] = p[f]
  BY DEF Keeps
<1>3. ASSUME NEW t \in NamedTables
      PROVE  /\ Len(p[t]) <= Len(r[t])
             /\ \A i \in 1 .. Len(p[t]) : r[t][i].name = p[t][i].name
  <2>1. /\ Len(p[t]) <= Len(q[t]) /\ \A i \in 1 .. Len(p[t]) : q[t][i].name = p[t][i].name
        /\ Len(q[t]) <= Len(r[t]) /\ \A i \in 1 .. Len(q[t]) : r[t][i].name = q[t][i].name
    BY DEF Keeps, NamesGrow
  <2>2. Len(p[t]) \in Nat /\ Len(q[t]) \in Nat /\ Len(r[t]) \in Nat
    BY <1>1
  <2> QED
    BY <2>1, <2>2
<1>4. ASSUME NEW o \in Owners, NEW i \in 1 .. Len(p[o])
      PROVE  /\ FlagsStay(o, p[o][i], r[o][i])
             /\ \A f \in TermFields(o) :
                  /\ Cell(p, o, i, f) \notin V \cup W => Extends(p[o][i][f], r[o][i][f])
                  /\ Cell(p, o, i, f) \notin (V \cup W) \cup (E \cup F) => r[o][i][f] = p[o][i][f]
  <2>1. o \in NamedTables
    BY DEF NamedTables
  <2>2. Len(p[o]) \in Nat /\ Len(q[o]) \in Nat /\ Len(p[o]) <= Len(q[o])
        /\ q[o][i].name = p[o][i].name
    BY <1>1, <2>1 DEF Keeps, NamesGrow
  <2>3. i \in 1 .. Len(q[o])
    BY <2>2
  <2>4. FlagsStay(o, p[o][i], r[o][i])
    <3>1. FlagsStay(o, p[o][i], q[o][i]) /\ FlagsStay(o, q[o][i], r[o][i])
      BY <2>3 DEF Keeps
    <3> QED
      BY <3>1 DEF FlagsStay
  <2>5. \A f : Cell(q, o, i, f) = Cell(p, o, i, f)
    BY <2>2 DEF Cell
  <2>6. ASSUME NEW f \in TermFields(o)
        PROVE  /\ Cell(p, o, i, f) \notin V => Extends(p[o][i][f], q[o][i][f])
               /\ Cell(p, o, i, f) \notin W => Extends(q[o][i][f], r[o][i][f])
               /\ Cell(p, o, i, f) \notin V \cup E => q[o][i][f] = p[o][i][f]
               /\ Cell(p, o, i, f) \notin W \cup F => r[o][i][f] = q[o][i][f]
    <3>1. /\ Cell(p, o, i, f) \notin V => Extends(p[o][i][f], q[o][i][f])
          /\ Cell(p, o, i, f) \notin V \cup E => q[o][i][f] = p[o][i][f]
      BY DEF Keeps
    <3>2. /\ Cell(q, o, i, f) \notin W => Extends(q[o][i][f], r[o][i][f])
          /\ Cell(q, o, i, f) \notin W \cup F => r[o][i][f] = q[o][i][f]
      BY <2>3 DEF Keeps
    <3> QED
      BY <2>5, <3>1, <3>2
  <2>7. ASSUME NEW f \in TermFields(o), Cell(p, o, i, f) \notin V \cup W
        PROVE  Extends(p[o][i][f], r[o][i][f])
    <3>1. CASE Cell(p, o, i, f) \notin E
      <4>1. q[o][i][f] = p[o][i][f] /\ Extends(q[o][i][f], r[o][i][f])
        BY <2>6, <2>7, <3>1
      <4> QED
        BY <4>1
    <3>2. CASE Cell(p, o, i, f) \notin F
      <4>1. r[o][i][f] = q[o][i][f] /\ Extends(p[o][i][f], q[o][i][f])
        BY <2>6, <2>7, <3>2
      <4> QED
        BY <4>1
    <3> QED
      BY <2>7, <3>1, <3>2
  <2> QED
    BY <2>4, <2>6, <2>7
<1>5. ASSUME NEW o \in Owners, NEW i \in 1 .. Len(r[o]), i \notin 1 .. Len(p[o])
      PROVE  <<o, r[o][i].name>> \in C \cup D
  <2>1. /\ i \in 1 .. Len(q[o]) \/ <<o, r[o][i].name>> \in D
        /\ i \in 1 .. Len(q[o]) => <<o, q[o][i].name>> \in C
        /\ i \in 1 .. Len(q[o]) => r[o][i].name = q[o][i].name
    BY <1>5 DEF Keeps, NamesGrow, NamedTables
  <2> QED
    BY <2>1
<1>6. ASSUME NEW b, HasBond(r, b)
      PROVE  HasBond(p, b) \/ InTables(r, b)
  <2>1. HasBond(q, b) \/ InTables(r, b)
    BY <1>6 DEF Keeps
  <2>2. HasBond(q, b) => HasBond(p, b) \/ InTables(q, b)
    BY DEF Keeps
  <2>3. NamesGrow(q, r)
    BY DEF Keeps
  <2> QED
    BY <1>0, <2>1, <2>2, <2>3, InTablesKept
<1>7. NamesGrow(p, r)
  BY <1>3 DEF NamesGrow
<1> QED
  BY <1>0, <1>2, <1>4, <1>5, <1>6, <1>7 DEF Keeps

\* A change, and then one that only adds to the report or the tables.
LEMMA KeepsThen ==
    ASSUME NEW p, NEW q, NEW r, NEW W, NEW E, NEW D,
           IsPlant(p), Keeps(p, q, W, E, D), Keeps(q, r, {}, {}, {})
    PROVE  Keeps(p, r, W, E, D) /\ IsPlant(q) /\ IsPlant(r)
PROOF
<1>1. E \cap {} \subseteq W \cup {} /\ W \cup {} = W /\ E \cup {} = E /\ D \cup {} = D
  OBVIOUS
<1>2. Keeps(p, r, W \cup {}, E \cup {}, D \cup {})
  BY <1>1, KeepsBoth
<1> QED
  BY <1>1, <1>2 DEF Keeps

\* One that only adds to the report or the tables, and then a change.
LEMMA KeepsAfter ==
    ASSUME NEW p, NEW q, NEW r, NEW W, NEW E, NEW D,
           IsPlant(p), Keeps(p, q, {}, {}, {}), Keeps(q, r, W, E, D)
    PROVE  Keeps(p, r, W, E, D) /\ IsPlant(q) /\ IsPlant(r)
PROOF
<1>1. {} \cap E \subseteq {} \cup W /\ {} \cup W = W /\ {} \cup E = E /\ {} \cup D = D
  OBVIOUS
<1>2. Keeps(p, r, {} \cup W, {} \cup E, {} \cup D)
  BY <1>1, KeepsBoth
<1> QED
  BY <1>1, <1>2 DEF Keeps

-----------------------------------------------------------------------------
(* The two ways to change a plant: an entry more, or a field of an entry.  *)

\* The fields of the three kinds of owners, apart from their flags.
LEMMA FieldNames ==
    /\ TermFields("routes") = {"governedBy", "displays", "aligns", "clears", "home",
                               "proceed", "entrance", "approaching"}
    /\ TermFields("automatics") = {"governs", "approach", "h", "d", "opposing"}
    /\ TermFields("controlPoints") = {"governs", "block", "leaving", "home"}
    /\ \A o \in Owners : TermFields(o) \subseteq EntryFields(o)
    /\ \A o \in Owners : {"name", "incomplete", "automatic", "traffic"} \cap TermFields(o) = {}
    /\ \A o \in Owners : {"name", "incomplete"} \subseteq EntryFields(o)
    /\ "automatic" \in EntryFields("routes") /\ "traffic" \in EntryFields("controlPoints")
PROOF
<1>1. /\ TermFields("routes") = {"governedBy", "displays", "aligns", "clears", "home",
                                 "proceed", "entrance", "approaching"}
      /\ TermFields("automatics") = {"governs", "approach", "h", "d", "opposing"}
      /\ TermFields("controlPoints") = {"governs", "block", "leaving", "home"}
  BY DEF TermFields
<1> QED
  BY <1>1 DEF EntryFields, Owners

\* The sizes of the arrays.
LEMMA Limits ==
    /\ \A o \in Owners : \A f \in TermFields(o) : Limit(o, f) \in Nat
    /\ Limit("routes", "aligns") = MaxRouteTerms /\ Limit("routes", "clears") = MaxRouteTerms
    /\ Limit("routes", "home") = MaxRouteTerms
    /\ \A f \in {"governedBy", "displays", "proceed", "entrance", "approaching"} :
          Limit("routes", f) = 1
    /\ Limit("automatics", "governs") = MaxBlockFacts
    /\ Limit("automatics", "approach") = MaxBlockFacts
    /\ \A f \in {"h", "d", "opposing"} : Limit("automatics", f) = 1
    /\ Limit("controlPoints", "governs") = MaxBlockFacts
    /\ Limit("controlPoints", "block") = MaxRouteTerms
    /\ Limit("controlPoints", "leaving") = MaxLineMasts
    /\ Limit("controlPoints", "home") = 1
PROOF
<1>1. /\ Limit("routes", "aligns") = MaxRouteTerms /\ Limit("routes", "clears") = MaxRouteTerms
      /\ Limit("routes", "home") = MaxRouteTerms
      /\ Limit("routes", "governedBy") = 1 /\ Limit("routes", "displays") = 1
      /\ Limit("routes", "proceed") = 1 /\ Limit("routes", "entrance") = 1
      /\ Limit("routes", "approaching") = 1
  BY DEF Limit
<1>2. /\ Limit("automatics", "governs") = MaxBlockFacts
      /\ Limit("automatics", "approach") = MaxBlockFacts
      /\ Limit("automatics", "h") = 1 /\ Limit("automatics", "d") = 1
      /\ Limit("automatics", "opposing") = 1
  BY DEF Limit
<1>3. /\ Limit("controlPoints", "governs") = MaxBlockFacts
      /\ Limit("controlPoints", "block") = MaxRouteTerms
      /\ Limit("controlPoints", "leaving") = MaxLineMasts
      /\ Limit("controlPoints", "home") = 1
  BY DEF Limit
<1>4. \A o \in Owners : \A f \in TermFields(o) : Limit(o, f) \in Nat
  BY <1>1, <1>2, <1>3, FieldNames, SizesAssumption DEF Owners
<1> QED
  BY <1>1, <1>2, <1>3, <1>4

\* One entry more, where there is room for it.
LEMMA AddTo ==
    ASSUME NEW p, IsPlant(p), NEW t \in Tables, NEW e \in Entries(t),
           Len(p[t]) < Slots(p, t), NEW q, q = Add(p, t, e)
    PROVE  /\ IsPlant(q)
           /\ Len(q[t]) = Len(p[t]) + 1 /\ q[t][Len(p[t]) + 1] = e
           /\ \A i \in 1 .. Len(p[t]) : q[t][i] = p[t][i]
           /\ \A f \in PlantFields \ {t} : q[f] = p[f]
PROOF
<1>1. p[t] \in Seq(Entries(t)) /\ Len(p[t]) \in Nat
  BY TableTypes
<1>2. p = [f \in PlantFields |-> p[f]] /\ t \in PlantFields
  BY DEF IsPlant, PlantFields
<1>3. q = [p EXCEPT ![t] = Append(p[t], e)]
  BY DEF Add
<1>4. /\ q = [f \in PlantFields |-> q[f]] /\ q[t] = Append(p[t], e)
      /\ \A f \in PlantFields \ {t} : q[f] = p[f]
  BY <1>2, <1>3
<1>5. PICK s : s = Append(p[t], e)
  OBVIOUS
<1>6. /\ s \in Seq(Entries(t)) /\ Len(s) = Len(p[t]) + 1 /\ s[Len(p[t]) + 1] = e
      /\ \A i \in 1 .. Len(p[t]) : s[i] = p[t][i]
  BY <1>1, <1>5, AppendProperties
<1>7. {"slots", "default"} \subseteq PlantFields \ {t}
  BY DEF PlantFields, Tables, ApplianceTables, OwnerTables
<1>8. q.slots = p.slots /\ q.default = p.default
  BY <1>4, <1>7
<1>9. ASSUME NEW u \in Tables
      PROVE  q[u] \in Seq(Entries(u)) /\ Len(q[u]) <= Slots(q, u)
  <2>1. Slots(q, u) = Slots(p, u)
    BY <1>8 DEF Slots
  <2>2. CASE u = t
    <3>1. Slots(p, t) \in Nat
      BY SizesAssumption DEF Slots, IsPlant
    <3>2. q[t] = s
      BY <1>4, <1>5, Zenon
    <3>3. Len(q[t]) <= Slots(p, t)
      BY <1>1, <1>6, <3>1, <3>2
    <3> QED
      BY <1>6, <2>1, <2>2, <3>2, <3>3, Zenon
  <2>3. CASE u # t
    <3>1. q[u] = p[u]
      BY <1>4, <2>3 DEF PlantFields
    <3> QED
      BY <2>1, <3>1 DEF IsPlant
  <2> QED
    BY <2>2, <2>3
<1>10. IsPlant(q)
  BY <1>4, <1>8, <1>9 DEF IsPlant
<1> QED
  BY <1>4, <1>5, <1>6, <1>10

\* An appliance, a lock or a line of the report more.
LEMMA AddAppliance ==
    ASSUME NEW p, IsPlant(p), NEW t \in ApplianceTables \cup {"locks", "gaps"},
           NEW e \in Entries(t), Len(p[t]) < Slots(p, t), NEW q, q = Add(p, t, e)
    PROVE  Keeps(p, q, {}, {}, {}) /\ (t \in ApplianceTables => Has(q[t], e.name))
PROOF
<1>1. t \in Tables
  BY DEF Tables
<1>2. /\ IsPlant(q) /\ Len(q[t]) = Len(p[t]) + 1 /\ q[t][Len(p[t]) + 1] = e
      /\ \A i \in 1 .. Len(p[t]) : q[t][i] = p[t][i]
      /\ \A f \in PlantFields \ {t} : q[f] = p[f]
  BY <1>1, AddTo
<1>3. \A f \in OwnerTables \cup {"slots", "default"} : q[f] = p[f]
  BY <1>2 DEF PlantFields, Tables, ApplianceTables, OwnerTables
<1>4. \A u \in NamedTables : Len(p[u]) \in Nat
  BY TableTypes DEF NamedTables, Tables, Owners, OwnerTables
<1>5. ASSUME NEW u \in NamedTables
      PROVE  /\ Len(p[u]) <= Len(q[u])
             /\ \A i \in 1 .. Len(p[u]) : q[u][i].name = p[u][i].name
  <2>1. CASE u = t
    BY <1>2, <1>4, <2>1
  <2>2. CASE u # t
    <3>1. q[u] = p[u]
      BY <1>2, <2>2 DEF NamedTables, PlantFields, Tables, Owners, OwnerTables
    <3> QED
      BY <1>4, <3>1
  <2> QED
    BY <2>1, <2>2
<1>6. \A o \in Owners : q[o] = p[o]
  BY <1>3 DEF Owners, OwnerTables
<1>7. \A b : HasBond(q, b) <=> HasBond(p, b)
  BY <1>3 DEF HasBond
<1>8. Keeps(p, q, {}, {}, {})
  BY ExtendsSame, FlagsSame, <1>2, <1>3, <1>5, <1>6, <1>7 DEF Keeps, NamesGrow, OwnerTables
<1>9. ASSUME t \in ApplianceTables
      PROVE  Has(q[t], e.name)
  <2>1. DOMAIN q[t] = 1 .. Len(p[t]) + 1 /\ Len(p[t]) \in Nat
    BY <1>1, <1>2, TableTypes
  <2> QED
    BY <1>2, <2>1 DEF Has, Named
<1> QED
  BY <1>8, <1>9

\* An owner more: what it is bound to is left from before the last reset.
BondsOf(p, t, e) == \A f \in TermFields(t) : \A k \in DOMAIN e[f] : HasBond(p, e[f][k])

Appended(p, q, t, e) ==
    /\ Len(q[t]) = Len(p[t]) + 1 /\ q[t][Len(p[t]) + 1] = e
    /\ \A i \in 1 .. Len(p[t]) : q[t][i] = p[t][i]
    /\ \A f \in PlantFields \ {t} : q[f] = p[f]

\* An owner is appended to its table and keeps what the others hold.
LEMMA AddOwner ==
    ASSUME NEW p, IsPlant(p), NEW t \in Owners, NEW e \in Entries(t), NEW n, e.name = n,
           Len(p[t]) < Slots(p, t), NEW q, q = Add(p, t, e), BondsOf(p, t, e)
    PROVE  /\ Keeps(p, q, {}, {}, {<<t, n>>}) /\ Has(q[t], n)
           /\ Appended(p, q, t, e)
PROOF
<1>1. t \in Tables /\ t \in OwnerTables /\ Kind(t) = t
  BY DEF Tables, Owners, OwnerTables, Kind
<1>2. /\ IsPlant(q) /\ Len(q[t]) = Len(p[t]) + 1 /\ q[t][Len(p[t]) + 1] = e
      /\ \A i \in 1 .. Len(p[t]) : q[t][i] = p[t][i]
      /\ \A f \in PlantFields \ {t} : q[f] = p[f]
  BY <1>1, AddTo
<1>3. \A f \in {"slots", "default", "oldAutomatics", "oldControlPoints"} : q[f] = p[f]
  BY <1>2 DEF PlantFields, Tables, OwnerTables, Owners
<1>4. \A u \in NamedTables : Len(p[u]) \in Nat
  BY TableTypes DEF NamedTables, Tables, Owners, OwnerTables
<1>5. \A u \in NamedTables \ {t} : q[u] = p[u]
  BY <1>2 DEF NamedTables, PlantFields, Tables, Owners, OwnerTables
<1>6. \A u \in NamedTables : /\ Len(p[u]) <= Len(q[u])
                             /\ \A i \in 1 .. Len(p[u]) : q[u][i].name = p[u][i].name
  BY <1>2, <1>4, <1>5
<1>7. \A o \in Owners : \A i \in 1 .. Len(p[o]) : q[o][i] = p[o][i]
  BY <1>2, <1>5 DEF NamedTables
<1>8. \A o \in Owners : \A i \in 1 .. Len(q[o]) :
          i \in 1 .. Len(p[o]) \/ <<o, q[o][i].name>> = <<t, n>>
  <2> TAKE o \in Owners
  <2> TAKE i \in 1 .. Len(q[o])
  <2>1. CASE o = t
    <3>1. i \in 1 .. Len(p[t]) \/ i = Len(p[t]) + 1
      BY <1>2, <1>4, <2>1 DEF NamedTables
    <3> QED
      BY <1>2, <2>1, <3>1
  <2>2. CASE o # t
    BY <1>5, <2>2 DEF NamedTables
  <2> QED
    BY <2>1, <2>2
<1>9. ASSUME NEW b, HasBond(q, b)
      PROVE  HasBond(p, b)
  <2>1. PICK u \in OwnerTables : \E i \in DOMAIN q[u] : \E f \in TermFields(Kind(u)) :
                \E k \in DOMAIN q[u][i][f] : q[u][i][f][k] = b
    BY <1>9 DEF HasBond
  <2>2. CASE u # t
    <3>1. q[u] = p[u]
      BY <1>2, <2>2 DEF PlantFields, Tables
    <3> QED
      BY <2>1, <3>1 DEF HasBond
  <2>3. CASE u = t
    <3>1. PICK i \in DOMAIN q[t], f \in TermFields(t) : \E k \in DOMAIN q[t][i][f] : q[t][i][f][k] = b
      BY <1>1, <2>1, <2>3
    <3>2. DOMAIN q[t] = 1 .. Len(p[t]) + 1 /\ DOMAIN p[t] = 1 .. Len(p[t]) /\ Len(p[t]) \in Nat
      BY <1>1, <1>2, TableTypes
    <3>3. CASE i = Len(p[t]) + 1
      BY <1>2, <3>1, <3>3 DEF BondsOf
    <3>4. CASE i # Len(p[t]) + 1
      <4>1. i \in DOMAIN p[t] /\ q[t][i] = p[t][i]
        BY <1>2, <3>2, <3>4
      <4> QED
        BY <1>1, <3>1, <4>1 DEF HasBond
    <3> QED
      BY <3>3, <3>4
  <2> QED
    BY <2>2, <2>3
<1>10. Keeps(p, q, {}, {}, {<<t, n>>})
  BY ExtendsSame, FlagsSame, <1>2, <1>3, <1>6, <1>7, <1>8, <1>9 DEF Keeps, NamesGrow
<1>11. Has(q[t], n)
  <2>1. DOMAIN q[t] = 1 .. Len(p[t]) + 1 /\ Len(p[t]) \in Nat
    BY <1>1, <1>2, TableTypes
  <2> QED
    BY <1>2, <2>1 DEF Has, Named
<1> QED
  BY <1>2, <1>10, <1>11 DEF Appended

\* What may be written into a field of an owner.
Fits(o, g, v) ==
    /\ g \in EntryFields(o) \ {"name"}
    /\ g \in TermFields(o) => v \in Seq(Bonds) /\ Len(v) <= Limit(o, g)
    /\ g \in {"incomplete", "automatic"} => v \in BOOLEAN
    /\ g = "traffic" => v \in Text

Written(e, g, v) == [e EXCEPT ![g] = v]

\* An owner with a field written is an owner.
LEMMA EntryChanged ==
    ASSUME NEW o \in Owners, NEW e \in OwnerEntries(o), NEW g, NEW v, Fits(o, g, v),
           NEW w, w = Written(e, g, v)
    PROVE  /\ w \in OwnerEntries(o) /\ w.name = e.name /\ w[g] = v
           /\ \A f \in EntryFields(o) : f # g => w[f] = e[f]
PROOF
<1> DEFINE Values == Text \cup BOOLEAN \cup Seq(Bonds)
<1>1. /\ e \in [EntryFields(o) -> Values]
      /\ e.name \in Text /\ e.incomplete \in BOOLEAN
      /\ o = "routes" => e.automatic \in BOOLEAN
      /\ o = "controlPoints" => e.traffic \in Text
      /\ \A f \in TermFields(o) : e[f] \in Seq(Bonds) /\ Len(e[f]) <= Limit(o, f)
  BY DEF OwnerEntries
<1>2. g \in EntryFields(o) /\ g # "name"
  BY DEF Fits
<1>3. v \in Values
  <2>1. g \in TermFields(o) \cup {"incomplete", "automatic", "traffic"}
    BY <1>2 DEF EntryFields
  <2> QED
    BY <2>1 DEF Fits
<1> HIDE DEF Values
<1>4. /\ w \in [EntryFields(o) -> Values] /\ w[g] = v
      /\ \A f \in EntryFields(o) : f # g => w[f] = e[f]
  BY <1>1, <1>2, <1>3 DEF Written
<1>5. /\ "name" \in EntryFields(o) /\ "incomplete" \in EntryFields(o)
      /\ TermFields(o) \subseteq EntryFields(o)
      /\ o = "routes" => "automatic" \in EntryFields(o)
      /\ o = "controlPoints" => "traffic" \in EntryFields(o)
      /\ {"name", "incomplete", "automatic", "traffic"} \cap TermFields(o) = {}
  BY FieldNames
<1>6. w.name = e.name
  BY <1>2, <1>4, <1>5
<1>7. w.incomplete \in BOOLEAN
  BY <1>1, <1>4, <1>5 DEF Fits
<1>8. o = "routes" => w.automatic \in BOOLEAN
  BY <1>1, <1>4, <1>5 DEF Fits
<1>9. o = "controlPoints" => w.traffic \in Text
  BY <1>1, <1>4, <1>5 DEF Fits
<1>10. \A f \in TermFields(o) : w[f] \in Seq(Bonds) /\ Len(w[f]) <= Limit(o, f)
  <2> TAKE f \in TermFields(o)
  <2>1. CASE f = g
    BY <1>4, <2>1 DEF Fits
  <2>2. CASE f # g
    <3>1. w[f] = e[f]
      BY <1>4, <1>5, <2>2
    <3> QED
      BY <1>1, <3>1
  <2> QED
    BY <2>1, <2>2
<1> QED
  BY <1>1, <1>4, <1>6, <1>7, <1>8, <1>9, <1>10 DEF OwnerEntries, Values

\* A plant with a field of an owner written is a plant.
LEMMA OwnerChanged ==
    ASSUME NEW p, IsPlant(p), NEW o \in Owners, NEW n, Has(p[o], n), NEW g, NEW v, Fits(o, g, v),
           NEW q, q = Set(p, o, n, g, v)
    PROVE  /\ IsPlant(q) /\ NamesGrow(p, q)
           /\ \A f \in PlantFields \ {o} : q[f] = p[f]
           /\ Len(q[o]) = Len(p[o])
           /\ At(p[o], n) \in 1 .. Len(p[o])
           /\ p[o][At(p[o], n)].name = n
           /\ \A i \in 1 .. Len(p[o]) : i # At(p[o], n) => q[o][i] = p[o][i]
           /\ q[o][At(p[o], n)][g] = v
           /\ \A f \in EntryFields(o) : f # g => q[o][At(p[o], n)][f] = p[o][At(p[o], n)][f]
PROOF
<1>1. o \in Tables /\ o \in OwnerTables /\ Kind(o) = o /\ o \in PlantFields
  BY DEF Tables, Owners, OwnerTables, Kind, PlantFields
<1>2. /\ Entries(o) = OwnerEntries(o) /\ p[o] \in Seq(OwnerEntries(o)) /\ Len(p[o]) \in Nat
      /\ DOMAIN p[o] = 1 .. Len(p[o]) /\ \A i \in 1 .. Len(p[o]) : p[o][i] \in OwnerEntries(o)
  BY <1>1, OwnerTypes
<1>3. PICK a : a = At(p[o], n)
  OBVIOUS
<1>4. a \in 1 .. Len(p[o]) /\ p[o][a].name = n
  BY <1>2, <1>3, AtIs
<1>5. PICK w : w = [p[o][a] EXCEPT ![g] = v]
  OBVIOUS
<1>6. /\ w \in OwnerEntries(o) /\ w.name = n /\ w[g] = v
      /\ \A f \in EntryFields(o) : f # g => w[f] = p[o][a][f]
  <2>1. p[o][a] \in OwnerEntries(o)
    BY <1>2, <1>4
  <2>2. /\ w \in OwnerEntries(o) /\ w.name = p[o][a].name /\ w[g] = v
        /\ \A f \in EntryFields(o) : f # g => w[f] = p[o][a][f]
    <3>1. PICK e : e = p[o][a]
      OBVIOUS
    <3>2. e \in OwnerEntries(o) /\ w = Written(e, g, v)
      BY <1>5, <2>1, <3>1 DEF Written
    <3>3. /\ w \in OwnerEntries(o) /\ w.name = e.name /\ w[g] = v
          /\ \A f \in EntryFields(o) : f # g => w[f] = e[f]
      BY <3>2, EntryChanged
    <3> QED
      BY <3>1, <3>3
  <2> QED
    BY <1>4, <2>2
<1>7. PICK s : s = [p[o] EXCEPT ![a] = w]
  OBVIOUS
<1>8. /\ s \in Seq(OwnerEntries(o)) /\ Len(s) = Len(p[o]) /\ s[a] = w
      /\ \A i \in 1 .. Len(p[o]) : i # a => s[i] = p[o][i]
  <2>1. s \in Seq(OwnerEntries(o)) /\ Len(s) = Len(p[o])
    BY <1>2, <1>4, <1>6, <1>7, ExceptSeq
  <2>2. s[a] = w /\ \A i \in DOMAIN p[o] : i # a => s[i] = p[o][i]
    BY <1>2, <1>4, <1>7
  <2> QED
    BY <1>2, <2>1, <2>2
<1>9. Changed(p[o], n, g, v) = s
  BY <1>3, <1>5, <1>7 DEF Changed
<1>10. p = [f \in PlantFields |-> p[f]]
  BY DEF IsPlant
<1>11. /\ q = [f \in PlantFields |-> q[f]] /\ q[o] = s
       /\ \A f \in PlantFields \ {o} : q[f] = p[f]
  BY <1>1, <1>9, <1>10 DEF Set
<1>12. q.slots = p.slots /\ q.default = p.default
  BY <1>11 DEF PlantFields, Owners
<1>13. ASSUME NEW t \in Tables
       PROVE  q[t] \in Seq(Entries(t)) /\ Len(q[t]) <= Slots(q, t)
  <2>1. Slots(q, t) = Slots(p, t)
    BY <1>12 DEF Slots
  <2>2. CASE t = o
    <3>1. Len(p[o]) <= Slots(p, o)
      BY <1>1 DEF IsPlant
    <3>2. q[t] \in Seq(Entries(t)) /\ Len(q[t]) = Len(p[o])
      BY <1>2, <1>8, <1>11, <2>2
    <3> QED
      BY <2>1, <2>2, <3>1, <3>2
  <2>3. CASE t # o
    <3>1. q[t] = p[t]
      BY <1>11, <2>3 DEF PlantFields
    <3> QED
      BY <2>1, <3>1 DEF IsPlant
  <2> QED
    BY <2>2, <2>3
<1>14. IsPlant(q)
  BY <1>11, <1>12, <1>13 DEF IsPlant
<1>15. ASSUME NEW t \in NamedTables
       PROVE  Len(p[t]) <= Len(q[t]) /\ \A i \in 1 .. Len(p[t]) : q[t][i].name = p[t][i].name
  <2>1. CASE t = o
    <3>1. Len(q[o]) = Len(p[o]) /\ \A i \in 1 .. Len(p[o]) : q[o][i].name = p[o][i].name
      BY <1>4, <1>6, <1>8, <1>11
    <3> QED
      BY <1>2, <2>1, <3>1
  <2>2. CASE t # o
    <3>1. q[t] = p[t] /\ Len(p[t]) \in Nat
      BY <1>11, <2>2, TableTypes DEF NamedTables, PlantFields, Tables, Owners, OwnerTables
    <3> QED
      BY <3>1
  <2> QED
    BY <2>1, <2>2
<1>16. NamesGrow(p, q)
  BY <1>15 DEF NamesGrow
<1>17. /\ \A f \in PlantFields \ {o} : q[f] = p[f]
       /\ Len(q[o]) = Len(p[o])
       /\ a \in 1 .. Len(p[o])
       /\ p[o][a].name = n
       /\ \A i \in 1 .. Len(p[o]) : i # a => q[o][i] = p[o][i]
       /\ q[o][a][g] = v
       /\ \A f \in EntryFields(o) : f # g => q[o][a][f] = p[o][a][f]
  BY <1>4, <1>6, <1>8, <1>11
<1> QED
  BY <1>3, <1>14, <1>16, <1>17

\* Without such an owner nothing is written.
LEMMA NoOwner ==
    ASSUME NEW p, IsPlant(p), NEW o \in Owners, NEW n, ~Has(p[o], n), NEW g, NEW v
    PROVE  Set(p, o, n, g, v) = p
PROOF
<1>1. p = [f \in PlantFields |-> p[f]] /\ o \in PlantFields
  BY DEF IsPlant, PlantFields, Owners, Tables, OwnerTables
<1>2. Changed(p[o], n, g, v) = p[o]
  BY DEF Changed
<1> QED
  BY <1>1, <1>2 DEF Set


\* What an owner has in a field.
Held(p, o, n, f) == Entry(p, o, n)[f]

\* The terms of an owner's field, written: anew, or with one more at their end.
LEMMA TermsWritten ==
    ASSUME NEW p, IsPlant(p), NEW o \in Owners, NEW n, Has(p[o], n), NEW g \in TermFields(o),
           NEW v \in Seq(Bonds), Len(v) <= Limit(o, g),
           \A k \in DOMAIN v : HasBond(p, v[k]) \/ InTables(p, v[k]),
           NEW q, q = Set(p, o, n, g, v)
    PROVE  /\ Keeps(p, q, {<<o, n, g>>}, {}, {})
           /\ Extends(Held(p, o, n, g), v) => Keeps(p, q, {}, {<<o, n, g>>}, {})
           /\ Held(q, o, n, g) = v
PROOF
<1>1. Fits(o, g, v)
  BY FieldNames DEF Fits
<1>3. PICK a : a = At(p[o], n)
  OBVIOUS
<1>4. /\ IsPlant(q) /\ NamesGrow(p, q)
      /\ \A f \in PlantFields \ {o} : q[f] = p[f]
      /\ Len(q[o]) = Len(p[o])
      /\ a \in 1 .. Len(p[o])
      /\ p[o][a].name = n
      /\ \A i \in 1 .. Len(p[o]) : i # a => q[o][i] = p[o][i]
      /\ q[o][a][g] = v
      /\ \A f \in EntryFields(o) : f # g => q[o][a][f] = p[o][a][f]
  BY <1>1, <1>3, OwnerChanged
<1>5. At(q[o], n) = a
  BY <1>3, <1>4, NamesKept DEF NamedTables
<1>6. \A f \in {"slots", "default", "oldAutomatics", "oldControlPoints"} : q[f] = p[f]
  BY <1>4 DEF PlantFields, Tables, OwnerTables, Owners
<1>7. ASSUME NEW u \in OwnerTables, u # o
      PROVE  q[u] = p[u]
  BY <1>4, <1>7 DEF PlantFields, Tables
<1>8. ASSUME NEW u \in Owners, NEW i \in 1 .. Len(p[u]), u # o \/ i # a
      PROVE  q[u][i] = p[u][i]
  BY <1>4, <1>7, <1>8 DEF Owners, OwnerTables
<1>9. TermFields(o) \subseteq EntryFields(o) /\ g \notin {"incomplete", "automatic"}
      /\ "incomplete" \in EntryFields(o) /\ (o = "routes" => "automatic" \in EntryFields(o))
  BY FieldNames
<1>10. ASSUME NEW u \in Owners, NEW i \in 1 .. Len(p[u])
       PROVE  /\ FlagsStay(u, p[u][i], q[u][i])
              /\ \A f \in TermFields(u) :
                   Cell(p, u, i, f) # <<o, n, g>> => q[u][i][f] = p[u][i][f]
  <2>1. CASE u # o \/ i # a
    BY <1>8, <2>1, FlagsSame
  <2>2. CASE u = o /\ i = a
    <3>1. FlagsStay(o, p[o][a], q[o][a])
      BY <1>4, <1>9 DEF FlagsStay
    <3>2. ASSUME NEW f \in TermFields(o), Cell(p, u, i, f) # <<o, n, g>>
          PROVE  q[o][a][f] = p[o][a][f]
      <4>1. f # g
        BY <1>4, <2>2, <3>2 DEF Cell
      <4> QED
        BY <1>4, <1>9, <4>1
    <3> QED
      BY <2>2, <3>1, <3>2
  <2> QED
    BY <2>1, <2>2
<1>11. ASSUME NEW u \in Owners, NEW i \in 1 .. Len(q[u])
       PROVE  i \in 1 .. Len(p[u])
  BY <1>4, <1>7 DEF Owners, OwnerTables
<1>12. ASSUME NEW b, HasBond(q, b)
       PROVE  HasBond(p, b) \/ InTables(q, b)
  <2>1. PICK u \in OwnerTables : \E i \in DOMAIN q[u] : \E f \in TermFields(Kind(u)) :
                \E k \in DOMAIN q[u][i][f] : q[u][i][f][k] = b
    BY <1>12 DEF HasBond
  <2>2. CASE u # o
    <3>1. q[u] = p[u]
      BY <1>7, <2>2
    <3> QED
      BY <2>1, <3>1 DEF HasBond
  <2>3. CASE u = o
    <3>1. Kind(o) = o /\ o \in OwnerTables
      BY DEF Kind, Owners, OwnerTables
    <3>2. PICK i \in DOMAIN q[o], f \in TermFields(o) : \E k \in DOMAIN q[o][i][f] : q[o][i][f][k] = b
      BY <2>1, <2>3, <3>1
    <3>3. i \in 1 .. Len(p[o]) /\ DOMAIN p[o] = 1 .. Len(p[o])
      BY <1>4, <3>1, OwnerTypes
    <3>4. CASE i = a /\ f = g
      <4>1. PICK k \in DOMAIN v : v[k] = b
        BY <1>4, <3>2, <3>4
      <4>2. HasBond(p, b) \/ InTables(p, b)
        BY <4>1
      <4> QED
        BY <1>4, <4>2, InTablesKept
    <3>5. CASE ~ (i = a /\ f = g)
      <4>1. q[o][i][f] = p[o][i][f]
        BY <1>4, <1>9, <3>3, <3>5
      <4> QED
        BY <3>1, <3>2, <3>3, <4>1 DEF HasBond
    <3> QED
      BY <3>4, <3>5
  <2> QED
    BY <2>2, <2>3
<1>13. ASSUME NEW u \in Owners, NEW i \in 1 .. Len(p[u]), NEW f \in TermFields(u),
              q[u][i][f] = p[u][i][f]
       PROVE  Extends(p[u][i][f], q[u][i][f])
  BY <1>13, ExtendsSame
<1>14. Keeps(p, q, {<<o, n, g>>}, {}, {})
  BY <1>4, <1>6, <1>10, <1>11, <1>12, <1>13 DEF Keeps
<1>15. ASSUME Extends(Held(p, o, n, g), v)
       PROVE  Keeps(p, q, {}, {<<o, n, g>>}, {})
  <2>1. Extends(p[o][a][g], q[o][a][g])
    BY <1>3, <1>4, <1>15 DEF Entry, Held
  <2>2. ASSUME NEW u \in Owners, NEW i \in 1 .. Len(p[u]), NEW f \in TermFields(u)
        PROVE  Extends(p[u][i][f], q[u][i][f])
    <3>1. CASE u = o /\ i = a /\ f = g
      BY <2>1, <3>1
    <3>2. CASE ~ (u = o /\ i = a /\ f = g)
      <4>1. q[u][i][f] = p[u][i][f]
        BY <1>4, <1>8, <1>9, <3>2
      <4> QED
        BY <1>13, <4>1
    <3> QED
      BY <3>1, <3>2
  <2> QED
    BY <1>4, <1>6, <1>10, <1>11, <1>12, <2>2 DEF Keeps
<1>16. Held(q, o, n, g) = v
  BY <1>4, <1>5 DEF Entry, Held
<1> QED
  BY <1>14, <1>15, <1>16

\* What was written is there.
LEMMA FieldWritten ==
    ASSUME NEW p, IsPlant(p), NEW o \in Owners, NEW n, Has(p[o], n), NEW g, NEW v, Fits(o, g, v),
           NEW q, q = Set(p, o, n, g, v)
    PROVE  Held(q, o, n, g) = v
PROOF
<1>1. PICK a : a = At(p[o], n)
  OBVIOUS
<1>2. IsPlant(q) /\ NamesGrow(p, q) /\ q[o][a][g] = v
  BY <1>1, OwnerChanged
<1>3. o \in NamedTables
  BY DEF NamedTables
<1>4. At(q[o], n) = a
  BY <1>1, <1>2, <1>3, NamesKept
<1> QED
  BY <1>2, <1>4 DEF Entry, Held

\* What is written into a field is what the field holds.
LEMMA TermWritten ==
    ASSUME NEW p, IsPlant(p), NEW o \in Owners, NEW n, Has(p[o], n), NEW g \in TermFields(o),
           NEW v, v \in Seq(Bonds), Len(v) <= Limit(o, g), NEW q, q = Set(p, o, n, g, v)
    PROVE  Held(q, o, n, g) = v
PROOF
<1>1. Fits(o, g, v)
  BY FieldNames DEF Fits
<1> QED
  BY <1>1, FieldWritten

\* A flag or the traffic option of an owner, written; no owner becomes complete.
Raised(g, v) == g \in {"incomplete", "automatic"} => v \in {TRUE}

\* A flag is raised on an owner, and its terms stay as they are.
LEMMA FlagWritten ==
    ASSUME NEW p, IsPlant(p), NEW o \in Owners, NEW n, NEW g, NEW v, Fits(o, g, v),
           g \notin TermFields(o), Raised(g, v),
           NEW q, q = Set(p, o, n, g, v)
    PROVE  /\ Keeps(p, q, {}, {}, {}) /\ \A f \in PlantFields \ {o} : q[f] = p[f]
           /\ Has(p[o], n) => Held(q, o, n, g) = v
           /\ \A i \in 1 .. Len(p[o]) : \A f \in EntryFields(o) : f # g => q[o][i][f] = p[o][i][f]
PROOF
<1>1. CASE ~Has(p[o], n)
  <2>1. q = p
    BY <1>1, NoOwner
  <2> QED
    BY <1>1, <2>1, KeepsSame
<1>2. CASE Has(p[o], n)
  <2>3. PICK a : a = At(p[o], n)
    OBVIOUS
  <2>4. /\ IsPlant(q) /\ NamesGrow(p, q)
        /\ \A f \in PlantFields \ {o} : q[f] = p[f]
        /\ Len(q[o]) = Len(p[o])
        /\ a \in 1 .. Len(p[o])
        /\ p[o][a].name = n
        /\ \A i \in 1 .. Len(p[o]) : i # a => q[o][i] = p[o][i]
        /\ q[o][a][g] = v
        /\ \A f \in EntryFields(o) : f # g => q[o][a][f] = p[o][a][f]
    BY <1>2, <2>3, OwnerChanged
  <2>5. At(q[o], n) = a
    <3>1. o \in NamedTables
      BY DEF NamedTables
    <3> QED
      BY <1>2, <2>3, <2>4, <3>1, NamesKept
  <2>6. \A f \in {"slots", "default", "oldAutomatics", "oldControlPoints"} : q[f] = p[f]
    BY <2>4 DEF PlantFields, Tables, OwnerTables, Owners
  <2>7. ASSUME NEW u \in OwnerTables, u # o
        PROVE  q[u] = p[u]
    BY <2>4, <2>7 DEF PlantFields, Tables
  <2>8. ASSUME NEW u \in Owners, NEW i \in 1 .. Len(p[u]), u # o \/ i # a
        PROVE  q[u][i] = p[u][i]
    BY <2>4, <2>7, <2>8 DEF Owners, OwnerTables
  <2>9. /\ TermFields(o) \subseteq EntryFields(o) /\ "incomplete" \in EntryFields(o)
        /\ o = "routes" => "automatic" \in EntryFields(o)
    BY FieldNames
  <2>10. ASSUME NEW u \in Owners, NEW i \in 1 .. Len(p[u])
         PROVE  /\ FlagsStay(u, p[u][i], q[u][i])
                /\ \A f \in TermFields(u) : q[u][i][f] = p[u][i][f]
    <3>1. CASE u # o \/ i # a
      BY <2>8, <3>1, FlagsSame
    <3>2. CASE u = o /\ i = a
      <4>1. q[o][a].incomplete = p[o][a].incomplete \/ q[o][a].incomplete
        <5>1. CASE g = "incomplete"
          BY <2>4, <5>1 DEF Raised
        <5>2. CASE g # "incomplete"
          BY <2>4, <2>9, <5>2
        <5> QED
          BY <5>1, <5>2
      <4>2. o = "routes" => q[o][a].automatic = p[o][a].automatic \/ q[o][a].automatic
        <5>1. CASE g = "automatic"
          BY <2>4, <5>1 DEF Raised
        <5>2. CASE g # "automatic"
          BY <2>4, <2>9, <5>2
        <5> QED
          BY <5>1, <5>2
      <4>3. FlagsStay(o, p[o][a], q[o][a])
        BY <4>1, <4>2 DEF FlagsStay
      <4>4. \A f \in TermFields(o) : q[o][a][f] = p[o][a][f]
        BY <2>4, <2>9
      <4> QED
        BY <3>2, <4>3, <4>4
    <3> QED
      BY <3>1, <3>2
  <2>11. ASSUME NEW u \in Owners, NEW i \in 1 .. Len(q[u])
         PROVE  i \in 1 .. Len(p[u])
    BY <2>4, <2>7 DEF Owners, OwnerTables
  <2>12. ASSUME NEW b, HasBond(q, b)
         PROVE  HasBond(p, b)
    <3>1. PICK u \in OwnerTables : \E i \in DOMAIN q[u] : \E f \in TermFields(Kind(u)) :
                  \E k \in DOMAIN q[u][i][f] : q[u][i][f][k] = b
      BY <2>12 DEF HasBond
    <3>2. CASE u # o
      <4>1. q[u] = p[u]
        BY <2>7, <3>2
      <4> QED
        BY <3>1, <4>1 DEF HasBond
    <3>3. CASE u = o
      <4>1. Kind(o) = o /\ o \in OwnerTables
        BY DEF Kind, Owners, OwnerTables
      <4>2. PICK i \in DOMAIN q[o], f \in TermFields(o) : \E k \in DOMAIN q[o][i][f] : q[o][i][f][k] = b
        BY <3>1, <3>3, <4>1
      <4>3. i \in 1 .. Len(p[o]) /\ DOMAIN p[o] = 1 .. Len(p[o])
        BY <2>4, <4>1, OwnerTypes
      <4>4. q[o][i][f] = p[o][i][f]
        BY <2>10, <4>3
      <4> QED
        BY <4>1, <4>2, <4>3, <4>4 DEF HasBond
    <3> QED
      BY <3>2, <3>3
  <2>13. ASSUME NEW u \in Owners, NEW i \in 1 .. Len(p[u]), NEW f \in TermFields(u)
         PROVE  Extends(p[u][i][f], q[u][i][f])
    BY <2>10, ExtendsSame
  <2>14. Keeps(p, q, {}, {}, {})
    BY <2>4, <2>6, <2>10, <2>11, <2>12, <2>13 DEF Keeps
  <2>15. Held(q, o, n, g) = v
    BY <2>4, <2>5 DEF Entry, Held
  <2>16. \A i \in 1 .. Len(p[o]) : \A f \in EntryFields(o) : f # g => q[o][i][f] = p[o][i][f]
    BY <2>4
  <2> QED
    BY <2>4, <2>14, <2>15, <2>16
<1> QED
  BY <1>1, <1>2

-----------------------------------------------------------------------------
(* The report, and the facts by name.                                      *)

\* A term that stands goes on standing, whatever else is written.
LEMMA EntryKept ==
    ASSUME NEW p, NEW q, NEW W, NEW E, NEW D, IsPlant(p), Keeps(p, q, W, E, D),
           NEW o \in Owners, NEW n, Has(p[o], n)
    PROVE  /\ Has(q[o], n)
           /\ FlagsStay(o, Entry(p, o, n), Entry(q, o, n))
           /\ Entry(p, o, n).incomplete => Entry(q, o, n).incomplete
           /\ \A f \in TermFields(o) :
                /\ <<o, n, f>> \notin W => Extends(Held(p, o, n, f), Held(q, o, n, f))
                /\ <<o, n, f>> \notin W \cup E => Held(q, o, n, f) = Held(p, o, n, f)
PROOF
<1>1. o \in OwnerTables /\ Kind(o) = o /\ o \in NamedTables
  BY DEF Owners, OwnerTables, Kind, NamedTables
<1>2. PICK a : a = At(p[o], n)
  OBVIOUS
<1>3. a \in 1 .. Len(p[o]) /\ p[o][a].name = n
  BY <1>1, <1>2, OwnerTypes, AtIs
<1>4. IsPlant(q) /\ NamesGrow(p, q)
  BY DEF Keeps
<1>5. Has(q[o], n) /\ At(q[o], n) = a
  BY <1>1, <1>2, <1>4, NamesKept
<1>6. \A f : Cell(p, o, a, f) = <<o, n, f>>
  BY <1>3 DEF Cell
<1>7. /\ FlagsStay(o, p[o][a], q[o][a])
      /\ \A f \in TermFields(o) :
            /\ Cell(p, o, a, f) \notin W => Extends(p[o][a][f], q[o][a][f])
            /\ Cell(p, o, a, f) \notin W \cup E => q[o][a][f] = p[o][a][f]
  BY <1>3 DEF Keeps
<1> QED
  BY <1>2, <1>5, <1>6, <1>7 DEF Entry, Held, FlagsStay

\* No other owner appears than those that may be declared.
LEMMA NotDeclared ==
    ASSUME NEW p, NEW q, NEW W, NEW E, NEW D, IsPlant(p), Keeps(p, q, W, E, D),
           NEW o \in Owners, NEW n, ~Has(p[o], n), <<o, n>> \notin D
    PROVE  ~Has(q[o], n)
PROOF
<1>1. o \in OwnerTables /\ Kind(o) = o /\ o \in NamedTables
  BY DEF Owners, OwnerTables, Kind, NamedTables
<1>2. IsPlant(q) /\ NamesGrow(p, q)
  BY DEF Keeps
<1>3. DOMAIN p[o] = 1 .. Len(p[o]) /\ DOMAIN q[o] = 1 .. Len(q[o])
  BY <1>1, <1>2, OwnerTypes
<1> SUFFICES ASSUME NEW i \in 1 .. Len(q[o]), q[o][i].name = n
             PROVE  FALSE
  BY <1>3 DEF Has, Named
<1>4. i \in 1 .. Len(p[o])
  BY DEF Keeps
<1>5. p[o][i].name = n
  BY <1>1, <1>2, <1>4 DEF NamesGrow
<1> QED
  BY <1>3, <1>4, <1>5 DEF Has, Named

\* No owner comes or goes but by its declaration.
LEMMA SameOwners ==
    ASSUME NEW p, NEW q, NEW W, NEW E, IsPlant(p), Keeps(p, q, W, E, {}), NEW o \in Owners, NEW n
    PROVE  Has(q[o], n) <=> Has(p[o], n)
PROOF
<1>1. <<o, n>> \notin {}
  OBVIOUS
<1>2. ASSUME ~Has(p[o], n)
      PROVE  ~Has(q[o], n)
  BY <1>1, <1>2, NotDeclared
<1>3. ASSUME Has(p[o], n)
      PROVE  Has(q[o], n)
  BY <1>3, EntryKept
<1> QED
  BY <1>2, <1>3

\* A table of owners that none is declared in is as long as it was.
LEMMA LengthKept ==
    ASSUME NEW p, NEW q, NEW W, NEW E, NEW D, IsPlant(p), Keeps(p, q, W, E, D),
           NEW o \in Owners, \A n : <<o, n>> \notin D
    PROVE  Len(q[o]) = Len(p[o])
PROOF
<1>1. o \in OwnerTables /\ Kind(o) = o /\ o \in NamedTables
  BY DEF Owners, OwnerTables, Kind, NamedTables
<1>2. IsPlant(q) /\ NamesGrow(p, q)
  BY DEF Keeps
<1>3. Len(p[o]) \in Nat /\ Len(q[o]) \in Nat /\ Len(p[o]) <= Len(q[o])
  BY <1>1, <1>2, OwnerTypes DEF NamesGrow
<1>4. \A i \in 1 .. Len(q[o]) : i \in 1 .. Len(p[o])
  BY DEF Keeps
<1> QED
  BY <1>3, <1>4

\* One sequence of one bond.
LEMMA OneBond ==
    ASSUME NEW b \in Bonds
    PROVE  /\ <<b>> \in Seq(Bonds) /\ Len(<<b>>) = 1 /\ DOMAIN <<b>> = {1} /\ <<b>>[1] = b
           /\ <<b>> # <<>> /\ ToSet(<<b>>) = {b}
  BY DEF ToSet

\* A null pointer.
LEMMA NoBond == <<>> \in Seq(Bonds) /\ Len(<<>>) = 0 /\ DOMAIN <<>> = {}
  OBVIOUS

\* What is left alone but for the report.
OnlyGaps(p, q) == Keeps(p, q, {}, {}, {}) /\ \A f \in PlantFields \ {"gaps"} : q[f] = p[f]

\* A gap is reported, and nothing else changes.
LEMMA NoteUnresolvedKeeps ==
    ASSUME NEW p, IsPlant(p), NEW n \in Reportable, NEW call \in Text, NEW owner \in Reportable,
           NEW kind \in {"implicit", "no_slot", "missing", "conflict"}
    PROVE  OnlyGaps(p, NoteUnresolved(p, n, call, owner, kind))
PROOF
<1> DEFINE gap == [name |-> n, call |-> call, owner |-> owner, kind |-> kind]
<1>1. CASE ~(Len(p.gaps) < MaxGaps)
  BY <1>1, KeepsSame DEF NoteUnresolved, OnlyGaps
<1>2. CASE Len(p.gaps) < MaxGaps
  <2>1. gap \in Entries("gaps")
    BY DEF Entries, ApplianceTables
  <2> HIDE DEF gap
  <2>2. PICK q : q = Add(p, "gaps", gap)
    OBVIOUS
  <2>3. Len(p["gaps"]) < Slots(p, "gaps")
    BY <1>2 DEF Slots
  <2>4. Keeps(p, q, {}, {}, {})
    BY <2>1, <2>2, <2>3, AddAppliance
  <2>5. \A f \in PlantFields \ {"gaps"} : q[f] = p[f]
    BY <2>1, <2>2, <2>3, AddTo DEF Tables
  <2>6. NoteUnresolved(p, n, call, owner, kind) = q
    BY <1>2, <2>2 DEF NoteUnresolved, gap
  <2> QED
    BY <2>4, <2>5, <2>6 DEF OnlyGaps
<1> QED
  BY <1>1, <1>2

\* A name that was given after it was derived is reported, and nothing else.
LEMMA NoteConflictKeeps ==
    ASSUME NEW p, IsPlant(p), NEW n \in Reportable, NEW call \in Text
    PROVE  OnlyGaps(p, NoteConflict(p, n, call))
  BY NoteUnresolvedKeeps, KeepsSame DEF NoteConflict, OnlyGaps

\* Two reports in a row.
LEMMA OnlyGapsBoth ==
    ASSUME NEW p, IsPlant(p), NEW q, NEW r, OnlyGaps(p, q), OnlyGaps(q, r)
    PROVE  OnlyGaps(p, r)
PROOF
<1>1. Keeps(p, r, {}, {}, {})
  BY KeepsThen DEF OnlyGaps
<1> QED
  BY <1>1 DEF OnlyGaps

\* The outputs of a location, one by one.
LEMMA OutputIn ==
    ASSUME NEW A, NEW S, NEW n \in A, NEW out \in S
    PROVE  n \o out \in Outputs(A, S)
  BY SMT DEF Outputs

\* The outputs of a location that were derived before are reported, and nothing else.
LEMMA NoteConflictsKeeps ==
    ASSUME NEW p, IsPlant(p), NEW n \in Text, NEW call \in Text
    PROVE  OnlyGaps(p, NoteConflicts(p, n, call))
PROOF
<1>1. PICK h, d : h = n \o "H" /\ d = n \o "D"
  OBVIOUS
<1>2. h \in Reportable /\ d \in Reportable
  BY <1>1, OutputIn DEF Reportable
<1>3. PICK q : q = NoteConflict(p, h, call)
  OBVIOUS
<1>4. OnlyGaps(p, q) /\ IsPlant(q)
  <2>1. OnlyGaps(p, q)
    BY <1>2, <1>3, NoteConflictKeeps
  <2> QED
    BY <2>1 DEF OnlyGaps, Keeps
<1>5. OnlyGaps(q, NoteConflict(q, d, call))
  BY <1>2, <1>4, NoteConflictKeeps
<1>6. NoteConflicts(p, n, call) = NoteConflict(q, d, call)
  BY <1>1, <1>3 DEF NoteConflicts
<1> QED
  BY <1>4, <1>5, <1>6, OnlyGapsBoth

\* An owner whose appliance is missing is at Stop, and the route of an
\* automatic signal with it.
AtStop(p, o, n) == Has(p[o], n) => Entry(p, o, n).incomplete

Marked(p, o, n) == Set(p, o, n, "incomplete", TRUE)

\* An owner that is marked is at Stop and keeps its terms.
LEMMA MarkedIncomplete ==
    ASSUME NEW p, IsPlant(p), NEW o \in Owners, NEW n, NEW q, q = Marked(p, o, n)
    PROVE  Keeps(p, q, {}, {}, {}) /\ IsPlant(q) /\ AtStop(q, o, n)
PROOF
<1>1. PICK v, g : v = TRUE /\ g = "incomplete"
  OBVIOUS
<1>2. Fits(o, g, v) /\ g \notin TermFields(o)
  BY <1>1, FieldNames DEF Fits
<1>3. q = Set(p, o, n, g, v)
  BY <1>1 DEF Marked
<1>4. Keeps(p, q, {}, {}, {})
  BY <1>1, <1>2, <1>3, FlagWritten DEF Raised
<1>5. Has(p[o], n) => Held(q, o, n, g) = v
  BY <1>2, <1>3, FieldWritten
<1>6. Has(q[o], n) => Has(p[o], n)
  BY <1>4, SameOwners
<1> QED
  BY <1>1, <1>4, <1>5, <1>6 DEF AtStop, Keeps, Held

\* An owner that is at Stop stays there.
LEMMA AtStopKept ==
    ASSUME NEW p, NEW q, NEW W, NEW E, IsPlant(p), Keeps(p, q, W, E, {}),
           NEW o \in Owners, NEW n, AtStop(p, o, n)
    PROVE  AtStop(q, o, n)
  BY SameOwners, EntryKept DEF AtStop

\* markIncomplete(): the owner is at Stop, an automatic signal with its route.
LEMMA MarkIncompleteKeeps ==
    ASSUME NEW p, IsPlant(p), NEW o \in Owners, NEW n, NEW r, r = MarkIncomplete(p, o, n)
    PROVE  /\ Keeps(p, r, {}, {}, {}) /\ AtStop(r, o, n)
           /\ o = "automatics" => AtStop(r, "routes", n)
PROOF
<1>1. "routes" \in Owners
  BY DEF Owners
<1>2. PICK q : q = Marked(p, o, n)
  OBVIOUS
<1>3. Keeps(p, q, {}, {}, {}) /\ IsPlant(q) /\ AtStop(q, o, n)
  BY <1>2, MarkedIncomplete
<1>4. CASE o # "automatics"
  <2>1. r = q
    BY <1>2, <1>4 DEF MarkIncomplete, Set, Marked
  <2> QED
    BY <1>3, <1>4, <2>1
<1>5. CASE o = "automatics"
  <2>1. r = Marked(q, "routes", n)
    BY <1>2, <1>5 DEF MarkIncomplete, Set, Marked
  <2>2. Keeps(q, r, {}, {}, {}) /\ AtStop(r, "routes", n)
    BY <1>1, <1>3, <2>1, MarkedIncomplete
  <2>3. AtStop(r, o, n)
    BY <1>3, <2>2, AtStopKept
  <2>4. Keeps(p, r, {}, {}, {})
    BY <1>3, <2>2, KeepsThen
  <2> QED
    BY <2>2, <2>3, <2>4
<1> QED
  BY <1>4, <1>5

\* noteMissing(): reported, and the owner at Stop.
LEMMA MissingKeeps ==
    ASSUME NEW p, IsPlant(p), NEW o \in Owners, NEW owner \in Text, NEW n \in Text,
           NEW call \in Text, NEW r, r = Missing(p, o, owner, n, call)
    PROVE  /\ Keeps(p, r, {}, {}, {}) /\ AtStop(r, o, owner)
           /\ o = "automatics" => AtStop(r, "routes", owner)
PROOF
<1>1. PICK q : q = NoteUnresolved(p, n, call, owner, "missing")
  OBVIOUS
<1>2. Keeps(p, q, {}, {}, {})
  BY <1>1, NoteUnresolvedKeeps DEF Reportable, OnlyGaps
<1>3. IsPlant(q)
  BY <1>2 DEF Keeps
<1>4. r = MarkIncomplete(q, o, owner)
  BY <1>1 DEF Missing
<1>5. /\ Keeps(q, r, {}, {}, {}) /\ AtStop(r, o, owner)
      /\ o = "automatics" => AtStop(r, "routes", owner)
  BY <1>3, <1>4, MarkIncompleteKeeps
<1>6. Keeps(p, r, {}, {}, {})
  BY <1>2, <1>5, KeepsThen
<1> QED
  BY <1>5, <1>6


\* The first object of a name is in the tables.
LEMMA BoundIs ==
    ASSUME NEW k \in Text, NEW n \in Text
    PROVE  /\ Bound(k, n) \in Bonds /\ Bound(k, n).name = n /\ Bound(k, n).kind = k
PROOF
<1>0. None \in Text
  BY TextIs DEF Words, None
<1>1. Bound(k, n) \in [kind : Text, name : Text, rel : Text]
  BY <1>0 DEF Bound
<1>2. Bound(k, n).name = n /\ Bound(k, n).kind = k
  BY DEF Bound
<1> QED
  BY <1>1, <1>2 DEF Bonds

\* What is found by name has the name and is in a table of the plant.
LEMMA FindFactIs ==
    ASSUME NEW p, IsPlant(p), NEW n \in Text, NEW s, s = FindFact(p, n), s # <<>>
    PROVE  \E b \in Bonds : s = <<b>> /\ b.name = n /\ InTables(p, b)
PROOF
<1> DEFINE bond(kind) == Bound(kind, n)
<1>0. \A k \in Text : bond(k) \in Bonds /\ bond(k).name = n /\ bond(k).kind = k
  BY BoundIs
<1>1. /\ bond("line") \in Bonds /\ bond("line").name = n /\ bond("line").kind = "line"
      /\ bond("automatic") \in Bonds /\ bond("automatic").name = n
      /\ bond("automatic").kind = "automatic"
      /\ bond("controlPoint") \in Bonds /\ bond("controlPoint").name = n
      /\ bond("controlPoint").kind = "controlPoint"
      /\ bond("circuit") \in Bonds /\ bond("circuit").name = n /\ bond("circuit").kind = "circuit"
  BY <1>0, TextIs DEF Words
<1>2. \/ n \in Produced(p, "line") /\ s = <<bond("line")>>
      \/ n \in Produced(p, "automatic") /\ s = <<bond("automatic")>>
      \/ n \in Produced(p, "controlPoint") /\ s = <<bond("controlPoint")>>
      \/ n \in Produced(p, "circuit") /\ s = <<bond("circuit")>>
  BY Zenon DEF FindFact
<1> HIDE DEF bond
<1>3. CASE n \in Produced(p, "line") /\ s = <<bond("line")>>
  <2>1. InTables(p, bond("line"))
    BY <1>1, <1>3 DEF InTables
  <2> QED
    BY <1>1, <1>3, <2>1
<1>4. CASE n \in Produced(p, "automatic") /\ s = <<bond("automatic")>>
  <2>1. InTables(p, bond("automatic"))
    BY <1>1, <1>4 DEF InTables
  <2> QED
    BY <1>1, <1>4, <2>1
<1>5. CASE n \in Produced(p, "controlPoint") /\ s = <<bond("controlPoint")>>
  <2> DEFINE all == Outputs(Named(p.controlPoints), {"H", "D", "F"})
  <2>1. Directed(p.controlPoints) \subseteq Named(p.controlPoints)
    BY DEF Directed, ToSet, Named
  <2>2. Outputs(Directed(p.controlPoints), {"F"}) \subseteq all
    BY <2>1, OutputsGrow
  <2>3. Outputs(Named(p.controlPoints), {"H", "D"}) \subseteq all
    BY OutputsGrow
  <2>4. Produced(p, "controlPoint") \subseteq all
    BY <2>2, <2>3 DEF Produced
  <2>5. InTables(p, bond("controlPoint")) <=> bond("controlPoint").name \in all
    BY <1>1 DEF InTables
  <2> HIDE DEF all
  <2> QED
    BY <1>1, <1>5, <2>4, <2>5
<1>6. CASE n \in Produced(p, "circuit") /\ s = <<bond("circuit")>>
  <2>1. InTables(p, bond("circuit"))
    BY <1>1, <1>6 DEF InTables
  <2> QED
    BY <1>1, <1>6, <2>1
<1> QED
  BY <1>2, <1>3, <1>4, <1>5, <1>6

\* The fact of a name: none for no name; else one that has the name, or the
\* released one for want of a slot.  The owners are left alone.
IsFact(p, s, n) ==
    \/ s = <<>> /\ n = None
    \/ \E b \in Bonds : s = <<b>> /\ (b.name = n \/ b = Released) /\ InTables(p, b)

\* The unsourced fact that reads released.
LEMMA ReleasedBond == Released \in Bonds /\ \A p : InTables(p, Released)
PROOF
<1>1. Released \in Bonds /\ Released.kind = "released"
  BY BoundIs, TextIs DEF Released, Words
<1> QED
  BY <1>1 DEF InTables

\* resolveFact() finds or derives a fact of that name, or the released one, and
\* touches no owner.
THEOREM ResolveFactIs ==
    ASSUME NEW p, IsPlant(p), NEW n \in Text, NEW call \in Text, NEW owner \in Text,
           NEW t, t = ResolveFact(p, n, call, owner).plant,
           NEW s, s = ResolveFact(p, n, call, owner).fact
    PROVE  /\ Keeps(p, t, {}, {}, {}) /\ IsPlant(t) /\ IsFact(t, s, n)
           /\ \A o \in OwnerTables : t[o] = p[o]
PROOF
<1>1. CASE n = None
  <2>1. t = p /\ s = <<>>
    BY <1>1 DEF ResolveFact
  <2> QED
    BY <1>1, <2>1, KeepsSame DEF IsFact
<1>2. CASE n # None /\ FindFact(p, n) # <<>>
  <2>1. t = p /\ s = FindFact(p, n)
    BY <1>2 DEF ResolveFact
  <2> QED
    <3>1. \E b \in Bonds : s = <<b>> /\ b.name = n /\ InTables(p, b)
      BY <1>2, <2>1, FindFactIs
    <3> QED
      BY <2>1, <3>1, KeepsSame DEF IsFact
<1>3. CASE n # None /\ FindFact(p, n) = <<>> /\ Room(p, "lines")
  <2> DEFINE line == [name |-> n, implicit |-> TRUE, timeout |-> p.default]
  <2>1. line \in Entries("lines") /\ line.name = n
    BY DEF Entries, IsPlant
  <2> HIDE DEF line
  <2>2. PICK q : q = Add(p, "lines", line)
    OBVIOUS
  <2>3. Len(p["lines"]) < Slots(p, "lines") /\ "lines" \in Tables /\ "lines" \in ApplianceTables
    BY <1>3 DEF Room, Slots, Tables, ApplianceTables
  <2>4. Keeps(p, q, {}, {}, {}) /\ IsPlant(q) /\ Has(q["lines"], n)
    BY <2>1, <2>2, <2>3, AddAppliance DEF Keeps
  <2>5. \A f \in PlantFields \ {"lines"} : q[f] = p[f]
    BY <2>1, <2>2, <2>3, AddTo
  <2>6. PICK w : w = NoteUnresolved(q, n, call, owner, "implicit")
    OBVIOUS
  <2>7. OnlyGaps(q, w)
    BY <2>4, <2>6, NoteUnresolvedKeeps DEF Reportable
  <2>8. t = w /\ s = <<Bound("line", n)>>
    BY <1>3, <2>2, <2>6 DEF ResolveFact, line
  <2>9. Keeps(p, w, {}, {}, {}) /\ IsPlant(w)
    BY <2>4, <2>7, KeepsThen DEF OnlyGaps
  <2>10. /\ Bound("line", n) \in Bonds /\ Bound("line", n).name = n
         /\ Bound("line", n).kind = "line"
    BY BoundIs, TextIs DEF Words
  <2>11. Has(w["lines"], n)
    BY <2>4, <2>7 DEF OnlyGaps, PlantFields, Tables, ApplianceTables
  <2>12. InTables(w, Bound("line", n))
    BY <2>10, <2>11 DEF InTables, Produced, Has
  <2>13. \A o \in OwnerTables : w[o] = p[o]
    BY <2>5, <2>7 DEF OnlyGaps, PlantFields, Tables, OwnerTables
  <2> QED
    BY <2>8, <2>9, <2>10, <2>12, <2>13 DEF IsFact
<1>4. CASE n # None /\ FindFact(p, n) = <<>> /\ ~Room(p, "lines")
  <2>1. t = NoteUnresolved(p, n, call, owner, "no_slot") /\ s = <<Released>>
    BY <1>4 DEF ResolveFact
  <2>2. OnlyGaps(p, t)
    BY <2>1, NoteUnresolvedKeeps DEF Reportable
  <2>3. \A o \in OwnerTables : t[o] = p[o]
    BY <2>2 DEF OnlyGaps, PlantFields, Tables, OwnerTables
  <2> QED
    BY <2>1, <2>2, <2>3, ReleasedBond DEF OnlyGaps, IsFact, Keeps
<1> QED
  BY <1>1, <1>2, <1>3, <1>4

\* A resolved name is at most one object, of a table of the plant.
LEMMA FactBonds ==
    ASSUME NEW p, NEW s, NEW n, IsFact(p, s, n)
    PROVE  /\ s \in Seq(Bonds) /\ Len(s) <= 1 /\ Len(s) \in Nat
           /\ \A k \in DOMAIN s : InTables(p, s[k])
           /\ n # None => \E b \in ToSet(s) : b.name = n \/ b = Released
PROOF
<1>1. CASE s = <<>> /\ n = None
  BY <1>1, NoBond
<1>2. CASE \E b \in Bonds : s = <<b>> /\ (b.name = n \/ b = Released) /\ InTables(p, b)
  <2>1. PICK b \in Bonds : s = <<b>> /\ (b.name = n \/ b = Released) /\ InTables(p, b)
    BY <1>2
  <2> QED
    BY <2>1, OneBond
<1> QED
  BY <1>1, <1>2 DEF IsFact

-----------------------------------------------------------------------------
(* Binding one term.                                                       *)

Placed(p, o, n, f, m) ==
    \/ ~Has(p[o], n)
    \/ Entry(p, o, n).incomplete
    \/ \E b \in ToSet(Held(p, o, n, f)) : b.name = m \/ b = Released

\* What stands goes on standing where nothing is written anew.
LEMMA PlacedKept ==
    ASSUME NEW p, NEW q, NEW W, NEW E, NEW D, IsPlant(p), Keeps(p, q, W, E, D),
           NEW o \in Owners, NEW n, NEW f \in TermFields(o), NEW m, Placed(p, o, n, f, m),
           <<o, n, f>> \notin W, <<o, n>> \notin D
    PROVE  Placed(q, o, n, f, m)
PROOF
<1>1. CASE ~Has(p[o], n)
  BY <1>1, NotDeclared DEF Placed
<1>2. CASE Has(p[o], n) /\ Entry(p, o, n).incomplete
  BY <1>2, EntryKept DEF Placed
<1>3. CASE Has(p[o], n) /\ \E b \in ToSet(Held(p, o, n, f)) : b.name = m \/ b = Released
  <2>1. Extends(Held(p, o, n, f), Held(q, o, n, f))
    BY <1>3, EntryKept
  <2> QED
    BY <1>3, <2>1 DEF Placed, Extends
<1> QED
  BY <1>1, <1>2, <1>3 DEF Placed

\* What stands goes on standing when fields are only made longer.
LEMMA PlacedSame ==
    ASSUME NEW p, NEW q, NEW E, IsPlant(p), Keeps(p, q, {}, E, {}),
           NEW o \in Owners, NEW n, NEW f \in TermFields(o), NEW m, Placed(p, o, n, f, m)
    PROVE  Placed(q, o, n, f, m)
PROOF
<1>1. PICK W, D : W = {} /\ D = {}
  OBVIOUS
<1>2. Keeps(p, q, W, E, D) /\ <<o, n, f>> \notin W /\ <<o, n>> \notin D
  BY <1>1
<1> QED
  BY <1>2, PlacedKept

\* The entry of an owner that is there.
LEMMA EntryIs ==
    ASSUME NEW p, IsPlant(p), NEW o \in Owners, NEW n, Has(p[o], n)
    PROVE  /\ Entry(p, o, n) \in OwnerEntries(o) /\ Entry(p, o, n).name = n
           /\ At(p[o], n) \in 1 .. Len(p[o])
           /\ \A f \in TermFields(o) :
                /\ Held(p, o, n, f) \in Seq(Bonds) /\ Len(Held(p, o, n, f)) <= Limit(o, f)
                /\ Len(Held(p, o, n, f)) \in Nat
                /\ \A k \in DOMAIN Held(p, o, n, f) : HasBond(p, Held(p, o, n, f)[k])
PROOF
<1>1. o \in OwnerTables /\ Kind(o) = o
  BY DEF Owners, OwnerTables, Kind
<1>2. PICK a : a = At(p[o], n)
  OBVIOUS
<1>3. /\ p[o] \in Seq(OwnerEntries(o)) /\ DOMAIN p[o] = 1 .. Len(p[o])
      /\ \A i \in 1 .. Len(p[o]) :
           /\ p[o][i] \in OwnerEntries(o)
           /\ \A f \in TermFields(o) : p[o][i][f] \in Seq(Bonds) /\ Len(p[o][i][f]) <= Limit(o, f)
  BY <1>1, OwnerTypes
<1>4. a \in 1 .. Len(p[o]) /\ p[o][a].name = n
  BY <1>2, <1>3, AtIs
<1>5. \A f \in TermFields(o) : \A k \in DOMAIN p[o][a][f] : HasBond(p, p[o][a][f][k])
  BY <1>1, <1>3, <1>4 DEF HasBond
<1>6. \A f \in TermFields(o) : Len(p[o][a][f]) \in Nat
  BY <1>3, <1>4, LenProperties
<1> QED
  BY <1>2, <1>3, <1>4, <1>5, <1>6 DEF Entry, Held

\* A term is appended where there is room for it.
LEMMA ExtendKeeps ==
    ASSUME NEW p, IsPlant(p), NEW o \in Owners, NEW n, NEW f \in TermFields(o),
           NEW s \in Seq(Bonds), Len(s) <= 1, \A k \in DOMAIN s : InTables(p, s[k]),
           NEW q, q = Extend(p, o, n, f, Limit(o, f), s)
    PROVE  /\ Keeps(p, q, {}, {<<o, n, f>>}, {})
           /\ Has(p[o], n) /\ Len(Held(p, o, n, f)) < Limit(o, f)
                => ToSet(s) \subseteq ToSet(Held(q, o, n, f))
PROOF
<1>1. CASE ~Has(p[o], n) \/ ~(Len(Held(p, o, n, f)) < Limit(o, f))
  <2>1. q = p
    BY <1>1 DEF Extend, Entry, Held
  <2> QED
    BY <1>1, <2>1, KeepsSame
<1>2. CASE Has(p[o], n) /\ Len(Held(p, o, n, f)) < Limit(o, f)
  <2>1. PICK now : now = Held(p, o, n, f)
    OBVIOUS
  <2>2. /\ now \in Seq(Bonds) /\ Len(now) \in Nat /\ Len(s) \in Nat
        /\ \A k \in DOMAIN now : HasBond(p, now[k])
    BY <1>2, <2>1, EntryIs, LenProperties
  <2>3. PICK v : v = now \o s
    OBVIOUS
  <2>4. /\ v \in Seq(Bonds) /\ Len(v) = Len(now) + Len(s)
        /\ \A k \in 1 .. Len(now) : v[k] = now[k]
        /\ \A k \in 1 .. Len(s) : v[Len(now) + k] = s[k]
    BY <2>2, <2>3, ConcatProperties
  <2>5. DOMAIN now = 1 .. Len(now) /\ DOMAIN s = 1 .. Len(s) /\ DOMAIN v = 1 .. Len(now) + Len(s)
    BY <2>2, <2>4, LenProperties
  <2>6. ASSUME NEW k \in DOMAIN v
        PROVE  HasBond(p, v[k]) \/ InTables(p, v[k])
    <3>1. CASE k <= Len(now)
      BY <2>2, <2>4, <2>5, <3>1
    <3>2. CASE k > Len(now)
      <4>1. k - Len(now) \in 1 .. Len(s) /\ k = Len(now) + (k - Len(now))
        BY <2>2, <2>5, <3>2
      <4>2. v[k] = s[k - Len(now)]
        BY <2>4, <4>1
      <4> QED
        BY <2>5, <4>1, <4>2
    <3> QED
      BY <2>2, <2>5, <3>1, <3>2
  <2>7. ToSet(now) \subseteq ToSet(v)
    <3> SUFFICES ASSUME NEW k \in 1 .. Len(now)
                 PROVE  now[k] \in ToSet(v)
      BY <2>5 DEF ToSet
    <3>1. k \in DOMAIN v /\ v[k] = now[k]
      BY <2>2, <2>4, <2>5
    <3> QED
      BY <3>1 DEF ToSet
  <2>8. ToSet(s) \subseteq ToSet(v)
    <3> SUFFICES ASSUME NEW k \in 1 .. Len(s)
                 PROVE  s[k] \in ToSet(v)
      BY <2>5 DEF ToSet
    <3>1. Len(now) + k \in DOMAIN v /\ v[Len(now) + k] = s[k]
      BY <2>2, <2>4, <2>5
    <3> QED
      BY <3>1 DEF ToSet
  <2>9. Extends(now, v) /\ Len(v) <= Limit(o, f)
    <3>1. Limit(o, f) \in Nat
      BY Limits
    <3> QED
      BY <1>2, <2>1, <2>2, <2>4, <2>7, <3>1 DEF Extends
  <2>10. q = Set(p, o, n, f, v)
    BY <1>2, <2>1, <2>3 DEF Extend, Set, Entry, Held
  <2>11. Keeps(p, q, {}, {<<o, n, f>>}, {})
    BY <1>2, <2>1, <2>4, <2>6, <2>9, <2>10, TermsWritten
  <2>12. Held(q, o, n, f) = v
    <3>1. v \in Seq(Bonds) /\ Len(v) <= Limit(o, f)
      BY <2>4, <2>9
    <3> QED
      BY <1>2, <2>10, <3>1, TermWritten
  <2> QED
    BY <2>8, <2>11, <2>12
<1> QED
  BY <1>1, <1>2

\* The terms of a field taken away.
Cleared(p, o, n, f) == Set(p, o, n, f, <<>>)

\* A field is started anew.
LEMMA Emptied ==
    ASSUME NEW p, IsPlant(p), NEW o \in Owners, NEW n, NEW f \in TermFields(o),
           NEW q, q = Cleared(p, o, n, f)
    PROVE  /\ Keeps(p, q, {<<o, n, f>>}, {}, {})
           /\ Has(p[o], n) => Held(q, o, n, f) = <<>>
PROOF
<1>1. PICK v : v = <<>>
  OBVIOUS
<1>2. v \in Seq(Bonds) /\ Len(v) = 0 /\ DOMAIN v = {}
  BY <1>1, NoBond
<1>6. q = Set(p, o, n, f, v)
  BY <1>1 DEF Cleared
<1>3. Len(v) <= Limit(o, f) /\ v \in Seq(Bonds) /\ \A k \in DOMAIN v : HasBond(p, v[k]) \/ InTables(p, v[k])
  BY <1>2, Limits
<1>4. CASE Has(p[o], n)
  <2>1. Keeps(p, q, {<<o, n, f>>}, {}, {})
    BY <1>6, <1>3, <1>4, TermsWritten
  <2>2. Held(q, o, n, f) = v
    BY <1>6, <1>3, <1>4, TermWritten
  <2> QED
    BY <1>1, <2>1, <2>2
<1>5. CASE ~Has(p[o], n)
  <2>1. q = p
    BY <1>5, <1>6, NoOwner
  <2> QED
    BY <1>5, <2>1, KeepsSame
<1> QED
  BY <1>4, <1>5

\* The terms of a field of one pointer, or of none.
LEMMA PointerSet ==
    ASSUME NEW p, IsPlant(p), NEW o \in Owners, NEW n, NEW f \in TermFields(o), 1 <= Limit(o, f),
           NEW s \in Seq(Bonds), Len(s) <= 1, \A k \in DOMAIN s : InTables(p, s[k]),
           NEW q, q = Set(p, o, n, f, s)
    PROVE  /\ Keeps(p, q, {<<o, n, f>>}, {}, {})
           /\ Has(p[o], n) => Held(q, o, n, f) = s
PROOF
<1>1. Len(s) \in Nat /\ Limit(o, f) \in Nat
  BY Limits, LenProperties
<1>2. CASE Has(p[o], n)
  <2>0. \A k \in DOMAIN s : HasBond(p, s[k]) \/ InTables(p, s[k])
    OBVIOUS
  <2>01. Len(s) <= Limit(o, f)
    BY <1>1
  <2>1. Keeps(p, q, {<<o, n, f>>}, {}, {})
    BY <1>2, <2>0, <2>01, TermsWritten
  <2>2. Held(q, o, n, f) = s
    BY <1>2, <2>0, <2>01, TermWritten
  <2> QED
    BY <2>1, <2>2
<1>3. CASE ~Has(p[o], n)
  <2>1. q = p
    BY <1>3, NoOwner
  <2> QED
    BY <1>3, <2>1, KeepsSame
<1> QED
  BY <1>2, <1>3

-----------------------------------------------------------------------------
(* What the calls of each owner bind.                                      *)

\* Owners whose table is the same hold the same.
LEMMA HeldKept ==
    ASSUME NEW p, NEW q, NEW o, NEW n, NEW f, q[o] = p[o]
    PROVE  /\ Has(q[o], n) <=> Has(p[o], n)
           /\ Held(q, o, n, f) = Held(p, o, n, f)
  BY DEF Held, Entry

\* A fact is looked up and appended to a field.
LEMMA FactTermKeeps ==
    ASSUME NEW p, IsPlant(p), NEW o \in Owners, NEW n \in Text, NEW f \in TermFields(o),
           NEW call \in Text, NEW m \in Text,
           NEW t, t = ResolveFact(p, m, call, n).plant,
           NEW s, s = ResolveFact(p, m, call, n).fact,
           NEW q, q = Extend(t, o, n, f, Limit(o, f), s)
    PROVE  /\ Keeps(p, q, {}, {<<o, n, f>>}, {})
           /\ Has(p[o], n) /\ Len(Held(p, o, n, f)) < Limit(o, f) /\ m # None
                => Placed(q, o, n, f, m)
PROOF
<1>2. /\ Keeps(p, t, {}, {}, {}) /\ IsPlant(t) /\ IsFact(t, s, m)
      /\ \A u \in OwnerTables : t[u] = p[u]
  BY ResolveFactIs
<1>3. /\ s \in Seq(Bonds) /\ Len(s) <= 1 /\ \A k \in DOMAIN s : InTables(t, s[k])
      /\ m # None => \E b \in ToSet(s) : b.name = m \/ b = Released
  BY <1>2, FactBonds
<1>5. /\ Keeps(t, q, {}, {<<o, n, f>>}, {})
      /\ Has(t[o], n) /\ Len(Held(t, o, n, f)) < Limit(o, f) => ToSet(s) \subseteq ToSet(Held(q, o, n, f))
  BY <1>2, <1>3, ExtendKeeps
<1>6. t[o] = p[o]
  BY <1>2 DEF Owners, OwnerTables
<1>7. Keeps(p, q, {}, {<<o, n, f>>}, {})
  BY <1>2, <1>5, KeepsAfter
<1>8. ASSUME Has(p[o], n), Len(Held(p, o, n, f)) < Limit(o, f), m # None
      PROVE  Placed(q, o, n, f, m)
  <2>1. ToSet(s) \subseteq ToSet(Held(q, o, n, f))
    BY <1>5, <1>6, <1>8, HeldKept
  <2> QED
    BY <1>3, <1>8, <2>1 DEF Placed, Held
<1> QED
  BY <1>7, <1>8

\* A term of an owner at Stop stands.
LEMMA PlacedAtStop ==
    ASSUME NEW p, NEW o, NEW n, NEW f, NEW m, AtStop(p, o, n)
    PROVE  Placed(p, o, n, f, m)
  BY DEF AtStop, Placed

\* An appliance is bound by name, or its owner is at Stop.
LEMMA ApplianceKeeps ==
    ASSUME NEW p, IsPlant(p), NEW o \in Owners, NEW n \in Text, NEW f \in TermFields(o),
           f \in Text, 1 <= Limit(o, f),
           NEW table \in {"circuits", "controls", "masts", "automatics"}, NEW m \in Text,
           NEW q, q = Appliance(p, o, n, f, table, m)
    PROVE  Keeps(p, q, {<<o, n, f>>}, {}, {}) /\ Placed(q, o, n, f, m)
PROOF
<1>1. CASE Has(p[table], m)
  <2>1. PICK b : b = Bound(table, m)
    OBVIOUS
  <2>2. b \in Bonds /\ b.name = m /\ b.kind = table
    <3>1. table \in Text
      BY TextIs DEF Words
    <3> QED
      BY <2>1, <3>1, BoundIs
  <2>3. InTables(p, b)
    BY <1>1, <2>2 DEF InTables
  <2>4. PICK s : s = <<b>>
    OBVIOUS
  <2>5. s \in Seq(Bonds) /\ Len(s) <= 1 /\ ToSet(s) = {b} /\ \A k \in DOMAIN s : InTables(p, s[k])
    BY <2>2, <2>3, <2>4, OneBond
  <2>6. q = Set(p, o, n, f, s)
    BY <1>1, <2>1, <2>4 DEF Appliance
  <2>7. /\ Keeps(p, q, {<<o, n, f>>}, {}, {})
        /\ Has(p[o], n) => Held(q, o, n, f) = s
    BY <2>5, <2>6, PointerSet
  <2>8. Has(q[o], n) => Has(p[o], n)
    BY <2>7, SameOwners
  <2>9. Placed(q, o, n, f, m)
    BY <2>2, <2>5, <2>7, <2>8 DEF Placed, Held
  <2> QED
    BY <2>7, <2>9
<1>2. CASE ~Has(p[table], m)
  <2>1. PICK t : t = Cleared(p, o, n, f)
    OBVIOUS
  <2>2. Keeps(p, t, {<<o, n, f>>}, {}, {}) /\ IsPlant(t)
    BY <2>1, Emptied DEF Keeps
  <2>3. q = Missing(t, o, n, m, f)
    BY <1>2, <2>1 DEF Appliance, Cleared
  <2>4. Keeps(t, q, {}, {}, {}) /\ AtStop(q, o, n)
    BY <2>2, <2>3, MissingKeeps
  <2> QED
    BY <2>2, <2>4, KeepsThen, PlacedAtStop
<1> QED
  BY <1>1, <1>2

\* A term that cannot be made up stands: its owner is at Stop.
LEMMA MissingPlaced ==
    ASSUME NEW p, IsPlant(p), NEW o \in Owners, NEW n \in Text, NEW f \in TermFields(o), f \in Text,
           NEW m \in Text, NEW q, q = Missing(p, o, n, m, f)
    PROVE  Keeps(p, q, {}, {<<o, n, f>>}, {}) /\ Placed(q, o, n, f, m)
PROOF
<1>1. Keeps(p, q, {}, {}, {}) /\ AtStop(q, o, n)
  BY MissingKeeps
<1>2. Keeps(p, q, {}, {<<o, n, f>>}, {})
  BY <1>1, KeepsMore
<1> QED
  BY <1>1, <1>2, PlacedAtStop

\* An appliance that is there, as one more term.
LEMMA BoundTermKeeps ==
    ASSUME NEW p, IsPlant(p), NEW o \in Owners, NEW n, NEW f \in TermFields(o),
           NEW b \in Bonds, InTables(p, b),
           NEW q, q = Extend(p, o, n, f, Limit(o, f), <<b>>)
    PROVE  /\ Keeps(p, q, {}, {<<o, n, f>>}, {})
           /\ Len(Held(p, o, n, f)) < Limit(o, f) => Placed(q, o, n, f, b.name)
PROOF
<1>1. PICK s : s = <<b>>
  OBVIOUS
<1>2. s \in Seq(Bonds) /\ Len(s) <= 1 /\ ToSet(s) = {b} /\ \A k \in DOMAIN s : InTables(p, s[k])
  BY <1>1, OneBond
<1>3. q = Extend(p, o, n, f, Limit(o, f), s)
  BY <1>1
<1>4. /\ Keeps(p, q, {}, {<<o, n, f>>}, {})
      /\ Has(p[o], n) /\ Len(Held(p, o, n, f)) < Limit(o, f) => ToSet(s) \subseteq ToSet(Held(q, o, n, f))
  BY <1>2, <1>3, ExtendKeeps
<1>5. Has(q[o], n) => Has(p[o], n)
  BY <1>4, SameOwners
<1> QED
  BY <1>2, <1>4, <1>5 DEF Placed, Held

\* A fact that was found is bound to a field.
LEMMA FactKept ==
    ASSUME NEW p, NEW q, NEW W, NEW E, NEW D, IsPlant(p), Keeps(p, q, W, E, D),
           NEW s, NEW m, IsFact(p, s, m)
    PROVE  IsFact(q, s, m)
  BY InTablesKept DEF IsFact, Keeps

\* A resolved fact is written into a field.
LEMMA FactSet ==
    ASSUME NEW p, IsPlant(p), NEW o \in Owners, NEW n, NEW f \in TermFields(o), 1 <= Limit(o, f),
           NEW s, NEW m, IsFact(p, s, m), NEW q, q = Set(p, o, n, f, s)
    PROVE  /\ Keeps(p, q, {<<o, n, f>>}, {}, {}) /\ IsPlant(q)
           /\ m # None => Placed(q, o, n, f, m)
PROOF
<1>1. /\ s \in Seq(Bonds) /\ Len(s) <= 1 /\ \A k \in DOMAIN s : InTables(p, s[k])
      /\ m # None => \E b \in ToSet(s) : b.name = m \/ b = Released
  BY FactBonds
<1>2. /\ Keeps(p, q, {<<o, n, f>>}, {}, {})
      /\ Has(p[o], n) => Held(q, o, n, f) = s
  BY <1>1, PointerSet
<1>3. Has(q[o], n) => Has(p[o], n)
  BY <1>2, SameOwners
<1> QED
  BY <1>1, <1>2, <1>3 DEF Placed, Held, Keeps

\* A resolved fact is appended to a field.
LEMMA FactExtend ==
    ASSUME NEW p, IsPlant(p), NEW o \in Owners, NEW n, NEW f \in TermFields(o),
           NEW s, NEW m, IsFact(p, s, m), NEW q, q = Extend(p, o, n, f, Limit(o, f), s)
    PROVE  /\ Keeps(p, q, {}, {<<o, n, f>>}, {}) /\ IsPlant(q)
           /\ m # None /\ (Has(p[o], n) => Len(Held(p, o, n, f)) < Limit(o, f))
                => Placed(q, o, n, f, m)
PROOF
<1>1. /\ s \in Seq(Bonds) /\ Len(s) <= 1 /\ \A k \in DOMAIN s : InTables(p, s[k])
      /\ m # None => \E b \in ToSet(s) : b.name = m \/ b = Released
  BY FactBonds
<1>2. /\ Keeps(p, q, {}, {<<o, n, f>>}, {})
      /\ Has(p[o], n) /\ Len(Held(p, o, n, f)) < Limit(o, f) => ToSet(s) \subseteq ToSet(Held(q, o, n, f))
  BY <1>1, ExtendKeeps
<1>3. Has(q[o], n) => Has(p[o], n)
  BY <1>2, SameOwners
<1> QED
  BY <1>1, <1>2, <1>3 DEF Placed, Held, Keeps

\* What no step writes is as it was.
LEMMA HeldSame ==
    ASSUME NEW p, NEW q, NEW W, NEW E, NEW D, IsPlant(p), Keeps(p, q, W, E, D),
           NEW o \in Owners, NEW n, NEW f \in TermFields(o), Has(p[o], n), <<o, n, f>> \notin W \cup E
    PROVE  Held(q, o, n, f) = Held(p, o, n, f) /\ Has(q[o], n)
  BY EntryKept

\* The fields of the three kinds of owners, one by one.
LEMMA RouteFields ==
    /\ "routes" \in Owners /\ "automatics" \in Owners /\ "controlPoints" \in Owners
    /\ \A f \in {"governedBy", "displays", "aligns", "clears", "home", "proceed", "entrance",
                 "approaching"} : f \in TermFields("routes") /\ f \in Text
    /\ \A f \in {"governs", "approach", "h", "d", "opposing"} : f \in TermFields("automatics")
    /\ \A f \in {"governs", "block", "leaving", "home"} : f \in TermFields("controlPoints") /\ f \in Text
    /\ "governs" \in Text /\ "approach" \in Text /\ "opposing" \in Text /\ "reads" \in Text
PROOF
<1>1. \A f \in Words : f \in Text
  BY TextIs
<1>2. "routes" \in Owners /\ "automatics" \in Owners /\ "controlPoints" \in Owners
  BY DEF Owners
<1> QED
  BY <1>1, <1>2, FieldNames DEF Words

\* ClearBlock() writes the blocks of its route only, and the block stands.
LEMMA ClearBlockKeeps ==
    ASSUME NEW p, IsPlant(p), NEW r \in Text, Has(p["routes"], r), NEW m \in Text,
           NEW q, q = ClearBlock(p, r, m)
    PROVE  /\ Keeps(p, q, {}, {<<"routes", r, "clears">>}, {})
           /\ Len(Held(p, "routes", r, "clears")) < MaxRouteTerms => Placed(q, "routes", r, "clears", m)
PROOF
<1> DEFINE full == Len(Held(p, "routes", r, "clears")) >= MaxRouteTerms
<1>0. "routes" \in Owners /\ "clears" \in TermFields("routes") /\ "clears" \in Text
      /\ Limit("routes", "clears") = MaxRouteTerms /\ MaxRouteTerms \in Nat
  BY RouteFields, Limits, SizesAssumption
<1>1. Full(p, r, "clears") <=> full
  BY DEF Full, Held, Entry
<1>2. Len(Held(p, "routes", r, "clears")) \in Nat
  BY <1>0, EntryIs
<1>3. CASE full
  <2>1. q = p
    BY <1>1, <1>3 DEF ClearBlock
  <2> QED
    BY <1>0, <1>2, <1>3, <2>1, KeepsSame
<1> HIDE DEF full
<1>4. CASE ~full /\ Has(p.circuits, m)
  <2>1. PICK b : b = Bound("circuits", m)
    OBVIOUS
  <2>2. b \in Bonds /\ b.name = m /\ b.kind = "circuits"
    BY <2>1, BoundIs, TextIs DEF Words
  <2>3. InTables(p, b)
    BY <1>4, <2>2 DEF InTables
  <2>4. q = Extend(p, "routes", r, "clears", Limit("routes", "clears"), <<b>>)
    BY <1>0, <1>1, <1>4, <2>1 DEF ClearBlock
  <2> QED
    BY <1>0, <2>2, <2>3, <2>4, BoundTermKeeps
<1>5. CASE ~full /\ ~Has(p.circuits, m)
  <2>1. q = Missing(p, "routes", r, m, "clears")
    BY <1>1, <1>5 DEF ClearBlock
  <2> QED
    BY <1>0, <2>1, MissingPlaced
<1> QED
  BY <1>3, <1>4, <1>5

\* Align() writes the switches of its route only, and the switch stands.
LEMMA AlignKeeps ==
    ASSUME NEW p, IsPlant(p), NEW r \in Text, Has(p["routes"], r), NEW m \in Text, NEW rel \in Text,
           NEW q, q = Align(p, r, m, rel)
    PROVE  /\ Keeps(p, q, {}, {<<"routes", r, "aligns">>}, {})
           /\ Len(Held(p, "routes", r, "aligns")) < MaxRouteTerms => Placed(q, "routes", r, "aligns", m)
PROOF
<1> DEFINE full == Len(Held(p, "routes", r, "aligns")) >= MaxRouteTerms
           known == rel = None \/ Has(p.circuits, rel)
<1>0. "routes" \in Owners /\ "aligns" \in TermFields("routes") /\ "aligns" \in Text
      /\ Limit("routes", "aligns") = MaxRouteTerms /\ MaxRouteTerms \in Nat
  BY RouteFields, Limits, SizesAssumption
<1>1. Full(p, r, "aligns") <=> full
  BY DEF Full, Held, Entry
<1>2. Len(Held(p, "routes", r, "aligns")) \in Nat
  BY <1>0, EntryIs
<1>3. CASE full
  <2>1. q = p
    BY <1>1, <1>3 DEF Align
  <2> QED
    BY <1>0, <1>2, <1>3, <2>1, KeepsSame
<1> HIDE DEF full
<1>4. CASE ~full
  <2>0. PICK to : to = IF Has(p.circuits, rel) THEN rel ELSE None
    OBVIOUS
  <2>1. PICK b : b = [Bound("switches", m) EXCEPT !.rel = to]
    OBVIOUS
  <2>2. b \in Bonds /\ b.name = m /\ b.kind = "switches" /\ b.rel = to
    <3>1. "switches" \in Text /\ None \in Text
      BY TextIs DEF Words, None
    <3>2. b = [kind |-> "switches", name |-> m, rel |-> to]
      BY <2>1 DEF Bound
    <3> QED
      BY <2>0, <3>1, <3>2 DEF Bonds
  <2>3. PICK t : t = IF FindSwitch(p, m) THEN Extend(p, "routes", r, "aligns", MaxRouteTerms, <<b>>)
                     ELSE Missing(p, "routes", r, m, "aligns")
    OBVIOUS
  <2>4. q = IF known THEN t ELSE Missing(t, "routes", r, rel, "aligns")
    BY <1>1, <1>4, <2>0, <2>1, <2>3 DEF Align
  <2>5. /\ Keeps(p, t, {}, {<<"routes", r, "aligns">>}, {})
        /\ Len(Held(p, "routes", r, "aligns")) < MaxRouteTerms => Placed(t, "routes", r, "aligns", m)
    <3>1. CASE FindSwitch(p, m)
      <4>1. InTables(p, b)
        BY <2>0, <2>2, <3>1 DEF InTables
      <4>2. t = Extend(p, "routes", r, "aligns", Limit("routes", "aligns"), <<b>>)
        BY <1>0, <2>3, <3>1
      <4> QED
        BY <1>0, <2>2, <4>1, <4>2, BoundTermKeeps
    <3>2. CASE ~FindSwitch(p, m)
      <4>1. t = Missing(p, "routes", r, m, "aligns")
        BY <2>3, <3>2
      <4> QED
        BY <1>0, <4>1, MissingPlaced
    <3> QED
      BY <3>1, <3>2
  <2>6. CASE known
    BY <2>4, <2>5, <2>6
  <2>7. CASE ~known
    <3>1. IsPlant(t)
      BY <2>5 DEF Keeps
    <3>2. q = Missing(t, "routes", r, rel, "aligns")
      BY <2>4, <2>7
    <3>3. Keeps(t, q, {}, {}, {}) /\ AtStop(q, "routes", r)
      BY <1>0, <3>1, <3>2, MissingKeeps
    <3> QED
      BY <2>5, <3>3, KeepsThen, PlacedAtStop
  <2> QED
    BY <2>6, <2>7
<1> QED
  BY <1>3, <1>4

\* HomeFact() writes the home of its route only, and the fact stands.
LEMMA HomeFactKeeps ==
    ASSUME NEW p, IsPlant(p), NEW r \in Text, Has(p["routes"], r), NEW m \in Text,
           NEW q, q = HomeFact(p, r, m)
    PROVE  /\ Keeps(p, q, {}, {<<"routes", r, "home">>}, {})
           /\ Len(Held(p, "routes", r, "home")) < MaxRouteTerms /\ m # None
                => Placed(q, "routes", r, "home", m)
PROOF
<1>0. "routes" \in Owners /\ "home" \in TermFields("routes") /\ "home" \in Text
      /\ Limit("routes", "home") = MaxRouteTerms
  BY RouteFields, Limits
<1>1. PICK t, s : t = ResolveFact(p, m, "home", r).plant /\ s = ResolveFact(p, m, "home", r).fact
  OBVIOUS
<1>2. q = Extend(t, "routes", r, "home", Limit("routes", "home"), s)
  BY <1>0, <1>1 DEF HomeFact, FactTerm
<1> QED
  BY <1>0, <1>1, <1>2, FactTermKeeps

\* Proceed() writes the proceed fact of its route only, which stands.
LEMMA ProceedKeeps ==
    ASSUME NEW p, IsPlant(p), NEW r \in Text, NEW m \in Text, NEW q, q = Proceed(p, r, m)
    PROVE  /\ Keeps(p, q, {<<"routes", r, "proceed">>}, {}, {})
           /\ m # None => Placed(q, "routes", r, "proceed", m)
PROOF
<1>0. "routes" \in Owners /\ "proceed" \in TermFields("routes") /\ "proceed" \in Text
      /\ Limit("routes", "proceed") = 1
  BY RouteFields, Limits
<1>1. PICK t, s : t = ResolveFact(p, m, "proceed", r).plant /\ s = ResolveFact(p, m, "proceed", r).fact
  OBVIOUS
<1>2. Keeps(p, t, {}, {}, {}) /\ IsPlant(t) /\ IsFact(t, s, m)
  BY <1>0, <1>1, ResolveFactIs
<1>3. q = Set(t, "routes", r, "proceed", s)
  BY <1>1 DEF Proceed
<1>4. 1 <= Limit("routes", "proceed")
  BY <1>0
<1>5. /\ Keeps(t, q, {<<"routes", r, "proceed">>}, {}, {})
      /\ m # None => Placed(q, "routes", r, "proceed", m)
  BY <1>0, <1>2, <1>3, <1>4, FactSet
<1> QED
  BY <1>2, <1>5, KeepsAfter

\* Governs() writes what the signal governs and the home of its route, and the
\* fact stands in both.
LEMMA GovernsKeeps ==
    ASSUME NEW p, IsPlant(p), NEW a \in Text, Has(p["automatics"], a), NEW m \in Text,
           NEW q, q = Governs(p, a, m)
    PROVE  /\ Keeps(p, q, {}, {<<"automatics", a, "governs">>, <<"routes", a, "home">>}, {})
           /\ Len(Held(p, "automatics", a, "governs")) < MaxBlockFacts /\ m # None
                => /\ Placed(q, "automatics", a, "governs", m)
                   /\ (Has(p["routes"], a) => Len(Held(p, "routes", a, "home")) < MaxRouteTerms)
                        => Placed(q, "routes", a, "home", m)
PROOF
<1> DEFINE full == Len(Held(p, "automatics", a, "governs")) >= MaxBlockFacts
           A == {<<"automatics", a, "governs">>}
           R == {<<"routes", a, "home">>}
           E == {<<"automatics", a, "governs">>, <<"routes", a, "home">>}
<1>0. /\ "routes" \in Owners /\ "home" \in TermFields("routes")
      /\ "automatics" \in Owners /\ "governs" \in TermFields("automatics") /\ "governs" \in Text
      /\ Limit("routes", "home") = MaxRouteTerms /\ Limit("automatics", "governs") = MaxBlockFacts
      /\ MaxBlockFacts \in Nat
  BY RouteFields, Limits, SizesAssumption
<1>1. PICK t, s : t = ResolveFact(p, m, "governs", a).plant /\ s = ResolveFact(p, m, "governs", a).fact
  OBVIOUS
<1>2. /\ Keeps(p, t, {}, {}, {}) /\ IsPlant(t) /\ IsFact(t, s, m)
      /\ \A u \in OwnerTables : t[u] = p[u]
  BY <1>0, <1>1, ResolveFactIs
<1>3. Len(p.automatics[At(p.automatics, a)].governs) >= MaxBlockFacts <=> full
  BY DEF Held, Entry
<1>4. Len(Held(p, "automatics", a, "governs")) \in Nat
  BY <1>0, EntryIs
<1>5. CASE full
  <2>1. q = t
    BY <1>1, <1>3, <1>5 DEF Governs
  <2>2. Keeps(p, q, {}, E, {})
    BY <1>2, <2>1, KeepsMore
  <2> QED
    BY <1>0, <1>4, <1>5, <2>2
<1>6. CASE ~full
  <2>1. PICK v : v = Extend(t, "automatics", a, "governs", Limit("automatics", "governs"), s)
    OBVIOUS
  <2>2. q = Extend(v, "routes", a, "home", Limit("routes", "home"), s)
    BY <1>0, <1>1, <1>3, <1>6, <2>1 DEF Governs
  <2>3. t["automatics"] = p["automatics"] /\ t["routes"] = p["routes"]
    BY <1>2 DEF OwnerTables
  <2>4. /\ Has(t["automatics"], a) /\ Has(t["routes"], a) <=> Has(p["routes"], a)
        /\ Held(t, "automatics", a, "governs") = Held(p, "automatics", a, "governs")
        /\ Held(t, "routes", a, "home") = Held(p, "routes", a, "home")
    BY <2>3, HeldKept
  <2>5. /\ Keeps(t, v, {}, A, {}) /\ IsPlant(v)
        /\ m # None /\ (Has(t["automatics"], a) => Len(Held(t, "automatics", a, "governs")) < MaxBlockFacts)
             => Placed(v, "automatics", a, "governs", m)
    BY <1>0, <1>2, <2>1, FactExtend
  <2>6. IsFact(v, s, m)
    BY <1>2, <2>5, FactKept
  <2>7. /\ Keeps(v, q, {}, R, {})
        /\ m # None /\ (Has(v["routes"], a) => Len(Held(v, "routes", a, "home")) < MaxRouteTerms)
             => Placed(q, "routes", a, "home", m)
    BY <1>0, <2>2, <2>5, <2>6, FactExtend
  <2>8. Keeps(p, v, {}, A, {})
    BY <1>2, <2>5, KeepsAfter
  <2>17. <<"routes", a, "home">> \notin A /\ <<"automatics", a, "governs">> \notin R
    OBVIOUS
  <2>9. /\ A \cap R \subseteq {} \cup {}
        /\ A \cup R = E /\ {} \cup {} = {}
    OBVIOUS
  <2>10. Keeps(p, q, {} \cup {}, A \cup R, {} \cup {})
    BY <2>7, <2>8, <2>9, KeepsBoth
  <2>11. Keeps(p, q, {}, E, {})
    BY <2>9, <2>10
  <2>12. Has(v["routes"], a) => Has(p["routes"], a)
    BY <1>0, <2>8, SameOwners
  <2> HIDE DEF A, R, E, full
  <2>13. <<"routes", a, "home">> \notin {} \cup A
    BY <2>17
  <2>14. Has(p["routes"], a) => Held(v, "routes", a, "home") = Held(p, "routes", a, "home")
    BY <1>0, <2>8, <2>13, HeldSame
  <2>16. Placed(v, "automatics", a, "governs", m) => Placed(q, "automatics", a, "governs", m)
    BY <1>0, <2>5, <2>7, PlacedSame
  <2> QED
    BY <2>4, <2>5, <2>7, <2>11, <2>12, <2>14, <2>16 DEF E
<1> QED
  BY <1>5, <1>6

\* Opposing() writes the opposing signal and the home of the route.
LEMMA OpposingKeeps ==
    ASSUME NEW p, IsPlant(p), NEW a \in Text, Has(p["automatics"], a), NEW m \in Text,
           NEW q, q = Opposing(p, a, m)
    PROVE  /\ Keeps(p, q, {<<"automatics", a, "opposing">>}, {<<"routes", a, "home">>}, {})
           /\ Placed(q, "automatics", a, "opposing", m)
PROOF
<1> DEFINE W == {<<"automatics", a, "opposing">>}
           E == {<<"routes", a, "home">>}
<1>0. /\ "routes" \in Owners /\ "home" \in TermFields("routes")
      /\ "automatics" \in Owners /\ "opposing" \in TermFields("automatics") /\ "opposing" \in Text
      /\ Limit("routes", "home") = MaxRouteTerms /\ Limit("automatics", "opposing") = 1
  BY RouteFields, Limits
<1>1. PICK t : t = Appliance(p, "automatics", a, "opposing", "automatics", m)
  OBVIOUS
<1>2. 1 <= Limit("automatics", "opposing")
  BY <1>0
<1>3. Keeps(p, t, W, {}, {}) /\ Placed(t, "automatics", a, "opposing", m)
  BY <1>0, <1>1, <1>2, ApplianceKeeps
<1>4. IsPlant(t)
  BY <1>3 DEF Keeps
<1>5. CASE ~Has(p.automatics, m)
  <2>1. q = t
    BY <1>1, <1>5 DEF Opposing
  <2>2. Keeps(p, q, W, E, {})
    BY <1>3, <2>1, KeepsMore
  <2> QED
    BY <1>3, <2>1, <2>2
<1>6. CASE Has(p.automatics, m)
  <2>1. PICK b : b = Bound("cut", a)
    OBVIOUS
  <2>2. b \in Bonds /\ b.kind = "cut" /\ b.name = a
    BY <2>1, BoundIs, TextIs DEF Words
  <2>3. q = Extend(t, "routes", a, "home", Limit("routes", "home"), <<b>>)
    BY <1>0, <1>1, <1>6, <2>1 DEF Opposing
  <2>4. Has(t["automatics"], a)
    BY <1>0, <1>3, EntryKept
  <2>5. QED
    <3>1. InTables(t, b)
      BY <2>2, <2>4 DEF InTables
    <3>2. Keeps(t, q, {}, E, {})
      BY <1>0, <1>4, <2>2, <2>3, <3>1, BoundTermKeeps
    <3>3. /\ {} \cap E \subseteq W \cup {} /\ W \cup {} = W /\ {} \cup E = E /\ {} \cup {} = {}
      OBVIOUS
    <3>4. Keeps(p, q, W \cup {}, {} \cup E, {} \cup {})
      BY <1>3, <3>2, <3>3, KeepsBoth
    <3>5. Keeps(p, q, W, E, {})
      BY <3>3, <3>4
    <3>6. Placed(q, "automatics", a, "opposing", m)
      BY <1>0, <1>3, <1>4, <3>2, PlacedSame
    <3> QED
      BY <3>5, <3>6
<1> QED
  BY <1>5, <1>6

\* Reads() writes H, D, the home and the proceed of the route, and each stands.
LEMMA ReadsKeeps ==
    ASSUME NEW p, IsPlant(p), NEW a \in Text, NEW hn \in Text, NEW dn \in Text,
           NEW q, q = Reads(p, a, hn, dn)
    PROVE  /\ Keeps(p, q, {<<"automatics", a, "h">>, <<"automatics", a, "d">>, <<"routes", a, "proceed">>},
                    {<<"routes", a, "home">>}, {})
           /\ hn # None => Placed(q, "automatics", a, "h", hn)
           /\ dn # None => Placed(q, "automatics", a, "d", dn) /\ Placed(q, "routes", a, "proceed", dn)
           /\ hn # None /\ (Has(p["routes"], a) => Len(Held(p, "routes", a, "home")) < MaxRouteTerms)
                => Placed(q, "routes", a, "home", hn)
PROOF
<1> DEFINE H == {<<"automatics", a, "h">>}
           D == {<<"automatics", a, "d">>}
           P == {<<"routes", a, "proceed">>}
           R == {<<"routes", a, "home">>}
           W == {<<"automatics", a, "h">>, <<"automatics", a, "d">>, <<"routes", a, "proceed">>}
<1>0. /\ "routes" \in Owners /\ "home" \in TermFields("routes") /\ "proceed" \in TermFields("routes")
      /\ "automatics" \in Owners /\ "h" \in TermFields("automatics") /\ "d" \in TermFields("automatics")
      /\ "reads" \in Text
      /\ Limit("routes", "home") = MaxRouteTerms /\ Limit("routes", "proceed") = 1
      /\ Limit("automatics", "h") = 1 /\ Limit("automatics", "d") = 1
  BY RouteFields, Limits
<1>01. /\ 1 <= Limit("routes", "proceed") /\ 1 <= Limit("automatics", "h")
       /\ 1 <= Limit("automatics", "d")
  BY <1>0
<1>1. PICK t, hs : t = ResolveFact(p, hn, "reads", a).plant /\ hs = ResolveFact(p, hn, "reads", a).fact
  OBVIOUS
<1>2. Keeps(p, t, {}, {}, {}) /\ IsPlant(t) /\ IsFact(t, hs, hn)
  BY <1>0, <1>1, ResolveFactIs
<1>3. PICK u, ds : u = ResolveFact(t, dn, "reads", a).plant /\ ds = ResolveFact(t, dn, "reads", a).fact
  OBVIOUS
<1>4. Keeps(t, u, {}, {}, {}) /\ IsPlant(u) /\ IsFact(u, ds, dn)
  BY <1>0, <1>2, <1>3, ResolveFactIs
<1>5. PICK v : v = Set(u, "automatics", a, "h", hs)
  OBVIOUS
<1>6. PICK w : w = Set(v, "automatics", a, "d", ds)
  OBVIOUS
<1>7. PICK x : x = Extend(w, "routes", a, "home", Limit("routes", "home"), hs)
  OBVIOUS
<1>8. q = Set(x, "routes", a, "proceed", ds)
  BY <1>0, <1>1, <1>3, <1>5, <1>6, <1>7 DEF Reads
<1>9. IsFact(u, hs, hn)
  BY <1>2, <1>4, FactKept
<1>10. Keeps(u, v, H, {}, {}) /\ IsPlant(v) /\ (hn # None => Placed(v, "automatics", a, "h", hn))
  BY <1>0, <1>01, <1>4, <1>5, <1>9, FactSet
<1>11. IsFact(v, hs, hn) /\ IsFact(v, ds, dn)
  BY <1>4, <1>9, <1>10, FactKept
<1>12. Keeps(v, w, D, {}, {}) /\ IsPlant(w) /\ (dn # None => Placed(w, "automatics", a, "d", dn))
  BY <1>0, <1>01, <1>6, <1>10, <1>11, FactSet
<1>13. IsFact(w, hs, hn) /\ IsFact(w, ds, dn)
  BY <1>10, <1>11, <1>12, FactKept
<1>14. /\ Keeps(w, x, {}, R, {}) /\ IsPlant(x)
       /\ hn # None /\ (Has(w["routes"], a) => Len(Held(w, "routes", a, "home")) < MaxRouteTerms)
            => Placed(x, "routes", a, "home", hn)
  BY <1>0, <1>7, <1>12, <1>13, FactExtend
<1>15. IsFact(x, ds, dn)
  BY <1>12, <1>13, <1>14, FactKept
<1>16. Keeps(x, q, P, {}, {}) /\ (dn # None => Placed(q, "routes", a, "proceed", dn))
  BY <1>0, <1>01, <1>8, <1>14, <1>15, FactSet
<1>17. /\ <<"automatics", a, "h">> \notin D /\ <<"automatics", a, "h">> \notin P
       /\ <<"automatics", a, "d">> \notin P /\ <<"routes", a, "home">> \notin P
       /\ <<"routes", a, "home">> \notin (H \cup D) \cup ({} \cup {})
       /\ H \cup D \cup P = W
  OBVIOUS
<1> HIDE DEF H, D, P, R, W
<1>18. PICK no : no = {}
  OBVIOUS
<1>19. /\ <<"automatics", a, "h">> \notin no /\ <<"automatics", a>> \notin no /\ <<"routes", a>> \notin no
       /\ Keeps(v, w, D, {}, no) /\ Keeps(x, q, P, {}, no)
  BY <1>12, <1>16, <1>18
<1>20. hn # None => Placed(q, "automatics", a, "h", hn)
  <2>1. Placed(v, "automatics", a, "h", hn) => Placed(w, "automatics", a, "h", hn)
    BY <1>0, <1>10, <1>17, <1>19, PlacedKept
  <2>2. Placed(w, "automatics", a, "h", hn) => Placed(x, "automatics", a, "h", hn)
    BY <1>0, <1>12, <1>14, PlacedSame
  <2>3. Placed(x, "automatics", a, "h", hn) => Placed(q, "automatics", a, "h", hn)
    BY <1>0, <1>14, <1>17, <1>19, PlacedKept
  <2> QED
    BY <1>10, <2>1, <2>2, <2>3
<1>21. dn # None => Placed(q, "automatics", a, "d", dn)
  <2>1. Placed(w, "automatics", a, "d", dn) => Placed(x, "automatics", a, "d", dn)
    BY <1>0, <1>12, <1>14, PlacedSame
  <2>2. Placed(x, "automatics", a, "d", dn) => Placed(q, "automatics", a, "d", dn)
    BY <1>0, <1>14, <1>17, <1>19, PlacedKept
  <2> QED
    BY <1>12, <2>1, <2>2
<1>22. Keeps(p, u, {}, {}, {})
  BY <1>2, <1>4, KeepsThen
<1>23. Keeps(p, v, H, {}, {})
  BY <1>10, <1>22, KeepsAfter
<1>24. Keeps(p, w, H \cup D, {} \cup {}, {} \cup {})
  <2>1. {} \cap {} \subseteq H \cup D
    OBVIOUS
  <2> QED
    BY <1>12, <1>23, <2>1, KeepsBoth
<1>25. Keeps(p, x, (H \cup D) \cup {}, ({} \cup {}) \cup R, ({} \cup {}) \cup {})
  <2>1. ({} \cup {}) \cap R \subseteq (H \cup D) \cup {}
    OBVIOUS
  <2> QED
    BY <1>14, <1>24, <2>1, KeepsBoth
<1>26. Keeps(p, x, H \cup D, R, {})
  <2>1. (H \cup D) \cup {} = H \cup D /\ ({} \cup {}) \cup R = R /\ ({} \cup {}) \cup {} = {}
    OBVIOUS
  <2> QED
    BY <1>25, <2>1
<1>27. Keeps(p, q, (H \cup D) \cup P, R \cup {}, {} \cup {})
  <2>1. R \cap {} \subseteq (H \cup D) \cup P
    OBVIOUS
  <2> QED
    BY <1>16, <1>26, <2>1, KeepsBoth
<1>28. Keeps(p, q, W, R, {})
  <2>1. (H \cup D) \cup P = W /\ R \cup {} = R /\ {} \cup {} = {}
    BY <1>17
  <2> QED
    BY <1>27, <2>1
<1>29. ASSUME hn # None, Has(p["routes"], a) => Len(Held(p, "routes", a, "home")) < MaxRouteTerms
       PROVE  Placed(q, "routes", a, "home", hn)
  <2>1. IsPlant(w) /\ (Has(w["routes"], a) => Has(p["routes"], a))
    <3>1. Keeps(p, w, H \cup D, {} \cup {}, {})
      <4>1. {} \cup {} = {}
        OBVIOUS
      <4> QED
        BY <1>24, <4>1
    <3> QED
      BY <1>0, <1>12, <3>1, SameOwners
  <2>2. Has(p["routes"], a) => Held(w, "routes", a, "home") = Held(p, "routes", a, "home")
    BY <1>0, <1>17, <1>24, HeldSame
  <2>3. Placed(x, "routes", a, "home", hn)
    BY <1>14, <1>29, <2>1, <2>2
  <2> QED
    BY <1>0, <1>14, <1>17, <1>19, <2>3, PlacedKept
<1> QED
  BY <1>16, <1>20, <1>21, <1>28, <1>29 DEF W, R

\* Leaving() writes the leaving masts of its line only, and the mast stands.
LEMMA LeavingKeeps ==
    ASSUME NEW p, IsPlant(p), NEW l \in Text, NEW m \in Text, NEW q, q = Leaving(p, l, m)
    PROVE  /\ Keeps(p, q, {}, {<<"controlPoints", l, "leaving">>}, {})
           /\ Len(Held(p, "controlPoints", l, "leaving")) < MaxLineMasts
                => Placed(q, "controlPoints", l, "leaving", m)
PROOF
<1>0. "controlPoints" \in Owners /\ "leaving" \in TermFields("controlPoints") /\ "leaving" \in Text
      /\ Limit("controlPoints", "leaving") = MaxLineMasts
  BY RouteFields, Limits
<1>1. CASE Has(p.masts, m)
  <2>1. PICK b : b = Bound("masts", m)
    OBVIOUS
  <2>2. b \in Bonds /\ b.name = m /\ b.kind = "masts"
    BY <2>1, BoundIs, TextIs DEF Words
  <2>3. InTables(p, b)
    BY <1>1, <2>2 DEF InTables
  <2>4. q = Extend(p, "controlPoints", l, "leaving", Limit("controlPoints", "leaving"), <<b>>)
    BY <1>0, <1>1, <2>1 DEF Leaving
  <2> QED
    BY <1>0, <2>2, <2>3, <2>4, BoundTermKeeps
<1>2. CASE ~Has(p.masts, m)
  <2>1. q = Missing(p, "controlPoints", l, m, "leaving")
    BY <1>2 DEF Leaving
  <2> QED
    BY <1>0, <2>1, MissingPlaced
<1> QED
  BY <1>1, <1>2

-----------------------------------------------------------------------------
(* One call after the other.                                               *)

\* What holds at 0 and goes on to hold holds up to n.
LEMMA UpTo ==
    ASSUME NEW n \in Nat, NEW S, 0 \in S, \A i \in 0 .. n - 1 : i \in S => i + 1 \in S
    PROVE  \A i \in 0 .. n : i \in S
PROOF
<1> DEFINE T == {i \in 0 .. n : i \notin S}
<1> SUFFICES ASSUME T # {}
             PROVE  FALSE
  OBVIOUS
<1>1. T \subseteq Nat
  OBVIOUS
<1>2. PICK m \in T : \A i \in T : m <= i
  BY <1>1, LeastOf
<1>3. m # 0 /\ m - 1 \in 0 .. n - 1 /\ m - 1 \in 0 .. n /\ (m - 1) + 1 = m
  BY <1>2
<1>4. m - 1 \in S
  BY <1>2, <1>3
<1>5. (m - 1) + 1 \in S
  BY <1>3, <1>4
<1> QED
  BY <1>2, <1>3, <1>5

\* The calls that are made for every entry of a list.
Turn(k, p, x, r, rel) ==
    IF k = "clears" THEN ClearBlock(p, r, x)
    ELSE IF k = "aligns" THEN Align(p, r, x, rel)
    ELSE IF k = "home" THEN HomeFact(p, r, x)
    ELSE IF k = "picks" THEN (IF x \in rel THEN Append(p, r[x]) ELSE p)
    ELSE IF k = "calls" THEN Configured(p, x) ELSE Made(p, x)

\* g is the plant after each of the first n of them.
Follows(g, k, p, list, r, rel, n) ==
    g = [i \in 0 .. n |-> IF i = 0 THEN p ELSE Turn(k, g[i - 1], list[i], r, rel)]

\* The plants that lists of calls lead through, one after the other.
LEMMA FollowsExists ==
    ASSUME NEW k, NEW p, NEW list, NEW r, NEW rel, NEW n \in Nat
    PROVE  \E g : Follows(g, k, p, list, r, rel, n)
PROOF
<1> DEFINE S == {i \in Nat : \E g : Follows(g, k, p, list, r, rel, i)}
<1>1. 0 \in S
  <2> DEFINE g == [i \in 0 .. 0 |-> p]
  <2>1. \A i \in 0 .. 0 : i = 0
    OBVIOUS
  <2>2. g = [i \in 0 .. 0 |-> IF i = 0 THEN p ELSE Turn(k, g[i - 1], list[i], r, rel)]
    BY <2>1
  <2> QED
    BY <2>2 DEF Follows
<1>2. ASSUME NEW m \in 0 .. n - 1, m \in S
      PROVE  m + 1 \in S
  <2>1. PICK h : Follows(h, k, p, list, r, rel, m)
    BY <1>2
  <2> DEFINE g == [i \in 0 .. m + 1 |-> IF i = 0 THEN p ELSE Turn(k, h[i - 1], list[i], r, rel)]
  <2>2. ASSUME NEW i \in 0 .. m
        PROVE  g[i] = h[i]
    <3>1. h[i] = IF i = 0 THEN p ELSE Turn(k, h[i - 1], list[i], r, rel)
      BY <2>1 DEF Follows
    <3>2. i \in 0 .. m + 1
      OBVIOUS
    <3> QED
      BY <3>1, <3>2
  <2>3. ASSUME NEW i \in 0 .. m + 1, i # 0
        PROVE  h[i - 1] = g[i - 1]
    <3>1. i - 1 \in 0 .. m
      BY <2>3
    <3> QED
      BY <2>2, <3>1
  <2>4. \A i \in 0 .. m + 1 : g[i] = IF i = 0 THEN p ELSE Turn(k, g[i - 1], list[i], r, rel)
    BY <2>3
  <2>5. g = [i \in 0 .. m + 1 |-> g[i]]
    OBVIOUS
  <2> HIDE DEF g
  <2>6. Follows(g, k, p, list, r, rel, m + 1)
    BY <2>4, <2>5 DEF Follows
  <2> QED
    BY <2>6
<1> HIDE DEF S
<1>3. n \in S
  BY <1>1, <1>2, UpTo
<1> QED
  BY <1>3 DEF S

\* The lists of a route, and a file, as such functions.
LEMMA ClearsIs ==
    ASSUME NEW p, NEW r, NEW ns, Len(ns) \in Nat, NEW rel
    PROVE  \E g : /\ Follows(g, "clears", Cleared(p, "routes", r, "clears"), ns, r, rel, Len(ns))
                  /\ Clears(p, r, ns) = g[Len(ns)]
PROOF
<1> DEFINE q == Cleared(p, "routes", r, "clears")
           F == CHOOSE g : Follows(g, "clears", q, ns, r, rel, Len(ns))
<1>1. Follows(F, "clears", q, ns, r, rel, Len(ns))
  BY FollowsExists
<1>2. Clears(p, r, ns) = F[Len(ns)]
  BY DEF Clears, InTurn, Follows, Turn, Cleared
<1> QED
  BY <1>1, <1>2

\* Aligns() goes through its list of switches.
LEMMA AlignsIs ==
    ASSUME NEW p, NEW r, NEW ns, Len(ns) \in Nat, NEW rel
    PROVE  \E g : /\ Follows(g, "aligns", Cleared(p, "routes", r, "aligns"), ns, r, rel, Len(ns))
                  /\ Aligns(p, r, ns, rel) = g[Len(ns)]
PROOF
<1> DEFINE q == Cleared(p, "routes", r, "aligns")
           F == CHOOSE g : Follows(g, "aligns", q, ns, r, rel, Len(ns))
<1>1. Follows(F, "aligns", q, ns, r, rel, Len(ns))
  BY FollowsExists
<1>2. Aligns(p, r, ns, rel) = F[Len(ns)]
  BY DEF Aligns, InTurn, Follows, Turn, Cleared
<1> QED
  BY <1>1, <1>2

\* Home() goes through its list of facts.
LEMMA HomeIs ==
    ASSUME NEW p, NEW r, NEW ns, Len(ns) \in Nat, NEW rel
    PROVE  \E g : /\ Follows(g, "home", Cleared(p, "routes", r, "home"), ns, r, rel, Len(ns))
                  /\ Home(p, r, ns) = g[Len(ns)]
PROOF
<1> DEFINE q == Cleared(p, "routes", r, "home")
           F == CHOOSE g : Follows(g, "home", q, ns, r, rel, Len(ns))
<1>1. Follows(F, "home", q, ns, r, rel, Len(ns))
  BY FollowsExists
<1>2. Home(p, r, ns) = F[Len(ns)]
  BY DEF Home, InTurn, Follows, Turn, Cleared
<1> QED
  BY <1>1, <1>2

\* deserialize() goes through its groups of calls.
LEMMA DeserializedIs ==
    ASSUME NEW p, NEW f, Len(CallsOf(f)) \in Nat, NEW r, NEW rel
    PROVE  \E g : /\ Follows(g, "groups", Reset(p, f.default), CallsOf(f), r, rel, Len(CallsOf(f)))
                  /\ Deserialized(p, f) = g[Len(CallsOf(f))]
PROOF
<1> DEFINE q == Reset(p, f.default)
           F == CHOOSE g : Follows(g, "groups", q, CallsOf(f), r, rel, Len(CallsOf(f)))
<1>1. Follows(F, "groups", q, CallsOf(f), r, rel, Len(CallsOf(f)))
  BY FollowsExists
<1>2. Deserialized(p, f) = F[Len(CallsOf(f))]
  BY DEF Deserialized, InTurn, Follows, Turn
<1> QED
  BY <1>1, <1>2

\* A group goes through its calls.
LEMMA MadeIs ==
    ASSUME NEW p, NEW calls, Len(calls) \in Nat, NEW r, NEW rel
    PROVE  \E g : /\ Follows(g, "calls", p, calls, r, rel, Len(calls))
                  /\ Made(p, calls) = g[Len(calls)]
PROOF
<1> DEFINE F == CHOOSE g : Follows(g, "calls", p, calls, r, rel, Len(calls))
<1>1. Follows(F, "calls", p, calls, r, rel, Len(calls))
  BY FollowsExists
<1>2. Made(p, calls) = F[Len(calls)]
  BY DEF Made, InTurn, Follows, Turn
<1> QED
  BY <1>1, <1>2

-----------------------------------------------------------------------------
(* The calls that take a whole list.                                       *)

\* One entry of a list writes the field of the list only, and stands.
LEMMA TurnKeeps ==
    ASSUME NEW p, IsPlant(p), NEW r \in Text, Has(p["routes"], r), NEW m \in Text, NEW rel \in Text,
           NEW k \in {"clears", "aligns", "home"}, NEW q, q = Turn(k, p, m, r, rel)
    PROVE  /\ Keeps(p, q, {}, {<<"routes", r, k>>}, {})
           /\ Len(Held(p, "routes", r, k)) < MaxRouteTerms /\ m # None => Placed(q, "routes", r, k, m)
PROOF
<1>1. CASE k = "clears"
  <2>1. q = ClearBlock(p, r, m)
    BY <1>1 DEF Turn
  <2> QED
    BY <1>1, <2>1, ClearBlockKeeps
<1>2. CASE k = "aligns"
  <2>1. q = Align(p, r, m, rel)
    BY <1>2 DEF Turn
  <2> QED
    BY <1>2, <2>1, AlignKeeps
<1>3. CASE k = "home"
  <2>1. q = HomeFact(p, r, m)
    BY <1>3 DEF Turn
  <2> QED
    BY <1>3, <2>1, HomeFactKeeps
<1> QED
  BY <1>1, <1>2, <1>3

\* A list is written into an empty field, one term after the other.
LEMMA ListKeeps ==
    ASSUME NEW p, IsPlant(p), NEW r \in Text, Has(p["routes"], r), NEW ns \in Seq(Text), NEW rel \in Text,
           NEW k \in {"clears", "aligns", "home"},
           NEW g, Follows(g, k, Cleared(p, "routes", r, k), ns, r, rel, Len(ns)),
           NEW q, q = g[Len(ns)]
    PROVE  /\ Keeps(p, q, {<<"routes", r, k>>}, {}, {})
           /\ Len(ns) <= MaxRouteTerms
                => \A j \in DOMAIN ns : ns[j] # None => Placed(q, "routes", r, k, ns[j])
PROOF
<1>1. /\ Len(ns) \in Nat /\ DOMAIN ns = 1 .. Len(ns) /\ \A i \in 1 .. Len(ns) : ns[i] \in Text
  BY LenProperties, ElementOfSeq
<1>2. "routes" \in Owners /\ k \in TermFields("routes") /\ Limit("routes", k) = MaxRouteTerms
  BY RouteFields, Limits
<1> DEFINE C == {<<"routes", r, k>>}
           e == Cleared(p, "routes", r, k)
           Good(i) == /\ Keeps(p, g[i], C, {}, {}) /\ Has(g[i]["routes"], r)
                      /\ Len(Held(g[i], "routes", r, k)) <= i
                      /\ Len(ns) <= MaxRouteTerms
                           => \A j \in 1 .. i : ns[j] # None => Placed(g[i], "routes", r, k, ns[j])
           S == {i \in 0 .. Len(ns) : Good(i)}
<1>3. g[0] = e /\ \A i \in 1 .. Len(ns) : g[i] = Turn(k, g[i - 1], ns[i], r, rel)
  <2>1. \A i \in 0 .. Len(ns) : g[i] = IF i = 0 THEN e ELSE Turn(k, g[i - 1], ns[i], r, rel)
    BY DEF Follows
  <2> HIDE DEF e
  <2> QED
    BY <1>1, <2>1
<1>4. Good(0)
  <2>1. PICK z : z = g[0]
    OBVIOUS
  <2>2. Keeps(p, z, C, {}, {}) /\ Held(z, "routes", r, k) = <<>>
    BY <1>2, <1>3, <2>1, Emptied
  <2>3. Has(z["routes"], r)
    BY <1>2, <2>2, SameOwners
  <2>4. Len(Held(z, "routes", r, k)) <= 0
    BY <2>2, NoBond
  <2>5. \A j \in 1 .. 0 : FALSE
    OBVIOUS
  <2> QED
    BY <2>1, <2>2, <2>3, <2>4, <2>5
<1>5. ASSUME NEW i \in 0 .. Len(ns) - 1, Good(i)
      PROVE  Good(i + 1)
  <2>1. PICK s, t, n, m : s = g[i] /\ t = g[i + 1] /\ n = i + 1 /\ m = ns[i + 1]
    OBVIOUS
  <2>2. n \in 1 .. Len(ns) /\ n - 1 = i /\ m \in Text /\ n = i + 1 /\ i \in Nat
    BY <1>1, <2>1
  <2>3. t = Turn(k, s, m, r, rel)
    BY <1>3, <2>1, <2>2
  <2>4. Keeps(p, s, C, {}, {}) /\ Has(s["routes"], r) /\ Len(Held(s, "routes", r, k)) <= i
    BY <1>5, <2>1
  <2>5. IsPlant(s)
    BY <2>4 DEF Keeps
  <2>6. /\ Keeps(s, t, {}, C, {})
        /\ Len(Held(s, "routes", r, k)) < MaxRouteTerms /\ m # None => Placed(t, "routes", r, k, m)
    BY <2>2, <2>3, <2>4, <2>5, TurnKeeps
  <2>7. Has(t["routes"], r) /\ IsPlant(t)
    <3>1. IsPlant(t)
      BY <2>6 DEF Keeps
    <3> QED
      BY <1>2, <2>4, <2>5, <2>6, <3>1, SameOwners
  <2>8. Keeps(p, t, C, {}, {})
    <3>1. {} \cap C \subseteq C \cup {} /\ C \cup {} \subseteq C /\ {} \cup C \subseteq {} \cup C /\ {} \cup {} \subseteq {}
      OBVIOUS
    <3> HIDE DEF C
    <3>2. Keeps(p, t, C \cup {}, {} \cup C, {} \cup {})
      BY <2>4, <2>6, <3>1, KeepsBoth
    <3> QED
      BY <3>1, <3>2, KeepsMore
  <2>9. Len(Held(t, "routes", r, k)) <= n
    <3>1. Extends(Held(s, "routes", r, k), Held(t, "routes", r, k))
      <4>1. <<"routes", r, k>> \notin {}
        OBVIOUS
      <4>2. PICK no : no = {}
        OBVIOUS
      <4>3. <<"routes", r, k>> \notin no /\ Keeps(s, t, no, C, {})
        BY <2>6, <4>2
      <4> HIDE DEF C
      <4> QED
        BY <1>2, <2>4, <2>5, <4>3, EntryKept
    <3>2. Len(Held(s, "routes", r, k)) \in Nat /\ Len(Held(t, "routes", r, k)) \in Nat
      BY <1>2, <2>4, <2>5, <2>7, EntryIs
    <3> QED
      BY <2>2, <2>4, <3>1, <3>2 DEF Extends
  <2>10. ASSUME Len(ns) <= MaxRouteTerms, NEW j \in 1 .. n, ns[j] # None
         PROVE  Placed(t, "routes", r, k, ns[j])
    <3>0. PICK x : x = ns[j]
      OBVIOUS
    <3>1. CASE j = n
      <4>1. Len(Held(s, "routes", r, k)) < MaxRouteTerms
        <5>1. Len(Held(s, "routes", r, k)) \in Nat
          BY <1>2, <2>4, <2>5, EntryIs
        <5>2. MaxRouteTerms \in Nat
          BY SizesAssumption
        <5> QED
          BY <1>1, <2>2, <2>4, <2>10, <5>1, <5>2
      <4> QED
        BY <2>1, <2>2, <2>6, <2>10, <3>1, <4>1
    <3>2. CASE j # n
      <4>1. j \in 1 .. i
        BY <2>2, <3>2
      <4>2. Placed(s, "routes", r, k, x)
        BY <1>5, <2>1, <2>10, <3>0, <4>1
      <4>3. Placed(t, "routes", r, k, x)
        BY <1>2, <2>5, <2>6, <4>2, PlacedSame
      <4> QED
        BY <3>0, <4>3
    <3> QED
      BY <3>1, <3>2
  <2> HIDE DEF C
  <2>11. Good(n)
    BY <2>1, <2>7, <2>8, <2>9, <2>10
  <2> QED
    BY <2>2, <2>11
<1> HIDE DEF Good
<1>6. Good(Len(ns))
  <2>1. 0 \in S /\ \A i \in 0 .. Len(ns) - 1 : i \in S => i + 1 \in S
    BY <1>1, <1>4, <1>5
  <2> HIDE DEF S
  <2>2. \A i \in 0 .. Len(ns) : i \in S
    BY <1>1, <2>1, UpTo
  <2>3. Len(ns) \in S
    BY <1>1, <2>2
  <2> QED
    BY <2>3 DEF S
<1> QED
  BY <1>1, <1>6 DEF Good

\* clears(), aligns() and home() with a list.
LEMMA ListsKeep ==
    ASSUME NEW p, IsPlant(p), NEW r \in Text, Has(p["routes"], r), NEW ns \in Seq(Text), NEW rel \in Text,
           NEW k \in {"clears", "aligns", "home"},
           NEW q, \/ k = "clears" /\ q = Clears(p, r, ns)
                  \/ k = "aligns" /\ q = Aligns(p, r, ns, rel)
                  \/ k = "home" /\ q = Home(p, r, ns)
    PROVE  /\ Keeps(p, q, {<<"routes", r, k>>}, {}, {})
           /\ Len(ns) <= MaxRouteTerms
                => \A j \in DOMAIN ns : ns[j] # None => Placed(q, "routes", r, k, ns[j])
PROOF
<1>1. Len(ns) \in Nat
  BY LenProperties
<1>2. PICK g : Follows(g, k, Cleared(p, "routes", r, k), ns, r, rel, Len(ns)) /\ q = g[Len(ns)]
  <2>1. CASE k = "clears" /\ q = Clears(p, r, ns)
    BY <1>1, <2>1, ClearsIs
  <2>2. CASE k = "aligns" /\ q = Aligns(p, r, ns, rel)
    BY <1>1, <2>2, AlignsIs
  <2>3. CASE k = "home" /\ q = Home(p, r, ns)
    BY <1>1, <2>3, HomeIs
  <2> QED
    BY <2>1, <2>2, <2>3
<1> QED
  BY <1>2, ListKeeps

-----------------------------------------------------------------------------
(* Declarations.                                                           *)

\* An appliance is added where there is room for it.
LEMMA RoomKeeps ==
    ASSUME NEW p, IsPlant(p), NEW t \in ApplianceTables \cup {"locks"}, NEW e \in Entries(t),
           NEW q, q = IF Room(p, t) THEN Add(p, t, e) ELSE p
    PROVE  Keeps(p, q, {}, {}, {})
PROOF
<1>1. CASE Room(p, t)
  <2>1. Len(p[t]) < Slots(p, t)
    BY <1>1 DEF Room, Slots, ApplianceTables
  <2>2. q = Add(p, t, e)
    BY <1>1
  <2> HIDE DEF Entries
  <2> QED
    BY <2>1, <2>2, AddAppliance
<1>2. CASE ~Room(p, t)
  BY <1>2, KeepsSame
<1> QED
  BY <1>1, <1>2

\* What the declarations put into the tables.
LEMMA EntriesAre ==
    /\ \A n, d : n \in Text /\ d \in Nat => [name |-> n, timeout |-> d] \in Entries("circuits")
    /\ \A n, i, d : n \in Text /\ i \in BOOLEAN /\ d \in Nat
         => [name |-> n, implicit |-> i, timeout |-> d] \in Entries("lines")
    /\ \A n, d, b, c : n \in Text /\ d \in BOOLEAN /\ b \in Text /\ c \in Text
         => [name |-> n, derail |-> d, base |-> b, pair |-> c] \in Entries("switches")
    /\ \A n, a, b : n \in Text /\ a \in Text /\ b \in Text
         => [name |-> n, a |-> a, b |-> b] \in Entries("crossovers")
    /\ \A n : n \in Text => [name |-> n] \in Entries("controls") /\ [name |-> n] \in Entries("masts")
    /\ \A n, m : n \in Text /\ m \in Text => <<n, m>> \in Entries("locks")
  BY DEF Entries

\* After a report the plant has the same tables.
LEMMA OnlyGapsPlant ==
    ASSUME NEW p, NEW q, OnlyGaps(p, q)
    PROVE  /\ IsPlant(q) /\ Keeps(p, q, {}, {}, {}) /\ \A t : Room(q, t) = (Len(q[t]) < p.slots)
           /\ q.slots = p.slots /\ q.default = p.default /\ \A t \in Tables \ {"gaps"} : q[t] = p[t]
PROOF
<1>1. IsPlant(q) /\ Keeps(p, q, {}, {}, {}) /\ \A f \in PlantFields \ {"gaps"} : q[f] = p[f]
  BY DEF OnlyGaps, Keeps
<1>2. q.slots = p.slots /\ q.default = p.default /\ \A t \in Tables \ {"gaps"} : q[t] = p[t]
  BY <1>1 DEF PlantFields
<1> QED
  BY <1>1, <1>2 DEF Room

\* addTrackCircuit() touches no owner.
LEMMA AddTrackCircuitKeeps ==
    ASSUME NEW p, IsPlant(p), NEW n \in Text, NEW q, q = AddTrackCircuit(p, n)
    PROVE  Keeps(p, q, {}, {}, {})
PROOF
<1>1. CASE ~Room(p, "circuits")
  BY <1>1, KeepsSame DEF AddTrackCircuit
<1>2. CASE Room(p, "circuits")
  <2>1. PICK c, t, e : /\ c = "addTrackCircuit" /\ t = NoteConflict(p, n, c)
                       /\ e = [name |-> n, timeout |-> p.default]
    OBVIOUS
  <2>2. c \in Text /\ n \in Reportable
    BY <2>1, TextIs DEF Words, Reportable
  <2>3. OnlyGaps(p, t)
    BY <2>1, <2>2, NoteConflictKeeps
  <2>4. e \in Entries("circuits")
    BY <2>1, EntriesAre DEF IsPlant
  <2>5. IsPlant(t) /\ Keeps(p, t, {}, {}, {}) /\ Room(t, "circuits")
    <3>1. "circuits" \in Tables \ {"gaps"}
      BY DEF Tables, ApplianceTables
    <3> QED
      BY <1>2, <2>3, <3>1, OnlyGapsPlant DEF Room
  <2>6. q = IF Room(t, "circuits") THEN Add(t, "circuits", e) ELSE t
    BY <1>2, <2>1, <2>5 DEF AddTrackCircuit
  <2>7. "circuits" \in ApplianceTables \cup {"locks"}
    BY DEF ApplianceTables
  <2> HIDE DEF Entries
  <2>8. Keeps(t, q, {}, {}, {})
    BY <2>4, <2>5, <2>6, <2>7, RoomKeeps
  <2> QED
    BY <2>5, <2>8, KeepsThen
<1> QED
  BY <1>1, <1>2

\* addLineInput() touches no owner.
LEMMA AddLineInputKeeps ==
    ASSUME NEW p, IsPlant(p), NEW n \in Text, NEW d \in Nat, NEW q, q = AddLineInput(p, n, d)
    PROVE  Keeps(p, q, {}, {}, {})
PROOF
<1>1. PICK c, t, i, e : /\ c = "addLineInput" /\ t = NoteConflict(p, n, c) /\ i = FALSE
                        /\ e = [name |-> n, implicit |-> i, timeout |-> d]
  OBVIOUS
<1>2. c \in Text /\ n \in Reportable
  BY <1>1, TextIs DEF Words, Reportable
<1>3. OnlyGaps(p, t)
  BY <1>1, <1>2, NoteConflictKeeps
<1>4. e \in Entries("lines")
  BY <1>1, EntriesAre
<1>5. IsPlant(t) /\ Keeps(p, t, {}, {}, {})
  BY <1>3, OnlyGapsPlant
<1>6. q = IF Room(t, "lines") THEN Add(t, "lines", e) ELSE t
  BY <1>1 DEF AddLineInput
<1>7. "lines" \in ApplianceTables \cup {"locks"}
  BY DEF ApplianceTables
<1> HIDE DEF Entries
<1>8. Keeps(t, q, {}, {}, {})
  BY <1>4, <1>5, <1>6, <1>7, RoomKeeps
<1> QED
  BY <1>5, <1>8, KeepsThen

\* bindDetectorLock() touches no owner.
LEMMA BindDetectorLockKeeps ==
    ASSUME NEW p, IsPlant(p), NEW sw \in Text, NEW tc \in Text, NEW q, q = BindDetectorLock(p, sw, tc)
    PROVE  Keeps(p, q, {}, {}, {})
PROOF
<1>1. PICK e : e = <<sw, tc>>
  OBVIOUS
<1>2. e \in Entries("locks") /\ "locks" \in ApplianceTables \cup {"locks"}
  BY <1>1, EntriesAre
<1>3. CASE Room(p, "locks")
  <2>1. q = p \/ q = Add(p, "locks", e)
    BY <1>1 DEF BindDetectorLock
  <2>2. CASE q = Add(p, "locks", e)
    <3>1. q = IF Room(p, "locks") THEN Add(p, "locks", e) ELSE p
      BY <1>3, <2>2
    <3> HIDE DEF Entries
    <3> QED
      BY <1>2, <3>1, RoomKeeps
  <2> QED
    BY <2>1, <2>2, KeepsSame
<1>4. CASE ~Room(p, "locks")
  BY <1>4, KeepsSame DEF BindDetectorLock
<1> QED
  BY <1>3, <1>4

\* The detector of a machine, declared and bound, touches no owner.
LEMMA WithDetectorKeeps ==
    ASSUME NEW p, IsPlant(p), NEW sw \in Text, NEW os \in Text, NEW q, q = WithDetector(p, sw, os)
    PROVE  Keeps(p, q, {}, {}, {})
PROOF
<1>1. CASE os = None
  BY <1>1, KeepsSame DEF WithDetector
<1>2. CASE os # None
  <2>1. PICK t : t = IF Has(p.circuits, os) THEN p ELSE AddTrackCircuit(p, os)
    OBVIOUS
  <2>2. Keeps(p, t, {}, {}, {})
    <3>1. CASE Has(p.circuits, os)
      BY <2>1, <3>1, KeepsSame
    <3>2. CASE ~Has(p.circuits, os)
      BY <2>1, <3>2, AddTrackCircuitKeeps
    <3> QED
      BY <3>1, <3>2
  <2>3. IsPlant(t)
    BY <2>2 DEF Keeps
  <2>4. q = BindDetectorLock(t, sw, os)
    BY <1>2, <2>1 DEF WithDetector
  <2>5. Keeps(t, q, {}, {}, {})
    BY <2>3, <2>4, BindDetectorLockKeeps
  <2> QED
    BY <2>2, <2>5, KeepsThen
<1> QED
  BY <1>1, <1>2

\* addSwitch() touches no owner.
LEMMA AddSwitchKeeps ==
    ASSUME NEW p, IsPlant(p), NEW n \in Text, NEW os \in Text, NEW q, q = AddSwitch(p, n, os)
    PROVE  Keeps(p, q, {}, {}, {})
PROOF
<1>1. CASE ~Room(p, "switches")
  BY <1>1, KeepsSame DEF AddSwitch
<1>2. CASE Room(p, "switches")
  <2>1. PICK no, f, e, t : /\ no = None /\ f = FALSE
                           /\ e = [name |-> n, derail |-> f, base |-> no, pair |-> no]
                           /\ t = Add(p, "switches", e)
    OBVIOUS
  <2>2. no \in Text
    BY <2>1, TextIs DEF Words, None
  <2>3. e \in Entries("switches")
    BY <2>1, <2>2, EntriesAre
  <2>4. t = IF Room(p, "switches") THEN Add(p, "switches", e) ELSE p
    BY <1>2, <2>1
  <2>5. "switches" \in ApplianceTables \cup {"locks"}
    BY DEF ApplianceTables
  <2>6. q = WithDetector(t, n, os)
    BY <1>2, <2>1 DEF AddSwitch
  <2> HIDE DEF Entries
  <2>7. Keeps(p, t, {}, {}, {})
    BY <2>3, <2>4, <2>5, RoomKeeps
  <2>8. IsPlant(t)
    BY <2>7 DEF Keeps
  <2>9. Keeps(t, q, {}, {}, {})
    BY <2>6, <2>8, WithDetectorKeeps
  <2> QED
    BY <2>7, <2>9, KeepsThen
<1> QED
  BY <1>1, <1>2

\* Controls and masts are declared and touch no owner.
LEMMA AddControlKeeps ==
    ASSUME NEW p, IsPlant(p), NEW n \in Text,
           NEW q, q = AddSignalControl(p, n) \/ q = AddSignalMast(p, n)
    PROVE  Keeps(p, q, {}, {}, {})
PROOF
<1>1. PICK e : e = [name |-> n]
  OBVIOUS
<1>2. e \in Entries("controls") /\ e \in Entries("masts")
  BY <1>1, EntriesAre
<1>3. "controls" \in ApplianceTables \cup {"locks"} /\ "masts" \in ApplianceTables \cup {"locks"}
  BY DEF ApplianceTables
<1>4. \/ q = IF Room(p, "controls") THEN Add(p, "controls", e) ELSE p
      \/ q = IF Room(p, "masts") THEN Add(p, "masts", e) ELSE p
  BY <1>1 DEF AddSignalControl, AddSignalMast
<1> HIDE DEF Entries
<1> QED
  BY <1>2, <1>3, <1>4, RoomKeeps

-----------------------------------------------------------------------------
(* Pairs of switch machines, and the declarations of owners.               *)

\* One entry of a table with a field written: the table is as long, and every
\* entry has its name.
LEMMA PairWritten ==
    ASSUME NEW s \in Seq(Entries("switches")), NEW n, NEW v \in Text,
           NEW t, t = Changed(s, n, "pair", v)
    PROVE  /\ t \in Seq(Entries("switches")) /\ Len(t) = Len(s)
           /\ \A i \in 1 .. Len(s) : t[i].name = s[i].name
PROOF
<1>1. Len(s) \in Nat /\ DOMAIN s = 1 .. Len(s) /\ \A i \in 1 .. Len(s) : s[i] \in Entries("switches")
  BY LenProperties, ElementOfSeq
<1>2. CASE ~Has(s, n)
  BY <1>2 DEF Changed
<1>3. CASE Has(s, n)
  <2>1. PICK a : a = At(s, n)
    OBVIOUS
  <2>2. a \in 1 .. Len(s)
    BY <1>1, <1>3, <2>1, AtIs
  <2>3. t = [s EXCEPT ![a]["pair"] = v]
    BY <1>3, <2>1 DEF Changed
  <2>4. s = [i \in 1 .. Len(s) |-> s[i]]
    BY <1>1
  <2>5. t = [i \in 1 .. Len(s) |-> IF i = a THEN [s[a] EXCEPT !["pair"] = v] ELSE s[i]]
    BY <2>2, <2>3, <2>4
  <2>6. [s[a] EXCEPT !["pair"] = v] \in Entries("switches")
        /\ [s[a] EXCEPT !["pair"] = v].name = s[a].name
    BY <1>1, <2>2 DEF Entries
  <2> HIDE DEF Entries
  <2>7. \A i \in 1 .. Len(s) : t[i] \in Entries("switches") /\ t[i].name = s[i].name
    BY <1>1, <2>5, <2>6
  <2>8. t \in Seq(Entries("switches")) /\ Len(t) = Len(s)
    <3>1. t = [i \in 1 .. Len(s) |-> t[i]]
      BY <2>5
    <3> QED
      BY <1>1, <2>7, <3>1, IsASeq
  <2> QED
    BY <2>7, <2>8
<1> QED
  BY <1>2, <1>3

\* A plant with the machines written anew.
LEMMA SwitchesWritten ==
    ASSUME NEW p, IsPlant(p), NEW s \in Seq(Entries("switches")), Len(s) = Len(p.switches),
           \A i \in 1 .. Len(s) : s[i].name = p.switches[i].name,
           NEW q, q = [p EXCEPT !.switches = s]
    PROVE  Keeps(p, q, {}, {}, {})
PROOF
<1>0. "switches" \in Tables /\ "switches" \in PlantFields
  BY DEF Tables, ApplianceTables, PlantFields
<1>1. p = [f \in PlantFields |-> p[f]]
  BY DEF IsPlant
<1>2. q = [f \in PlantFields |-> q[f]] /\ q["switches"] = s /\ \A f \in PlantFields \ {"switches"} : q[f] = p[f]
  BY <1>0, <1>1
<1>3. \A f \in OwnerTables \cup {"slots", "default"} : q[f] = p[f]
  BY <1>2 DEF PlantFields, Tables, ApplianceTables, OwnerTables
<1>4. q.slots = p.slots /\ q.default = p.default
  BY <1>3
<1>5. ASSUME NEW u \in Tables
      PROVE  q[u] \in Seq(Entries(u)) /\ Len(q[u]) <= Slots(q, u)
  <2>1. Slots(q, u) = Slots(p, u)
    BY <1>4 DEF Slots
  <2>2. Len(q[u]) = Len(p[u])
    <3>1. CASE u = "switches"
      BY <1>2, <3>1
    <3>2. CASE u # "switches"
      BY <1>2, <3>2 DEF PlantFields
    <3> QED
      BY <3>1, <3>2
  <2>3. q[u] \in Seq(Entries(u))
    <3>1. CASE u = "switches"
      BY <1>2, <3>1
    <3>2. CASE u # "switches"
      <4>1. q[u] = p[u]
        BY <1>2, <3>2 DEF PlantFields
      <4> QED
        BY <4>1 DEF IsPlant
    <3> QED
      BY <3>1, <3>2
  <2>4. Len(p[u]) <= Slots(p, u)
    BY DEF IsPlant
  <2> QED
    BY <2>1, <2>2, <2>3, <2>4
<1>6. IsPlant(q)
  BY <1>2, <1>3, <1>4, <1>5 DEF IsPlant
<1>7. \A u \in NamedTables : Len(p[u]) \in Nat
  BY TableTypes DEF NamedTables, Tables, Owners, OwnerTables
<1>8. ASSUME NEW u \in NamedTables
      PROVE  /\ Len(p[u]) <= Len(q[u])
             /\ \A i \in 1 .. Len(p[u]) : q[u][i].name = p[u][i].name
  <2>1. CASE u = "switches"
    BY <1>2, <1>7, <2>1
  <2>2. CASE u # "switches"
    <3>1. q[u] = p[u]
      BY <1>2, <2>2 DEF NamedTables, PlantFields, Tables, Owners, OwnerTables
    <3> QED
      BY <1>7, <3>1
  <2> QED
    BY <2>1, <2>2
<1>9. \A o \in Owners : q[o] = p[o]
  BY <1>3 DEF Owners, OwnerTables
<1>10. \A b : HasBond(q, b) <=> HasBond(p, b)
  BY <1>3 DEF HasBond
<1> QED
  BY ExtendsSame, FlagsSame, <1>3, <1>6, <1>8, <1>9, <1>10 DEF Keeps, NamesGrow, OwnerTables

\* Pairing two machines touches no owner.
LEMMA PairedKeeps ==
    ASSUME NEW p, IsPlant(p), NEW a \in Text, NEW b \in Text,
           NEW q, q = [p EXCEPT !.switches = Paired(@, a, b)]
    PROVE  Keeps(p, q, {}, {}, {})
PROOF
<1>1. PICK s, t : s = Changed(p.switches, a, "pair", b) /\ t = Changed(s, b, "pair", a)
  OBVIOUS
<1>2. "switches" \in Tables
  BY DEF Tables, ApplianceTables
<1>3. p.switches \in Seq(Entries("switches")) /\ Len(p.switches) \in Nat
  <2> HIDE DEF Entries
  <2> QED
    BY <1>2, TableTypes
<1> HIDE DEF Entries
<1>4. /\ s \in Seq(Entries("switches")) /\ Len(s) = Len(p.switches)
      /\ \A i \in 1 .. Len(p.switches) : s[i].name = p.switches[i].name
  BY <1>1, <1>3, PairWritten
<1>5. /\ t \in Seq(Entries("switches")) /\ Len(t) = Len(s) /\ \A i \in 1 .. Len(s) : t[i].name = s[i].name
  BY <1>1, <1>4, PairWritten
<1>6. q = [p EXCEPT !.switches = t]
  BY <1>1 DEF Paired
<1>7. Len(t) = Len(p.switches) /\ \A i \in 1 .. Len(t) : t[i].name = p.switches[i].name
  BY <1>4, <1>5
<1> QED
  BY <1>5, <1>6, <1>7, SwitchesWritten

\* addDerail() touches no owner.
LEMMA AddDerailKeeps ==
    ASSUME NEW p, IsPlant(p), NEW n \in Text, NEW base \in Text, NEW os \in Text,
           NEW q, q = AddDerail(p, n, base, os)
    PROVE  Keeps(p, q, {}, {}, {})
PROOF
<1>1. CASE ~((base = None \/ Has(p.switches, base)) /\ Room(p, "switches"))
  BY <1>1, KeepsSame DEF AddDerail
<1>2. CASE (base = None \/ Has(p.switches, base)) /\ Room(p, "switches")
  <2>1. PICK no, f, e, t, u : /\ no = None /\ f = TRUE
                              /\ e = [name |-> n, derail |-> f, base |-> base, pair |-> no]
                              /\ t = Add(p, "switches", e)
                              /\ u = IF base = None THEN t ELSE [t EXCEPT !.switches = Paired(@, base, n)]
    OBVIOUS
  <2>2. no \in Text
    BY <2>1, TextIs DEF Words, None
  <2>3. e \in Entries("switches")
    BY <2>1, <2>2, EntriesAre
  <2>4. t = IF Room(p, "switches") THEN Add(p, "switches", e) ELSE p
    BY <1>2, <2>1
  <2>5. "switches" \in ApplianceTables \cup {"locks"}
    BY DEF ApplianceTables
  <2>6. q = WithDetector(u, n, os)
    BY <1>2, <2>1 DEF AddDerail
  <2> HIDE DEF Entries
  <2>7. Keeps(p, t, {}, {}, {})
    BY <2>3, <2>4, <2>5, RoomKeeps
  <2>8. IsPlant(t)
    BY <2>7 DEF Keeps
  <2>9. Keeps(t, u, {}, {}, {})
    <3>1. CASE base = None
      BY <2>1, <2>8, <3>1, KeepsSame
    <3>2. CASE base # None
      <4>1. u = [t EXCEPT !.switches = Paired(@, base, n)]
        BY <2>1, <3>2
      <4> QED
        BY <2>8, <4>1, PairedKeeps
    <3> QED
      BY <3>1, <3>2
  <2>10. Keeps(p, u, {}, {}, {}) /\ IsPlant(u)
    BY <2>7, <2>9, KeepsThen
  <2>11. Keeps(u, q, {}, {}, {})
    BY <2>6, <2>10, WithDetectorKeeps
  <2> QED
    BY <2>10, <2>11, KeepsThen
<1> QED
  BY <1>1, <1>2

\* addCrossover() touches no owner.
LEMMA AddCrossoverKeeps ==
    ASSUME NEW p, IsPlant(p), NEW n \in Text, NEW a \in Text, NEW b \in Text,
           NEW q, q = AddCrossover(p, n, a, b)
    PROVE  Keeps(p, q, {}, {}, {})
PROOF
<1>1. CASE ~(FindSwitch(p, a) /\ FindSwitch(p, b) /\ Room(p, "crossovers"))
  BY <1>1, KeepsSame DEF AddCrossover
<1>2. CASE FindSwitch(p, a) /\ FindSwitch(p, b) /\ Room(p, "crossovers")
  <2>1. PICK e, t : e = [name |-> n, a |-> a, b |-> b] /\ t = Add(p, "crossovers", e)
    OBVIOUS
  <2>2. e \in Entries("crossovers") /\ "crossovers" \in ApplianceTables \cup {"locks"}
    BY <2>1, EntriesAre DEF ApplianceTables
  <2>3. t = IF Room(p, "crossovers") THEN Add(p, "crossovers", e) ELSE p
    BY <1>2, <2>1
  <2>4. q = [t EXCEPT !.switches = Paired(@, a, b)]
    BY <1>2, <2>1 DEF AddCrossover
  <2> HIDE DEF Entries
  <2>5. Keeps(p, t, {}, {}, {})
    BY <2>2, <2>3, RoomKeeps
  <2>6. IsPlant(t)
    BY <2>5 DEF Keeps
  <2>7. Keeps(t, q, {}, {}, {})
    BY <2>4, <2>6, PairedKeeps
  <2> QED
    BY <2>5, <2>7, KeepsThen
<1> QED
  BY <1>1, <1>2

\* An entry before anything is bound to it; a slot with another name.
LEMMA BlankEntries ==
    /\ \A n \in Text : BlankRoute(n) \in OwnerEntries("routes") /\ BlankRoute(n).name = n
    /\ BlankAutomatic \in OwnerEntries("automatics")
    /\ BlankControlPoint \in OwnerEntries("controlPoints")
    /\ \A n : \A f \in TermFields("routes") : BlankRoute(n)[f] = <<>>
    /\ \A f \in TermFields("automatics") : BlankAutomatic[f] = <<>>
    /\ \A f \in TermFields("controlPoints") : BlankControlPoint[f] = <<>>
PROOF
<1>1. PICK no : no = <<>>
  OBVIOUS
<1>0. PICK fl, em, hd : fl = FALSE /\ em = "" /\ hd = "HD_CHAIN"
  OBVIOUS
<1>2. no \in Seq(Bonds) /\ Len(no) = 0 /\ \A o \in Owners : \A f \in TermFields(o) : Len(no) <= Limit(o, f)
  BY <1>1, NoBond, Limits
<1> DEFINE V == Text \cup BOOLEAN \cup Seq(Bonds)
<1>3. em \in Text /\ hd \in Text /\ Text \subseteq V /\ no \in V /\ fl \in V
  BY <1>0, <1>2, TextIs DEF Words
<1> HIDE DEF V
<1>4. \A f \in TermFields("automatics") : BlankAutomatic[f] = no
  BY <1>1, FieldNames DEF BlankAutomatic
<1>5. \A f \in TermFields("controlPoints") : BlankControlPoint[f] = no
  BY <1>1, FieldNames DEF BlankControlPoint
<1>6. \A n : \A f \in TermFields("routes") : BlankRoute(n)[f] = no
  BY <1>1, FieldNames DEF BlankRoute
<1>7. BlankAutomatic \in OwnerEntries("automatics")
  <2>1. EntryFields("automatics") = {"name", "incomplete", "governs", "approach", "h", "d", "opposing"}
    BY FieldNames DEF EntryFields
  <2>2. BlankAutomatic \in [EntryFields("automatics") -> V]
    <3>1. BlankAutomatic =
            [name |-> em, incomplete |-> fl, governs |-> no, approach |-> no, h |-> no, d |-> no, opposing |-> no]
      BY <1>0, <1>1 DEF BlankAutomatic, None
    <3>2. [name |-> em, incomplete |-> fl, governs |-> no, approach |-> no, h |-> no, d |-> no, opposing |-> no]
            \in [EntryFields("automatics") -> V]
      BY <1>3, <2>1
    <3> QED
      BY <3>1, <3>2
  <2>3. BlankAutomatic.name \in Text /\ BlankAutomatic.incomplete \in BOOLEAN /\ "automatics" \in Owners
    BY <1>0, <1>3 DEF BlankAutomatic, None, Owners
  <2> HIDE DEF BlankAutomatic
  <2> QED
    BY <1>2, <1>4, <2>2, <2>3 DEF OwnerEntries, V
<1>8. BlankControlPoint \in OwnerEntries("controlPoints")
  <2>1. EntryFields("controlPoints") = {"name", "incomplete", "governs", "block", "leaving", "home", "traffic"}
    BY FieldNames DEF EntryFields
  <2>2. BlankControlPoint \in [EntryFields("controlPoints") -> V]
    <3>1. BlankControlPoint =
            [name |-> em, incomplete |-> fl, governs |-> no, block |-> no, leaving |-> no,
             home |-> no, traffic |-> hd]
      BY <1>0, <1>1 DEF BlankControlPoint, None
    <3>2. [name |-> em, incomplete |-> fl, governs |-> no, block |-> no, leaving |-> no,
             home |-> no, traffic |-> hd]
            \in [EntryFields("controlPoints") -> V]
      BY <1>3, <2>1
    <3> QED
      BY <3>1, <3>2
  <2>3. /\ BlankControlPoint.name \in Text /\ BlankControlPoint.incomplete \in BOOLEAN
        /\ BlankControlPoint.traffic \in Text /\ "controlPoints" \in Owners
    BY <1>0, <1>3 DEF BlankControlPoint, None, Owners
  <2> HIDE DEF BlankControlPoint
  <2> QED
    BY <1>2, <1>5, <2>2, <2>3 DEF OwnerEntries, V
<1>9. ASSUME NEW n \in Text
      PROVE  BlankRoute(n) \in OwnerEntries("routes") /\ BlankRoute(n).name = n
  <2>1. EntryFields("routes") = {"name", "incomplete", "automatic", "governedBy", "displays", "aligns",
                                 "clears", "home", "proceed", "entrance", "approaching"}
    BY FieldNames DEF EntryFields
  <2>2. BlankRoute(n) \in [EntryFields("routes") -> V]
    <3>1. BlankRoute(n) =
            [name |-> n, automatic |-> fl, incomplete |-> fl, governedBy |-> no, displays |-> no, aligns |-> no,
             clears |-> no, home |-> no, proceed |-> no, entrance |-> no, approaching |-> no]
      BY <1>0, <1>1 DEF BlankRoute
    <3>2. [name |-> n, automatic |-> fl, incomplete |-> fl, governedBy |-> no, displays |-> no, aligns |-> no,
             clears |-> no, home |-> no, proceed |-> no, entrance |-> no, approaching |-> no]
            \in [EntryFields("routes") -> V]
      BY <1>3, <2>1
    <3> QED
      BY <3>1, <3>2
  <2>3. /\ BlankRoute(n).name = n /\ BlankRoute(n).incomplete \in BOOLEAN
        /\ BlankRoute(n).automatic \in BOOLEAN /\ "routes" \in Owners
    BY DEF BlankRoute, Owners
  <2> QED
    BY <1>2, <1>6, <2>2, <2>3 DEF OwnerEntries, V
<1> QED
  BY <1>1, <1>4, <1>5, <1>6, <1>7, <1>8, <1>9

\* A slot that gets a name keeps what it holds.
LEMMA Renamed ==
    ASSUME NEW o \in Owners, NEW e \in OwnerEntries(o), NEW n \in Text, NEW w, w = Written(e, "name", n)
    PROVE  w \in OwnerEntries(o) /\ w.name = n /\ \A f \in TermFields(o) : w[f] = e[f]
PROOF
<1>1. e \in [EntryFields(o) -> Text \cup BOOLEAN \cup Seq(Bonds)]
  BY DEF OwnerEntries
<1>2. /\ "name" \in EntryFields(o) /\ "incomplete" \in EntryFields(o) /\ TermFields(o) \subseteq EntryFields(o)
      /\ "name" \notin TermFields(o)
      /\ o = "routes" => "automatic" \in EntryFields(o)
      /\ o = "controlPoints" => "traffic" \in EntryFields(o)
  BY FieldNames
<1>3. /\ w \in [EntryFields(o) -> Text \cup BOOLEAN \cup Seq(Bonds)]
      /\ w.name = n /\ \A f \in EntryFields(o) \ {"name"} : w[f] = e[f]
  BY <1>1, <1>2 DEF Written
<1>4. /\ w.incomplete = e.incomplete
      /\ o = "routes" => w.automatic = e.automatic
      /\ o = "controlPoints" => w.traffic = e.traffic
  BY <1>2, <1>3
<1>5. \A f \in TermFields(o) : w[f] = e[f]
  BY <1>2, <1>3
<1> QED
  BY <1>3, <1>4, <1>5 DEF OwnerEntries

\* The entry that was appended is found by its name, when the name is new.
LEMMA NewEntry ==
    ASSUME NEW p, IsPlant(p), NEW q, IsPlant(q), NEW o \in Owners, NEW e, NEW n, e.name = n, ~Has(p[o], n),
           Has(q[o], n), Appended(p, q, o, e)
    PROVE  Entry(q, o, n) = e
PROOF
<1>1. /\ Len(q[o]) = Len(p[o]) + 1 /\ q[o][Len(p[o]) + 1] = e
      /\ \A i \in 1 .. Len(p[o]) : q[o][i] = p[o][i]
  BY DEF Appended
<1>2. o \in Tables
  BY DEF Tables, Owners, OwnerTables
<1>4. /\ p[o] \in Seq(Entries(o)) /\ Len(p[o]) \in Nat /\ DOMAIN p[o] = 1 .. Len(p[o])
      /\ q[o] \in Seq(Entries(o)) /\ Len(q[o]) \in Nat /\ DOMAIN q[o] = 1 .. Len(q[o])
  BY <1>2, TableTypes
<1>5. PICK a, s : a = At(q[o], n) /\ s = q[o]
  OBVIOUS
<1>6. a \in 1 .. Len(s) /\ s[a].name = n
  BY <1>1, <1>4, <1>5, AtIs
<1>7. a \notin 1 .. Len(p[o])
  <2> SUFFICES ASSUME a \in 1 .. Len(p[o])
               PROVE  FALSE
    OBVIOUS
  <2>1. p[o][a].name = n
    BY <1>1, <1>5, <1>6
  <2> QED
    BY <1>4, <2>1 DEF Has, Named
<1>8. a = Len(p[o]) + 1
  BY <1>1, <1>4, <1>5, <1>6, <1>7
<1> QED
  BY <1>1, <1>5, <1>8 DEF Entry

\* A new owner starts with nothing bound; its table is looked up by its name.
LEMMA NewOwner ==
    ASSUME NEW p, IsPlant(p), NEW o \in Owners, NEW e \in Entries(o), NEW n, e.name = n, ~Has(p[o], n),
           Len(p[o]) < Slots(p, o), NEW q, q = Add(p, o, e), BondsOf(p, o, e)
    PROVE  /\ Keeps(p, q, {}, {}, {<<o, n>>}) /\ Has(q[o], n) /\ Entry(q, o, n) = e
PROOF
<1>0. Keeps(p, q, {}, {}, {<<o, n>>}) /\ Has(q[o], n) /\ Appended(p, q, o, e)
  BY AddOwner
<1>1. IsPlant(q)
  BY <1>0 DEF Keeps
<1>2. Entry(q, o, n) = e
  BY <1>0, <1>1, NewEntry
<1> QED
  BY <1>0, <1>2

Bare(p, o, n, f) == Held(p, o, n, f) = <<>>

\* At most one owner more in each of these tables, and none in the others.
Grew(p, q, T) ==
    \A o \in Owners :
      Len(q[o]) = Len(p[o]) \/ (o \in T /\ Len(q[o]) = Len(p[o]) + 1)

\* An entry more in one table of owners.
LEMMA GrewIs ==
    ASSUME NEW p, NEW q, NEW t \in Owners, NEW e, Appended(p, q, t, e)
    PROVE  Grew(p, q, {t})
PROOF
<1>1. \A o \in Owners : o # t => o \in PlantFields \ {t}
  BY DEF Owners, PlantFields, Tables, OwnerTables
<1> QED
  BY <1>1 DEF Appended, Grew

\* No owner more.
LEMMA GrewSame ==
    ASSUME NEW p, NEW T
    PROVE  Grew(p, p, T)
  BY DEF Grew

\* route() declares one route, in which nothing is bound.
LEMMA AddRouteKeeps ==
    ASSUME NEW p, IsPlant(p), NEW n \in Text, NEW q, q = AddRoute(p, n)
    PROVE  /\ Keeps(p, q, {}, {}, {<<"routes", n>>}) /\ Grew(p, q, {"routes"})
           /\ \A f \in TermFields("routes") :
                ~Has(p["routes"], n) /\ Has(q["routes"], n) => Bare(q, "routes", n, f)
PROOF
<1>0. "routes" \in Owners
  BY DEF Owners
<1>1. CASE Len(p["routes"]) < MaxRoutes
  <2>1. PICK e : e = BlankRoute(n)
    OBVIOUS
  <2>2. /\ e \in Entries("routes") /\ e.name = n
        /\ Len(p["routes"]) < Slots(p, "routes")
    BY <1>1, <2>1, BlankEntries DEF Entries, Slots, Kind
  <2>3. \A f \in TermFields("routes") : e[f] = <<>>
    BY <2>1, BlankEntries
  <2>4. q = Add(p, "routes", e)
    BY <1>1, <2>1 DEF AddRoute
  <2>5. BondsOf(p, "routes", e)
    BY <2>3, NoBond DEF BondsOf
  <2> HIDE DEF Entries
  <2>6. Keeps(p, q, {}, {}, {<<"routes", n>>}) /\ Appended(p, q, "routes", e)
    BY <1>0, <2>2, <2>4, <2>5, AddOwner
  <2>8. Grew(p, q, {"routes"})
    BY <1>0, <2>6, GrewIs
  <2>7. ASSUME ~Has(p["routes"], n)
        PROVE  Entry(q, "routes", n) = e
    BY <1>0, <2>2, <2>4, <2>5, <2>7, NewOwner
  <2> QED
    BY <2>3, <2>6, <2>7, <2>8 DEF Held, Bare
<1>2. CASE ~(Len(p["routes"]) < MaxRoutes)
  BY <1>2, KeepsSame, GrewSame DEF AddRoute
<1> QED
  BY <1>1, <1>2

\* Where nothing is bound nothing is, until it is written.
LEMMA BareKept ==
    ASSUME NEW p, NEW q, NEW W, NEW D, IsPlant(p), Keeps(p, q, W, {}, D),
           NEW o \in Owners, NEW n, NEW f \in TermFields(o), Has(p[o], n), Bare(p, o, n, f),
           <<o, n, f>> \notin W
    PROVE  Bare(q, o, n, f)
PROOF
<1>1. <<o, n, f>> \notin W \cup {}
  OBVIOUS
<1>2. Held(q, o, n, f) = Held(p, o, n, f)
  BY <1>1, HeldSame
<1> QED
  BY <1>2 DEF Bare

\* Two changes that only write anew and declare.
LEMMA KeepsTwo ==
    ASSUME NEW p, NEW q, NEW r, NEW V, NEW W, NEW C, NEW D,
           IsPlant(p), Keeps(p, q, V, {}, C), Keeps(q, r, W, {}, D)
    PROVE  Keeps(p, r, V \cup W, {}, C \cup D) /\ IsPlant(q) /\ IsPlant(r)
PROOF
<1>1. {} \cap {} \subseteq V \cup W
  OBVIOUS
<1>2. Keeps(p, r, V \cup W, {} \cup {}, C \cup D)
  BY <1>1, KeepsBoth
<1>3. {} \cup {} = {}
  OBVIOUS
<1>4. Keeps(p, r, V \cup W, {}, C \cup D)
  BY <1>2, <1>3
<1> QED
  BY <1>4 DEF Keeps

\* The slot of a location that is declared: what it is bound to was left there
\* by a reset, and a plant that was never reset has nothing left.
OldTable(t) == IF t = "automatics" THEN "oldAutomatics" ELSE "oldControlPoints"
BlankOf(t) == IF t = "automatics" THEN BlankAutomatic ELSE BlankControlPoint
Clean(p) == Len(p["oldAutomatics"]) = 0 /\ Len(p["oldControlPoints"]) = 0

\* The next slot of a table of locations: blank, or what reset() left in it.
LEMMA SlotIs ==
    ASSUME NEW p, IsPlant(p), NEW t \in {"automatics", "controlPoints"}, NEW used, Len(used) \in Nat,
           NEW n \in Text, NEW s, s = NextSlot(used, p[OldTable(t)], BlankOf(t)),
           NEW e, e = Written(s, "name", n)
    PROVE  /\ e \in Entries(t) /\ e.name = n /\ BondsOf(p, t, e)
           /\ Clean(p) => \A f \in TermFields(t) : e[f] = <<>>
PROOF
<1>1. /\ t \in Owners /\ t \in OwnerTables /\ OldTable(t) \in OwnerTables /\ Kind(OldTable(t)) = t
      /\ Kind(t) = t
  BY DEF Owners, OwnerTables, OldTable, Kind
<1>2. /\ Entries(t) = OwnerEntries(t) /\ Len(p[OldTable(t)]) \in Nat
      /\ DOMAIN p[OldTable(t)] = 1 .. Len(p[OldTable(t)])
      /\ \A i \in 1 .. Len(p[OldTable(t)]) : p[OldTable(t)][i] \in OwnerEntries(t)
  <2>1. Kind(OldTable(t)) = t /\ Kind(t) = t
    BY <1>1
  <2>2. /\ Len(p[OldTable(t)]) \in Nat
        /\ DOMAIN p[OldTable(t)] = 1 .. Len(p[OldTable(t)])
        /\ \A i \in 1 .. Len(p[OldTable(t)]) : p[OldTable(t)][i] \in OwnerEntries(Kind(OldTable(t)))
    BY <1>1, OwnerTypes
  <2>3. Entries(t) = OwnerEntries(Kind(t))
    BY <1>1, OwnerTypes
  <2> QED
    BY <2>1, <2>2, <2>3
<1>3. /\ BlankOf(t) \in OwnerEntries(t) /\ \A f \in TermFields(t) : BlankOf(t)[f] = <<>>
  <2>1. CASE t = "automatics"
    BY <2>1, BlankEntries DEF BlankOf
  <2>2. CASE t = "controlPoints"
    BY <2>2, BlankEntries DEF BlankOf
  <2> QED
    BY <2>1, <2>2
<1>4. CASE Len(used) < Len(p[OldTable(t)])
  <2>1. PICK i : i = Len(used) + 1
    OBVIOUS
  <2>2. s = p[OldTable(t)][i] /\ i \in DOMAIN p[OldTable(t)] /\ i \in 1 .. Len(p[OldTable(t)])
    BY <1>2, <1>4, <2>1 DEF NextSlot
  <2>3. s \in OwnerEntries(t)
    BY <1>2, <2>2
  <2>4. e \in OwnerEntries(t) /\ e.name = n /\ \A f \in TermFields(t) : e[f] = s[f]
    BY <1>1, <2>3, Renamed
  <2>5. BondsOf(p, t, e)
    <3>1. PICK u, w : u = OldTable(t) /\ w = p[u][i]
      OBVIOUS
    <3>2. ASSUME NEW f \in TermFields(t), NEW k \in DOMAIN e[f]
          PROVE  HasBond(p, e[f][k])
      <4>1. e[f] = w[f] /\ u \in OwnerTables /\ Kind(u) = t /\ i \in DOMAIN p[u]
        BY <1>1, <2>2, <2>4, <3>1
      <4> QED
        BY <3>1, <4>1 DEF HasBond
    <3> QED
      BY <3>2 DEF BondsOf
  <2>6. ~Clean(p)
    BY <1>2, <1>4 DEF Clean, OldTable
  <2> QED
    BY <1>2, <2>4, <2>5, <2>6
<1>5. CASE ~(Len(used) < Len(p[OldTable(t)]))
  <2>1. s = BlankOf(t)
    BY <1>5 DEF NextSlot
  <2>2. e \in OwnerEntries(t) /\ e.name = n /\ \A f \in TermFields(t) : e[f] = s[f]
    BY <1>1, <1>3, <2>1, Renamed
  <2>3. \A f \in TermFields(t) : e[f] = <<>>
    BY <1>3, <2>1, <2>2
  <2>4. BondsOf(p, t, e)
    BY <2>3, NoBond DEF BondsOf
  <2> QED
    BY <1>2, <2>2, <2>3, <2>4
<1> QED
  BY <1>4, <1>5

\* A location is declared: its slot is the next one.
LEMMA LocationKeeps ==
    ASSUME NEW p, IsPlant(p), NEW x, IsPlant(x), NEW t \in {"automatics", "controlPoints"}, NEW n \in Text,
           Room(p, t), x.slots = p.slots, x[OldTable(t)] = p[OldTable(t)], Len(x[t]) = Len(p[t]),
           Clean(x) <=> Clean(p),
           NEW e, e = Written(NextSlot(p[t], p[OldTable(t)], BlankOf(t)), "name", n),
           NEW q, q = Add(x, t, e)
    PROVE  /\ Keeps(x, q, {}, {}, {<<t, n>>}) /\ Has(q[t], n) /\ Grew(x, q, {t})
           /\ ~Has(x[t], n) /\ Clean(p) => \A f \in TermFields(t) : Bare(q, t, n, f)
PROOF
<1>1. t \in Owners /\ t \in Tables
  BY DEF Owners, Tables, OwnerTables
<1>2. Len(p[t]) \in Nat
  BY <1>1, TableTypes
<1>3. PICK s, used : used = p[t] /\ s = NextSlot(used, x[OldTable(t)], BlankOf(t))
  OBVIOUS
<1>4. e = Written(s, "name", n)
  BY <1>3
<1>5. /\ e \in Entries(t) /\ e.name = n /\ BondsOf(x, t, e)
      /\ Clean(x) => \A f \in TermFields(t) : e[f] = <<>>
  BY <1>2, <1>3, <1>4, SlotIs
<1>6. Len(x[t]) < Slots(x, t)
  BY DEF Room, Slots
<1>7. Keeps(x, q, {}, {}, {<<t, n>>}) /\ Has(q[t], n) /\ Appended(x, q, t, e)
  BY <1>1, <1>5, <1>6, AddOwner
<1>9. Grew(x, q, {t})
  BY <1>1, <1>7, GrewIs
<1>8. ASSUME ~Has(x[t], n)
      PROVE  Entry(q, t, n) = e
  <2>1. e.name = n /\ IsPlant(q) /\ Has(q[t], n)
    BY <1>5, <1>7 DEF Keeps
  <2> QED
    BY <1>1, <1>7, <1>8, <2>1, NewEntry
<1> QED
  BY <1>5, <1>7, <1>8, <1>9 DEF Bare, Held

\* No change touches the size of the tables or what reset() left behind.
LEMMA KeptFields ==
    ASSUME NEW p, NEW q, NEW W, NEW E, NEW D, Keeps(p, q, W, E, D)
    PROVE  /\ IsPlant(q) /\ q.slots = p.slots
           /\ \A t \in {"automatics", "controlPoints"} : q[OldTable(t)] = p[OldTable(t)]
           /\ Clean(q) <=> Clean(p)
PROOF
<1>1. \A f \in {"slots", "default", "oldAutomatics", "oldControlPoints"} : q[f] = p[f]
  BY DEF Keeps
<1>2. q["oldAutomatics"] = p["oldAutomatics"] /\ q["oldControlPoints"] = p["oldControlPoints"]
      /\ q.slots = p.slots
  BY <1>1
<1> QED
  BY <1>2 DEF Keeps, OldTable, Clean

\* A change that declares no owner leaves as many as there were.
LEMMA GrewNone ==
    ASSUME NEW p, NEW q, NEW W, NEW E, IsPlant(p), Keeps(p, q, W, E, {}), NEW T
    PROVE  Grew(p, q, T)
PROOF
<1>1. ASSUME NEW o \in Owners
      PROVE  Len(q[o]) = Len(p[o])
  <2>1. PICK no : no = {}
    OBVIOUS
  <2>2. Keeps(p, q, W, E, no) /\ \A n : <<o, n>> \notin no
    BY <2>1
  <2> QED
    BY <2>2, LengthKept
<1> QED
  BY <1>1 DEF Grew

\* Owners declared in two different tables.
LEMMA GrewBoth ==
    ASSUME NEW p, NEW q, NEW r, NEW S, NEW T, NEW U, Grew(p, q, S), Grew(q, r, T),
           S \cap T = {}, S \cup T = U
    PROVE  Grew(p, r, U)
  BY DEF Grew

\* The route of an automatic signal is flagged.
Flagged(q, n) == Held(q, "routes", n, "automatic")

\* An automatic signal brings its mast and its route.
LEMMA AddAutomaticSignalKeeps ==
    ASSUME NEW p, IsPlant(p), NEW n \in Text, NEW q, q = AddAutomaticSignal(p, n)
    PROVE  /\ Keeps(p, q, {<<"routes", n, "displays">>}, {}, {<<"routes", n>>, <<"automatics", n>>})
           /\ Grew(p, q, {"routes", "automatics"})
           /\ q = p \/ (Has(q["automatics"], n) /\ (Has(q["routes"], n) => Flagged(q, n)))
           /\ \A f \in TermFields("routes") \ {"displays"} :
                ~Has(p["routes"], n) /\ Has(q["routes"], n) => Bare(q, "routes", n, f)
           /\ ~Has(p["automatics"], n) /\ Has(q["automatics"], n) /\ Clean(p)
                => \A f \in TermFields("automatics") : Bare(q, "automatics", n, f)
PROOF
<1> DEFINE W == {<<"routes", n, "displays">>}
           R == {<<"routes", n>>}
           A == {<<"automatics", n>>}
           D == {<<"routes", n>>, <<"automatics", n>>}
<1>0. /\ "routes" \in Owners /\ "automatics" \in Owners /\ "displays" \in TermFields("routes")
      /\ "displays" \in Text /\ Limit("routes", "displays") = 1
      /\ R \cup A = D /\ {} \cup R = R /\ R \cup {} = R /\ {} \cup W = W /\ W \cup {} = W
      /\ \A m : <<"automatics", m>> \notin R
      /\ \A f \in TermFields("routes") \ {"displays"} : <<"routes", n, f>> \notin W
      /\ \A f : <<"routes", n, f>> \notin {}
  BY RouteFields, Limits
<1> HIDE DEF W, R, A, D
<1>1. CASE ~Room(p, "automatics")
  <2>1. q = p
    BY <1>1 DEF AddAutomaticSignal
  <2>2. Grew(p, q, {"routes", "automatics"})
    BY <2>1, GrewSame
  <2>3. q = p \/ (Has(q["automatics"], n) /\ (Has(q["routes"], n) => Flagged(q, n)))
    BY <2>1
  <2>4. Keeps(p, q, W, {}, D)
    BY <2>1, KeepsSame
  <2>5. ~Has(p["routes"], n) => ~Has(q["routes"], n)
    BY <2>1
  <2>6. ~Has(p["automatics"], n) => ~Has(q["automatics"], n)
    BY <2>1
  <2> QED
    BY <2>2, <2>3, <2>4, <2>5, <2>6 DEF D, W
<1>2. CASE Room(p, "automatics")
  <2>1. PICK c, t, u, v : /\ c = "addAutomaticSignal" /\ t = NoteConflicts(p, n, c)
                          /\ u = AddSignalMast(t, n) /\ v = AddRoute(u, n)
    OBVIOUS
  <2>2. PICK w, y, x : /\ w = Appliance(v, "routes", n, "displays", "masts", n)
                       /\ y = TRUE /\ x = Set(w, "routes", n, "automatic", y)
    OBVIOUS
  <2>3. PICK e : e = Written(NextSlot(p["automatics"], p[OldTable("automatics")], BlankOf("automatics")), "name", n)
    OBVIOUS
  <2>4. q = Add(x, "automatics", e)
    BY <1>2, <2>1, <2>2, <2>3 DEF AddAutomaticSignal, Written, OldTable, BlankOf
  <2>5. c \in Text
    BY <2>1, TextIs DEF Words
  <2>6. Keeps(p, t, {}, {}, {}) /\ IsPlant(t)
    BY <2>1, <2>5, NoteConflictsKeeps, OnlyGapsPlant
  <2>7. Keeps(t, u, {}, {}, {})
    BY <2>1, <2>6, AddControlKeeps
  <2>8. Keeps(p, u, {}, {}, {}) /\ IsPlant(u)
    BY <2>6, <2>7, KeepsThen
  <2>9. /\ Keeps(u, v, {}, {}, R) /\ Grew(u, v, {"routes"})
        /\ \A f \in TermFields("routes") : ~Has(u["routes"], n) /\ Has(v["routes"], n) => Bare(v, "routes", n, f)
    BY <2>1, <2>8, AddRouteKeeps DEF R
  <2>10. Keeps(p, v, {}, {}, R) /\ IsPlant(v)
    BY <2>8, <2>9, KeepsAfter
  <2>11. Keeps(v, w, W, {}, {}) /\ IsPlant(w)
    <3>1. Keeps(v, w, W, {}, {})
      <4>1. 1 <= Limit("routes", "displays")
        BY <1>0
      <4>2. "masts" \in {"circuits", "controls", "masts", "automatics"}
        OBVIOUS
      <4> QED
        BY <1>0, <2>2, <2>10, <4>1, <4>2, ApplianceKeeps DEF W
    <3> QED
      BY <3>1 DEF Keeps
  <2>12. Keeps(w, x, {}, {}, {}) /\ (Has(w["routes"], n) => Held(x, "routes", n, "automatic") = y)
    <3>1. Fits("routes", "automatic", y) /\ "automatic" \notin TermFields("routes")
      BY <2>2, FieldNames DEF Fits, EntryFields
    <3>3. PICK g : g = "automatic"
      OBVIOUS
    <3>4. /\ Fits("routes", g, y) /\ g \notin TermFields("routes") /\ x = Set(w, "routes", n, g, y)
          /\ Raised(g, y)
      BY <2>2, <3>1, <3>3 DEF Raised
    <3> QED
      BY <1>0, <2>11, <3>3, <3>4, FlagWritten
  <2>13. Keeps(p, w, W, {}, R)
    <3>1. Keeps(p, w, {} \cup W, {}, R \cup {})
      BY <2>10, <2>11, KeepsTwo
    <3> QED
      BY <1>0, <3>1
  <2>14. Keeps(p, x, W, {}, R) /\ IsPlant(x)
    BY <2>12, <2>13, KeepsThen
  <2>15. x.slots = p.slots /\ x[OldTable("automatics")] = p[OldTable("automatics")] /\ (Clean(x) <=> Clean(p))
    BY <2>14, KeptFields
  <2>16. Len(x["automatics"]) = Len(p["automatics"])
    BY <1>0, <2>14, LengthKept
  <2>17. /\ Keeps(x, q, {}, {}, A) /\ Has(q["automatics"], n) /\ Grew(x, q, {"automatics"})
         /\ ~Has(x["automatics"], n) /\ Clean(p) => \A f \in TermFields("automatics") : Bare(q, "automatics", n, f)
    BY <1>2, <2>3, <2>4, <2>14, <2>15, <2>16, LocationKeeps DEF A
  <2>18. Keeps(p, q, W, {}, D)
    <3>1. Keeps(p, q, W \cup {}, {}, R \cup A)
      BY <2>14, <2>17, KeepsTwo
    <3> QED
      BY <1>0, <3>1
  <2>19. ~Has(p["automatics"], n) => ~Has(x["automatics"], n)
    BY <1>0, <2>14, NotDeclared
  <2>20. ASSUME NEW f \in TermFields("routes") \ {"displays"}, ~Has(p["routes"], n), Has(q["routes"], n)
         PROVE  Bare(q, "routes", n, f)
    <3>1. ~Has(u["routes"], n)
      BY <1>0, <2>8, <2>20, SameOwners
    <3>2. Has(x["routes"], n)
      <4>1. <<"routes", n>> \notin A
        BY DEF A
      <4> QED
        BY <1>0, <2>14, <2>17, <2>20, <4>1, NotDeclared
    <3>3. Has(w["routes"], n)
      BY <1>0, <2>11, <2>12, <3>2, SameOwners
    <3>4. Has(v["routes"], n)
      BY <1>0, <2>10, <2>11, <3>3, SameOwners
    <3>5. Bare(v, "routes", n, f)
      BY <2>9, <3>1, <3>4
    <3>6. Bare(w, "routes", n, f)
      BY <1>0, <2>10, <2>11, <3>4, <3>5, BareKept
    <3>7. PICK no : no = {}
      OBVIOUS
    <3>8. <<"routes", n, f>> \notin no /\ Keeps(w, x, no, {}, {}) /\ Keeps(x, q, no, {}, A)
      BY <2>12, <2>17, <3>7
    <3>9. Bare(x, "routes", n, f)
      BY <1>0, <2>11, <3>3, <3>6, <3>8, BareKept
    <3> QED
      BY <1>0, <2>14, <3>2, <3>8, <3>9, BareKept
  <2>21. Grew(p, q, {"routes", "automatics"})
    <3>1. PICK no, S, T, U : /\ no = {} /\ S = {"routes"} /\ T = {"automatics"}
                             /\ U = {"routes", "automatics"}
      OBVIOUS
    <3>2. Grew(p, u, no) /\ Grew(v, w, no) /\ Grew(w, x, no)
      BY <2>8, <2>10, <2>11, <2>12, GrewNone
    <3>3. /\ no \cap S = {} /\ no \cup S = S /\ S \cap no = {} /\ S \cup no = S
          /\ S \cap T = {} /\ S \cup T = U
      BY <3>1
    <3>4. Grew(p, v, S)
      BY <2>9, <3>1, <3>2, <3>3, GrewBoth
    <3>5. Grew(p, w, S)
      BY <3>2, <3>3, <3>4, GrewBoth
    <3>6. Grew(p, x, S)
      BY <3>2, <3>3, <3>5, GrewBoth
    <3>7. Grew(p, q, U)
      BY <2>17, <3>1, <3>3, <3>6, GrewBoth
    <3> QED
      BY <3>1, <3>7
  <2>22. ASSUME Has(q["routes"], n)
         PROVE  Flagged(q, n)
    <3>1. Has(x["routes"], n)
      <4>1. <<"routes", n>> \notin A
        BY DEF A
      <4> QED
        BY <1>0, <2>14, <2>17, <2>22, <4>1, NotDeclared
    <3>2. Has(w["routes"], n)
      BY <1>0, <2>11, <2>12, <3>1, SameOwners
    <3>3. Entry(x, "routes", n).automatic
      BY <2>2, <2>12, <3>2 DEF Held
    <3>4. FlagsStay("routes", Entry(x, "routes", n), Entry(q, "routes", n))
      BY <1>0, <2>14, <2>17, <3>1, EntryKept
    <3> QED
      BY <3>3, <3>4 DEF FlagsStay, Flagged, Held
  <2> QED
    BY <2>17, <2>18, <2>19, <2>20, <2>21, <2>22 DEF W, D
<1> QED
  BY <1>1, <1>2

\* addControlPointLine() declares one line and binds its home mast.
LEMMA AddControlPointLineKeeps ==
    ASSUME NEW p, IsPlant(p), NEW n \in Text, NEW q, q = AddControlPointLine(p, n)
    PROVE  /\ Keeps(p, q, {<<"controlPoints", n, "home">>}, {}, {<<"controlPoints", n>>})
           /\ Grew(p, q, {"controlPoints"})
           /\ ~Has(p["controlPoints"], n) /\ Has(q["controlPoints"], n) /\ Clean(p)
                => \A f \in TermFields("controlPoints") \ {"home"} : Bare(q, "controlPoints", n, f)
PROOF
<1> DEFINE W == {<<"controlPoints", n, "home">>}
           D == {<<"controlPoints", n>>}
<1>0. /\ "controlPoints" \in Owners /\ "home" \in TermFields("controlPoints")
      /\ "home" \in Text /\ Limit("controlPoints", "home") = 1
      /\ D \cup {} = D /\ {} \cup W = W
      /\ \A f \in TermFields("controlPoints") \ {"home"} : <<"controlPoints", n, f>> \notin W
  BY RouteFields, Limits
<1> HIDE DEF W, D
<1>1. CASE ~Room(p, "controlPoints")
  BY <1>1, KeepsSame, GrewSame DEF AddControlPointLine, D, W
<1>2. CASE Room(p, "controlPoints")
  <2>1. PICK c, s, t, nF : /\ c = "addControlPointLine" /\ s = NoteConflicts(p, n, c)
                           /\ nF = n \o "F" /\ t = NoteConflict(s, nF, c)
    OBVIOUS
  <2>2. PICK e : e = Written(NextSlot(p["controlPoints"], p[OldTable("controlPoints")], BlankOf("controlPoints")), "name", n)
    OBVIOUS
  <2>3. PICK x : x = Add(t, "controlPoints", e)
    OBVIOUS
  <2>4. q = Appliance(x, "controlPoints", n, "home", "masts", n)
    BY <1>2, <2>1, <2>2, <2>3 DEF AddControlPointLine, Written, OldTable, BlankOf
  <2>5. c \in Text /\ nF \in Reportable
    <3>1. PICK out : out = "F"
      OBVIOUS
    <3>2. out \in {"H", "D", "F"}
      BY <3>1
    <3>3. n \o out \in Outputs(Text, {"H", "D", "F"})
      BY <3>2, OutputIn
    <3> QED
      BY <2>1, <3>1, <3>3, TextIs DEF Words, Reportable
  <2>6. OnlyGaps(p, s)
    BY <2>1, <2>5, NoteConflictsKeeps
  <2>7. OnlyGaps(s, t)
    BY <2>1, <2>5, <2>6, NoteConflictKeeps, OnlyGapsPlant
  <2>8. OnlyGaps(p, t)
    BY <2>6, <2>7, OnlyGapsBoth
  <2>9. Keeps(p, t, {}, {}, {}) /\ IsPlant(t)
    BY <2>8, OnlyGapsPlant
  <2>10. /\ t.slots = p.slots /\ t[OldTable("controlPoints")] = p[OldTable("controlPoints")]
         /\ (Clean(t) <=> Clean(p))
    BY <2>9, KeptFields
  <2>11. Len(t["controlPoints"]) = Len(p["controlPoints"])
    <3>1. "controlPoints" \in Tables \ {"gaps"}
      BY DEF Tables, OwnerTables
    <3> QED
      BY <2>8, <3>1, OnlyGapsPlant
  <2>12. /\ Keeps(t, x, {}, {}, D) /\ Has(x["controlPoints"], n) /\ Grew(t, x, {"controlPoints"})
         /\ ~Has(t["controlPoints"], n) /\ Clean(p)
              => \A f \in TermFields("controlPoints") : Bare(x, "controlPoints", n, f)
    BY <1>2, <2>2, <2>3, <2>9, <2>10, <2>11, LocationKeeps DEF D
  <2>13. Keeps(p, x, {}, {}, D) /\ IsPlant(x)
    BY <2>9, <2>12, KeepsAfter
  <2>14. Keeps(x, q, W, {}, {})
    <3>1. 1 <= Limit("controlPoints", "home")
      BY <1>0
    <3>2. "masts" \in {"circuits", "controls", "masts", "automatics"}
      OBVIOUS
    <3> QED
      BY <1>0, <2>4, <2>13, <3>1, <3>2, ApplianceKeeps DEF W
  <2>15. Keeps(p, q, W, {}, D)
    <3>1. Keeps(p, q, {} \cup W, {}, D \cup {})
      BY <2>13, <2>14, KeepsTwo
    <3> QED
      BY <1>0, <3>1
  <2>16. ~Has(p["controlPoints"], n) => ~Has(t["controlPoints"], n)
    BY <1>0, <2>9, SameOwners
  <2>17. ASSUME NEW f \in TermFields("controlPoints") \ {"home"}, ~Has(p["controlPoints"], n), Clean(p)
         PROVE  Bare(q, "controlPoints", n, f)
    <3>1. Bare(x, "controlPoints", n, f)
      BY <2>12, <2>16, <2>17
    <3> QED
      BY <1>0, <2>12, <2>13, <2>14, <3>1, BareKept
  <2>18. Grew(p, q, {"controlPoints"})
    <3>1. PICK no, S : no = {} /\ S = {"controlPoints"}
      OBVIOUS
    <3>2. Grew(p, t, no) /\ Grew(x, q, no)
      BY <2>9, <2>13, <2>14, GrewNone
    <3>3. no \cap S = {} /\ no \cup S = S /\ S \cap no = {} /\ S \cup no = S
      BY <3>1
    <3>4. Grew(p, x, S)
      BY <2>12, <3>1, <3>2, <3>3, GrewBoth
    <3>5. Grew(p, q, S)
      BY <3>2, <3>3, <3>4, GrewBoth
    <3> QED
      BY <3>1, <3>5
  <2> QED
    BY <2>15, <2>17, <2>18 DEF W, D
<1> QED
  BY <1>1, <1>2

-----------------------------------------------------------------------------
(* What a call of the configuration interface changes.                     *)

Changes(p, q, c) == Keeps(p, q, Rewrites(c), Lengthens(c), Owns(c))

\* A call with the arguments that the interface takes.
Callable(c) ==
    /\ c.names \in Seq(Text) /\ c.with \in Text /\ c.owner \in Text /\ c.ms \in Nat
    /\ \/ c.owners = "" /\ c.op \in Declarations
       \/ c.owners \in DOMAIN Bindings /\ c.op \in Bindings[c.owners]
    /\ TakesList(c) \/ Len(c.names) = Arity(c.op)

\* The fields that the call makes longer have room for one term more, and its
\* list is no longer than the field.
Roomy(p, c) ==
    /\ \A o \in Owners : \A n, f :
         <<o, n, f>> \in Lengthens(c) /\ Has(p[o], n) => Len(Held(p, o, n, f)) < Limit(o, f)
    /\ TakesList(c) => Len(c.names) <= MaxRouteTerms

\* The terms that the call asks for stand.
Meets(q, c) == \A t \in TermsOf(c) : Placed(q, t.owners, t.owner, t.field, t.name)

AllPlaced(q, o, n, f, ns) == \A m \in ns : m # None => Placed(q, o, n, f, m)

\* The names that were asked for stand, one by one.
LEMMA AskedPlaced ==
    ASSUME NEW q, NEW o, NEW n, NEW f, NEW ns, AllPlaced(q, o, n, f, ns)
    PROVE  \A t \in Asked(o, n, f, ns) : Placed(q, t.owners, t.owner, t.field, t.name)
  BY DEF Asked, AllPlaced

\* A call that asks for terms of one field.
LEMMA MeetsOne ==
    ASSUME NEW q, NEW c, NEW o, NEW n, NEW f, NEW ns, TermsOf(c) = Asked(o, n, f, ns),
           AllPlaced(q, o, n, f, ns)
    PROVE  Meets(q, c)
  BY AskedPlaced DEF Meets

\* The names of a call of one name, or of more.
LEMMA NamesOf ==
    ASSUME NEW c, Callable(c)
    PROVE  /\ Len(c.names) \in Nat /\ DOMAIN c.names = 1 .. Len(c.names)
           /\ \A i \in 1 .. Len(c.names) : c.names[i] \in Text
           /\ Len(c.names) = 1 => c.names[1] \in Text /\ ToSet(c.names) = {c.names[1]}
           /\ Len(c.names) = 2 => c.names[1] \in Text /\ c.names[2] \in Text
           /\ Len(c.names) = 3 => c.names[1] \in Text /\ c.names[2] \in Text /\ c.names[3] \in Text
PROOF
<1>1. /\ Len(c.names) \in Nat /\ DOMAIN c.names = 1 .. Len(c.names)
      /\ \A i \in 1 .. Len(c.names) : c.names[i] \in Text
  <2>1. PICK s : s = c.names
    OBVIOUS
  <2>2. s \in Seq(Text)
    BY <2>1 DEF Callable
  <2>3. Len(s) \in Nat /\ DOMAIN s = 1 .. Len(s) /\ \A i \in 1 .. Len(s) : s[i] \in Text
    BY <2>2, LenProperties, ElementOfSeq
  <2> QED
    BY <2>1, <2>3
<1>2. ASSUME Len(c.names) = 1
      PROVE  ToSet(c.names) = {c.names[1]}
  <2>1. DOMAIN c.names = {1}
    BY <1>1, <1>2
  <2> QED
    BY <2>1 DEF ToSet
<1> QED
  BY <1>1, <1>2

\* Reading the fields and the words of a call of a route.
LEMMA RouteCallIs ==
    ASSUME NEW c, Callable(c), c.owners = "routes"
    PROVE  /\ c.op \in {"governedBy", "displays", "aligns", "align", "clears", "clearBlock",
                        "home", "homeFact", "proceed", "entrance", "approaching"}
           /\ ~TakesList(c) => Len(c.names) = 1
           /\ Owns(c) = {}
           /\ TermsOf(c) = Asked("routes", c.owner, FieldOf(c.op), ToSet(c.names))
PROOF
<1>1. c.op \in {"governedBy", "displays", "aligns", "align", "clears", "clearBlock",
                "home", "homeFact", "proceed", "entrance", "approaching"}
  BY DEF Callable, Bindings
<1>2. ~TakesList(c) => Len(c.names) = 1
  BY <1>1 DEF Callable, Arity
<1>3. Owns(c) = {}
  BY <1>1 DEF Owns
<1>4. TermsOf(c) = Asked("routes", c.owner, FieldOf(c.op), ToSet(c.names)) \cup {}
  BY <1>1 DEF TermsOf
<1> QED
  BY <1>1, <1>2, <1>3, <1>4

\* A call for a route changes what Rewrites and Lengthens say, and is met.
LEMMA RouteBoundKeeps ==
    ASSUME NEW p, IsPlant(p), NEW c, Callable(c), c.owners = "routes", Has(p["routes"], c.owner),
           NEW q, q = RouteBound(p, c)
    PROVE  Changes(p, q, c) /\ (Roomy(p, c) => Meets(q, c))
PROOF
<1>1. PICK r, n, ns, w : r = c.owner /\ n = c.names[1] /\ ns = c.names /\ w = c.with
  OBVIOUS
<1>2. /\ c.op \in {"governedBy", "displays", "aligns", "align", "clears", "clearBlock",
                   "home", "homeFact", "proceed", "entrance", "approaching"}
      /\ ~TakesList(c) => Len(ns) = 1
      /\ Owns(c) = {}
      /\ TermsOf(c) = Asked("routes", r, FieldOf(c.op), ToSet(ns))
  BY <1>1, RouteCallIs
<1>3. r \in Text /\ ns \in Seq(Text) /\ w \in Text /\ Has(p["routes"], r)
      /\ (Len(ns) = 1 => n \in Text /\ ToSet(ns) = {n})
  BY <1>1, NamesOf DEF Callable
<1>4. "routes" \in Owners
  BY DEF Owners
<1>5. ASSUME c.op \in {"governedBy", "displays", "entrance", "approaching"}
      PROVE  Changes(p, q, c) /\ Meets(q, c)
  <2>1. PICK f : f = c.op
    OBVIOUS
  <2>2. PICK tab : /\ tab \in {"circuits", "controls", "masts", "automatics"}
                   /\ q = Appliance(p, "routes", r, f, tab, n)
    <3>1. CASE c.op = "governedBy"
      BY <1>1, <2>1, <3>1 DEF RouteBound
    <3>2. CASE c.op = "displays"
      BY <1>1, <2>1, <3>2 DEF RouteBound
    <3>3. CASE c.op \in {"entrance", "approaching"}
      BY <1>1, <2>1, <3>3 DEF RouteBound
    <3> QED
      BY <1>5, <3>1, <3>2, <3>3
  <2>3. n \in Text /\ ToSet(ns) = {n}
    BY <1>2, <1>3, <1>5 DEF TakesList
  <2>4. f \in TermFields("routes") /\ f \in Text /\ 1 <= Limit("routes", f)
    BY <1>5, <2>1, RouteFields, Limits
  <2>5. Keeps(p, q, {<<"routes", r, f>>}, {}, {}) /\ Placed(q, "routes", r, f, n)
    BY <1>3, <1>4, <2>2, <2>3, <2>4, ApplianceKeeps
  <2>6. Rewrites(c) = {<<"routes", r, f>>} /\ Lengthens(c) = {} /\ FieldOf(c.op) = f
    BY <1>1, <1>5, <2>1 DEF Rewrites, Lengthens, FieldOf
  <2>7. AllPlaced(q, "routes", r, f, {n})
    BY <2>5 DEF AllPlaced
  <2>8. TermsOf(c) = Asked("routes", r, f, {n})
    BY <1>2, <2>3, <2>6
  <2>9. Changes(p, q, c)
    BY <1>2, <2>5, <2>6 DEF Changes
  <2> QED
    BY <2>7, <2>8, <2>9, MeetsOne
<1>6. ASSUME c.op \in {"aligns", "clears", "home"}
      PROVE  Changes(p, q, c) /\ (Roomy(p, c) => Meets(q, c))
  <2>1. PICK f : f = c.op /\ f \in {"clears", "aligns", "home"}
    BY <1>6
  <2>2. \/ f = "clears" /\ q = Clears(p, r, ns)
        \/ f = "aligns" /\ q = Aligns(p, r, ns, w)
        \/ f = "home" /\ q = Home(p, r, ns)
    BY <1>1, <1>6, <2>1 DEF RouteBound
  <2>3. /\ Keeps(p, q, {<<"routes", r, f>>}, {}, {})
        /\ Len(ns) <= MaxRouteTerms => \A j \in DOMAIN ns : ns[j] # None => Placed(q, "routes", r, f, ns[j])
    BY <1>3, <2>1, <2>2, ListsKeep
  <2>4. Rewrites(c) = {<<"routes", r, f>>} /\ Lengthens(c) = {} /\ FieldOf(c.op) = f /\ TakesList(c)
    BY <1>1, <1>6, <2>1 DEF Rewrites, Lengthens, FieldOf, TakesList
  <2>5. ASSUME Roomy(p, c)
        PROVE  AllPlaced(q, "routes", r, f, ToSet(ns))
    <3>1. Len(ns) <= MaxRouteTerms
      BY <1>1, <2>4, <2>5 DEF Roomy
    <3> QED
      BY <2>3, <3>1 DEF ToSet, AllPlaced
  <2>6. TermsOf(c) = Asked("routes", r, f, ToSet(ns))
    BY <1>2, <2>4
  <2>7. Changes(p, q, c)
    BY <1>2, <2>3, <2>4 DEF Changes
  <2> QED
    BY <2>5, <2>6, <2>7, MeetsOne
<1>7. ASSUME c.op = "proceed"
      PROVE  Changes(p, q, c) /\ Meets(q, c)
  <2>1. q = Proceed(p, r, n)
    BY <1>1, <1>7 DEF RouteBound
  <2>2. n \in Text /\ ToSet(ns) = {n}
    BY <1>2, <1>3, <1>7 DEF TakesList
  <2>3. Keeps(p, q, {<<"routes", r, "proceed">>}, {}, {}) /\ (n # None => Placed(q, "routes", r, "proceed", n))
    BY <1>3, <2>1, <2>2, ProceedKeeps
  <2>4. Rewrites(c) = {<<"routes", r, "proceed">>} /\ Lengthens(c) = {} /\ FieldOf(c.op) = "proceed"
    BY <1>1, <1>7 DEF Rewrites, Lengthens, FieldOf
  <2>5. AllPlaced(q, "routes", r, "proceed", {n})
    BY <2>3 DEF AllPlaced
  <2>6. TermsOf(c) = Asked("routes", r, "proceed", {n})
    BY <1>2, <2>2, <2>4
  <2>7. Changes(p, q, c)
    BY <1>2, <2>3, <2>4 DEF Changes
  <2> QED
    BY <2>5, <2>6, <2>7, MeetsOne
<1>8. ASSUME c.op \in {"align", "clearBlock", "homeFact"}
      PROVE  Changes(p, q, c) /\ (Roomy(p, c) => Meets(q, c))
  <2>1. PICK f : f = FieldOf(c.op) /\ f \in {"clears", "aligns", "home"}
    BY <1>8 DEF FieldOf
  <2>2. q = Turn(f, p, n, r, w)
    BY <1>1, <1>8, <2>1 DEF RouteBound, Turn, FieldOf
  <2>3. n \in Text /\ ToSet(ns) = {n}
    BY <1>2, <1>3, <1>8 DEF TakesList
  <2>4. /\ Keeps(p, q, {}, {<<"routes", r, f>>}, {})
        /\ Len(Held(p, "routes", r, f)) < MaxRouteTerms /\ n # None => Placed(q, "routes", r, f, n)
    BY <1>3, <2>1, <2>2, <2>3, TurnKeeps
  <2>5. Rewrites(c) = {} /\ Lengthens(c) = {<<"routes", r, f>>}
    BY <1>1, <1>8, <2>1 DEF Rewrites, Lengthens
  <2>6. Limit("routes", f) = MaxRouteTerms
    BY <2>1, Limits
  <2>7. ASSUME Roomy(p, c)
        PROVE  AllPlaced(q, "routes", r, f, {n})
    <3>1. <<"routes", r, f>> \in Lengthens(c)
      BY <2>5
    <3>2. Len(Held(p, "routes", r, f)) < Limit("routes", f)
      BY <1>3, <1>4, <2>7, <3>1 DEF Roomy
    <3> QED
      BY <2>4, <2>6, <3>2 DEF AllPlaced
  <2>8. TermsOf(c) = Asked("routes", r, f, {n})
    BY <1>2, <2>1, <2>3
  <2>9. Changes(p, q, c)
    BY <1>2, <2>4, <2>5 DEF Changes
  <2> QED
    BY <2>7, <2>8, <2>9, MeetsOne
<1> QED
  BY <1>2, <1>5, <1>6, <1>7, <1>8

\* A call for an automatic signal changes what they say, and is met.
LEMMA AutomaticBoundKeeps ==
    ASSUME NEW p, IsPlant(p), NEW c, Callable(c), c.owners = "automatics", Has(p["automatics"], c.owner),
           NEW q, q = AutomaticBound(p, c)
    PROVE  Changes(p, q, c) /\ (Roomy(p, c) => Meets(q, c))
PROOF
<1>1. PICK a, n, d, ns : a = c.owner /\ n = c.names[1] /\ d = c.names[2] /\ ns = c.names
  OBVIOUS
<1>2. /\ c.op \in {"governs", "approach", "reads", "opposing"}
      /\ c.op # "reads" => Len(ns) = 1
      /\ c.op = "reads" => Len(ns) = 2
      /\ Owns(c) = {}
  <2>1. c.op \in {"governs", "approach", "reads", "opposing"}
    BY DEF Callable, Bindings
  <2> QED
    BY <1>1, <2>1 DEF Callable, Arity, TakesList, Owns
<1>3. a \in Text /\ Has(p["automatics"], a)
      /\ (Len(ns) = 1 => n \in Text /\ ToSet(ns) = {n}) /\ (Len(ns) = 2 => n \in Text /\ d \in Text)
  BY <1>1, NamesOf DEF Callable
<1>4. "routes" \in Owners /\ "automatics" \in Owners
  BY DEF Owners
<1>5. ASSUME c.op = "governs"
      PROVE  Changes(p, q, c) /\ (Roomy(p, c) => Meets(q, c))
  <2>1. q = Governs(p, a, n) /\ n \in Text /\ ToSet(ns) = {n}
    BY <1>1, <1>2, <1>3, <1>5 DEF AutomaticBound
  <2>2. /\ Keeps(p, q, {}, {<<"automatics", a, "governs">>, <<"routes", a, "home">>}, {})
        /\ Len(Held(p, "automatics", a, "governs")) < MaxBlockFacts /\ n # None
             => /\ Placed(q, "automatics", a, "governs", n)
                /\ (Has(p["routes"], a) => Len(Held(p, "routes", a, "home")) < MaxRouteTerms)
                     => Placed(q, "routes", a, "home", n)
    BY <1>3, <2>1, GovernsKeeps
  <2>3. /\ Rewrites(c) = {}
        /\ Lengthens(c) = {<<"automatics", a, "governs">>, <<"routes", a, "home">>}
    BY <1>1, <1>5 DEF Rewrites, Lengthens
  <2>4. Changes(p, q, c)
    BY <1>2, <2>2, <2>3 DEF Changes
  <2>5. TermsOf(c) = Asked("automatics", a, "governs", {n}) \cup Asked("routes", a, "home", {n})
    BY <1>1, <1>5, <2>1 DEF TermsOf, FieldOf
  <2>6. ASSUME Roomy(p, c)
        PROVE  AllPlaced(q, "automatics", a, "governs", {n}) /\ AllPlaced(q, "routes", a, "home", {n})
    <3>1. <<"automatics", a, "governs">> \in Lengthens(c) /\ <<"routes", a, "home">> \in Lengthens(c)
      BY <2>3
    <3>2. Len(Held(p, "automatics", a, "governs")) < Limit("automatics", "governs")
      BY <1>3, <1>4, <2>6, <3>1 DEF Roomy
    <3>3. Has(p["routes"], a) => Len(Held(p, "routes", a, "home")) < Limit("routes", "home")
      BY <1>4, <2>6, <3>1 DEF Roomy
    <3>4. Limit("automatics", "governs") = MaxBlockFacts /\ Limit("routes", "home") = MaxRouteTerms
      BY Limits
    <3> QED
      BY <2>2, <3>2, <3>3, <3>4 DEF AllPlaced
  <2> QED
    BY <2>4, <2>5, <2>6, AskedPlaced DEF Meets
<1>6. ASSUME c.op = "approach"
      PROVE  Changes(p, q, c) /\ (Roomy(p, c) => Meets(q, c))
  <2>1. n \in Text /\ ToSet(ns) = {n}
    BY <1>1, <1>2, <1>3, <1>6
  <2>2. PICK f : f = "approach"
    OBVIOUS
  <2>3. f \in TermFields("automatics") /\ f \in Text /\ Limit("automatics", f) = MaxBlockFacts
    BY <2>2, RouteFields, Limits
  <2>4. PICK t, s : /\ t = ResolveFact(p, n, f, a).plant /\ s = ResolveFact(p, n, f, a).fact
                    /\ q = Extend(t, "automatics", a, f, Limit("automatics", f), s)
    BY <1>1, <1>6, <2>2, <2>3 DEF AutomaticBound, FactTerm
  <2>5. /\ Keeps(p, q, {}, {<<"automatics", a, f>>}, {})
        /\ Len(Held(p, "automatics", a, f)) < Limit("automatics", f) /\ n # None => Placed(q, "automatics", a, f, n)
    BY <1>3, <1>4, <2>1, <2>3, <2>4, FactTermKeeps
  <2>6. Rewrites(c) = {} /\ Lengthens(c) = {<<"automatics", a, f>>}
    BY <1>1, <1>6, <2>2 DEF Rewrites, Lengthens
  <2>7. Changes(p, q, c)
    BY <1>2, <2>5, <2>6 DEF Changes
  <2>8. TermsOf(c) = Asked("automatics", a, f, {n})
    <3>1. TermsOf(c) = Asked("automatics", a, f, {n}) \cup {}
      BY <1>1, <1>6, <2>1, <2>2 DEF TermsOf, FieldOf
    <3> QED
      BY <3>1
  <2>9. ASSUME Roomy(p, c)
        PROVE  AllPlaced(q, "automatics", a, f, {n})
    <3>1. <<"automatics", a, f>> \in Lengthens(c)
      BY <2>6
    <3>2. Len(Held(p, "automatics", a, f)) < Limit("automatics", f)
      BY <1>3, <1>4, <2>9, <3>1 DEF Roomy
    <3> QED
      BY <2>5, <3>2 DEF AllPlaced
  <2> QED
    BY <2>7, <2>8, <2>9, MeetsOne
<1>7. ASSUME c.op = "reads"
      PROVE  Changes(p, q, c) /\ (Roomy(p, c) => Meets(q, c))
  <2>1. q = Reads(p, a, n, d) /\ n \in Text /\ d \in Text
    BY <1>1, <1>2, <1>3, <1>7 DEF AutomaticBound
  <2>2. /\ Keeps(p, q, {<<"automatics", a, "h">>, <<"automatics", a, "d">>, <<"routes", a, "proceed">>},
                 {<<"routes", a, "home">>}, {})
        /\ n # None => Placed(q, "automatics", a, "h", n)
        /\ d # None => Placed(q, "automatics", a, "d", d) /\ Placed(q, "routes", a, "proceed", d)
        /\ n # None /\ (Has(p["routes"], a) => Len(Held(p, "routes", a, "home")) < MaxRouteTerms)
             => Placed(q, "routes", a, "home", n)
    BY <1>3, <2>1, ReadsKeeps
  <2>3. /\ Rewrites(c) = {<<"automatics", a, "h">>, <<"automatics", a, "d">>, <<"routes", a, "proceed">>}
        /\ Lengthens(c) = {<<"routes", a, "home">>}
    BY <1>1, <1>7 DEF Rewrites, Lengthens
  <2>4. Changes(p, q, c)
    BY <1>2, <2>2, <2>3 DEF Changes
  <2>5. TermsOf(c) = Asked("automatics", a, "h", {n}) \cup Asked("routes", a, "home", {n})
                     \cup Asked("automatics", a, "d", {d}) \cup Asked("routes", a, "proceed", {d})
    BY <1>1, <1>7 DEF TermsOf
  <2>6. ASSUME Roomy(p, c)
        PROVE  /\ AllPlaced(q, "automatics", a, "h", {n}) /\ AllPlaced(q, "routes", a, "home", {n})
               /\ AllPlaced(q, "automatics", a, "d", {d}) /\ AllPlaced(q, "routes", a, "proceed", {d})
    <3>1. <<"routes", a, "home">> \in Lengthens(c)
      BY <2>3
    <3>2. Has(p["routes"], a) => Len(Held(p, "routes", a, "home")) < Limit("routes", "home")
      BY <1>4, <2>6, <3>1 DEF Roomy
    <3>3. Limit("routes", "home") = MaxRouteTerms
      BY Limits
    <3> QED
      BY <2>2, <3>2, <3>3 DEF AllPlaced
  <2> QED
    BY <2>4, <2>5, <2>6, AskedPlaced DEF Meets
<1>8. ASSUME c.op = "opposing"
      PROVE  Changes(p, q, c) /\ Meets(q, c)
  <2>1. q = Opposing(p, a, n) /\ n \in Text /\ ToSet(ns) = {n}
    BY <1>1, <1>2, <1>3, <1>8 DEF AutomaticBound
  <2>2. /\ Keeps(p, q, {<<"automatics", a, "opposing">>}, {<<"routes", a, "home">>}, {})
        /\ Placed(q, "automatics", a, "opposing", n)
    BY <1>3, <2>1, OpposingKeeps
  <2>3. Rewrites(c) = {<<"automatics", a, "opposing">>} /\ Lengthens(c) = {<<"routes", a, "home">>}
    BY <1>1, <1>8 DEF Rewrites, Lengthens
  <2>4. Changes(p, q, c)
    BY <1>2, <2>2, <2>3 DEF Changes
  <2>5. TermsOf(c) = Asked("automatics", a, "opposing", {n})
    <3>1. TermsOf(c) = Asked("automatics", a, "opposing", {n}) \cup {}
      BY <1>1, <1>8, <2>1 DEF TermsOf, FieldOf
    <3> QED
      BY <3>1
  <2>6. AllPlaced(q, "automatics", a, "opposing", {n})
    BY <2>2 DEF AllPlaced
  <2> QED
    BY <2>4, <2>5, <2>6, MeetsOne
<1> QED
  BY <1>2, <1>5, <1>6, <1>7, <1>8

\* A call for a control point line changes what they say, and is met.
LEMMA ControlPointBoundKeeps ==
    ASSUME NEW p, IsPlant(p), NEW c, Callable(c), c.owners = "controlPoints", Has(p["controlPoints"], c.owner),
           NEW q, q = ControlPointBound(p, c)
    PROVE  Changes(p, q, c) /\ (Roomy(p, c) => Meets(q, c))
PROOF
<1>1. PICK l, n, ns : l = c.owner /\ n = c.names[1] /\ ns = c.names
  OBVIOUS
<1>2. /\ c.op \in {"governs", "block", "leaving", "home", "traffic"}
      /\ Len(ns) = 1 /\ Owns(c) = {}
  <2>1. c.op \in {"governs", "block", "leaving", "home", "traffic"}
    BY DEF Callable, Bindings
  <2> QED
    BY <1>1, <2>1 DEF Callable, Arity, TakesList, Owns
<1>3. l \in Text /\ Has(p["controlPoints"], l) /\ n \in Text /\ ToSet(ns) = {n}
  BY <1>1, <1>2, NamesOf DEF Callable
<1>4. "controlPoints" \in Owners
  BY DEF Owners
<1>5. ASSUME c.op \in {"governs", "block"}
      PROVE  Changes(p, q, c) /\ (Roomy(p, c) => Meets(q, c))
  <2>1. PICK f : f = c.op
    OBVIOUS
  <2>2. f \in TermFields("controlPoints") /\ f \in Text
    BY <1>5, <2>1, RouteFields
  <2>3. PICK t, s : /\ t = ResolveFact(p, n, f, l).plant /\ s = ResolveFact(p, n, f, l).fact
                    /\ q = Extend(t, "controlPoints", l, f, Limit("controlPoints", f), s)
    <3>1. CASE c.op = "governs"
      BY <1>1, <2>1, <3>1, Limits DEF ControlPointBound, FactTerm
    <3>2. CASE c.op = "block"
      BY <1>1, <2>1, <3>2, Limits DEF ControlPointBound, FactTerm
    <3> QED
      BY <1>5, <3>1, <3>2
  <2>4. /\ Keeps(p, q, {}, {<<"controlPoints", l, f>>}, {})
        /\ Len(Held(p, "controlPoints", l, f)) < Limit("controlPoints", f) /\ n # None => Placed(q, "controlPoints", l, f, n)
    BY <1>3, <1>4, <2>2, <2>3, FactTermKeeps
  <2>5. Rewrites(c) = {} /\ Lengthens(c) = {<<"controlPoints", l, f>>}
    BY <1>1, <1>5, <2>1 DEF Rewrites, Lengthens
  <2>6. Changes(p, q, c)
    BY <1>2, <2>4, <2>5 DEF Changes
  <2>7. TermsOf(c) = Asked("controlPoints", l, f, {n})
    <3>1. TermsOf(c) = Asked("controlPoints", l, f, {n}) \cup {}
      BY <1>1, <1>3, <1>5, <2>1 DEF TermsOf, FieldOf
    <3> QED
      BY <3>1
  <2>8. ASSUME Roomy(p, c)
        PROVE  AllPlaced(q, "controlPoints", l, f, {n})
    <3>1. <<"controlPoints", l, f>> \in Lengthens(c)
      BY <2>5
    <3>2. Len(Held(p, "controlPoints", l, f)) < Limit("controlPoints", f)
      BY <1>3, <1>4, <2>8, <3>1 DEF Roomy
    <3> QED
      BY <2>4, <3>2 DEF AllPlaced
  <2> QED
    BY <2>6, <2>7, <2>8, MeetsOne
<1>6. ASSUME c.op = "leaving"
      PROVE  Changes(p, q, c) /\ (Roomy(p, c) => Meets(q, c))
  <2>1. q = Leaving(p, l, n)
    BY <1>1, <1>6 DEF ControlPointBound
  <2>2. /\ Keeps(p, q, {}, {<<"controlPoints", l, "leaving">>}, {})
        /\ Len(Held(p, "controlPoints", l, "leaving")) < MaxLineMasts
             => Placed(q, "controlPoints", l, "leaving", n)
    BY <1>3, <2>1, LeavingKeeps
  <2>3. Rewrites(c) = {} /\ Lengthens(c) = {<<"controlPoints", l, "leaving">>}
    BY <1>1, <1>6 DEF Rewrites, Lengthens
  <2>4. Changes(p, q, c)
    BY <1>2, <2>2, <2>3 DEF Changes
  <2>5. TermsOf(c) = Asked("controlPoints", l, "leaving", {n})
    <3>1. TermsOf(c) = Asked("controlPoints", l, "leaving", {n}) \cup {}
      BY <1>1, <1>3, <1>6 DEF TermsOf, FieldOf
    <3> QED
      BY <3>1
  <2>6. ASSUME Roomy(p, c)
        PROVE  AllPlaced(q, "controlPoints", l, "leaving", {n})
    <3>1. <<"controlPoints", l, "leaving">> \in Lengthens(c)
      BY <2>3
    <3>2. Len(Held(p, "controlPoints", l, "leaving")) < Limit("controlPoints", "leaving")
      BY <1>3, <1>4, <2>6, <3>1 DEF Roomy
    <3>3. Limit("controlPoints", "leaving") = MaxLineMasts
      BY Limits
    <3> QED
      BY <2>2, <3>2, <3>3 DEF AllPlaced
  <2> QED
    BY <2>4, <2>5, <2>6, MeetsOne
<1>7. ASSUME c.op = "home"
      PROVE  Changes(p, q, c) /\ Meets(q, c)
  <2>1. q = Appliance(p, "controlPoints", l, "home", "masts", n)
    BY <1>1, <1>7 DEF ControlPointBound
  <2>2. "home" \in TermFields("controlPoints") /\ "home" \in Text /\ 1 <= Limit("controlPoints", "home")
        /\ "masts" \in {"circuits", "controls", "masts", "automatics"}
    BY RouteFields, Limits
  <2>3. Keeps(p, q, {<<"controlPoints", l, "home">>}, {}, {}) /\ Placed(q, "controlPoints", l, "home", n)
    BY <1>3, <1>4, <2>1, <2>2, ApplianceKeeps
  <2>4. Rewrites(c) = {<<"controlPoints", l, "home">>} /\ Lengthens(c) = {}
    BY <1>1, <1>7 DEF Rewrites, Lengthens
  <2>5. Changes(p, q, c)
    BY <1>2, <2>3, <2>4 DEF Changes
  <2>6. TermsOf(c) = Asked("controlPoints", l, "home", {n})
    <3>1. TermsOf(c) = Asked("controlPoints", l, "home", {n}) \cup {}
      BY <1>1, <1>3, <1>7 DEF TermsOf, FieldOf
    <3> QED
      BY <3>1
  <2>7. AllPlaced(q, "controlPoints", l, "home", {n})
    BY <2>3 DEF AllPlaced
  <2> QED
    BY <2>5, <2>6, <2>7, MeetsOne
<1>8. ASSUME c.op = "traffic"
      PROVE  Changes(p, q, c) /\ Meets(q, c)
  <2>1. PICK g : g = "traffic"
    OBVIOUS
  <2>2. q = Set(p, "controlPoints", l, g, n)
    BY <1>1, <1>8, <2>1 DEF ControlPointBound
  <2>3. Fits("controlPoints", g, n) /\ g \notin TermFields("controlPoints") /\ g \notin {"incomplete", "automatic"}
    <3>1. "traffic" \in EntryFields("controlPoints") /\ "traffic" \notin TermFields("controlPoints")
      BY <1>4, FieldNames
    <3> QED
      BY <1>3, <2>1, <3>1 DEF Fits
  <2>4. Keeps(p, q, {}, {}, {})
    <3>1. PICK o : o = "controlPoints" /\ o \in Owners
      BY <1>4
    <3>2. /\ Fits(o, g, n) /\ g \notin TermFields(o) /\ q = Set(p, o, l, g, n)
          /\ Raised(g, n)
      BY <2>1, <2>2, <2>3, <3>1 DEF Raised
    <3> QED
      BY <3>1, <3>2, FlagWritten
  <2>5. Lengthens(c) = {} /\ TermsOf(c) = {}
    BY <1>8 DEF Lengthens, TermsOf
  <2>6. {} \subseteq Rewrites(c) /\ {} \subseteq {} \cup Rewrites(c) /\ {} \subseteq {}
    OBVIOUS
  <2>7. Keeps(p, q, Rewrites(c), {}, {})
    BY <2>4, <2>6, KeepsMore
  <2> QED
    BY <1>2, <2>5, <2>7 DEF Changes, Meets
<1> QED
  BY <1>2, <1>5, <1>6, <1>7, <1>8

\* A declaration of an appliance is a change that touches no owner.
LEMMA PlainChange ==
    ASSUME NEW p, NEW q, NEW c, Keeps(p, q, {}, {}, {})
    PROVE  Changes(p, q, c)
PROOF
<1>1. {} \subseteq Rewrites(c) /\ {} \subseteq Lengthens(c) \cup Rewrites(c) /\ {} \subseteq Owns(c)
  OBVIOUS
<1> QED
  BY <1>1, KeepsMore DEF Changes

\* A declaration declares what Owns says and asks for nothing.
LEMMA DeclaredKeeps ==
    ASSUME NEW p, IsPlant(p), NEW c, Callable(c), c.owners = "", NEW q, q = Declared(p, c)
    PROVE  Changes(p, q, c) /\ Meets(q, c)
PROOF
<1>1. PICK n, n2, n3, ns, w, d : /\ n = c.names[1] /\ n2 = c.names[2] /\ n3 = c.names[3] /\ ns = c.names
                                 /\ w = c.with /\ d = IF c.with = "default" THEN p.default ELSE c.ms
  OBVIOUS
<1>2. c.op \in Declarations /\ Len(ns) = Arity(c.op)
  BY <1>1 DEF Callable, Bindings, TakesList
<1>3. /\ (Len(ns) = 1 => n \in Text) /\ (Len(ns) = 2 => n \in Text /\ n2 \in Text)
      /\ (Len(ns) = 3 => n \in Text /\ n2 \in Text /\ n3 \in Text)
      /\ w \in Text /\ d \in Nat
  <2>1. d \in Nat
    BY <1>1 DEF IsPlant, Callable
  <2> QED
    BY <1>1, <2>1, NamesOf DEF Callable
<1>4. Meets(q, c)
  BY DEF Meets, TermsOf
<1>5. ASSUME c.op \in {"addTrackCircuit", "addLineInput", "addSwitch", "addSignalControl", "addSignalMast"}
      PROVE  Changes(p, q, c)
  <2>1. n \in Text
    BY <1>2, <1>3, <1>5 DEF Arity
  <2>2. CASE c.op = "addTrackCircuit"
    <3>1. q = AddTrackCircuit(p, n)
      BY <1>1, <2>2 DEF Declared
    <3> QED
      BY <2>1, <3>1, AddTrackCircuitKeeps, PlainChange
  <2>3. CASE c.op = "addLineInput"
    <3>1. q = AddLineInput(p, n, d)
      BY <1>1, <2>3 DEF Declared
    <3> QED
      BY <1>3, <2>1, <3>1, AddLineInputKeeps, PlainChange
  <2>4. CASE c.op = "addSwitch"
    <3>1. q = AddSwitch(p, n, w)
      BY <1>1, <2>4 DEF Declared
    <3> QED
      BY <1>3, <2>1, <3>1, AddSwitchKeeps, PlainChange
  <2>5. CASE c.op = "addSignalControl"
    <3>1. q = AddSignalControl(p, n)
      BY <1>1, <2>5 DEF Declared
    <3> QED
      BY <2>1, <3>1, AddControlKeeps, PlainChange
  <2>6. CASE c.op = "addSignalMast"
    <3>1. q = AddSignalMast(p, n)
      BY <1>1, <2>6 DEF Declared
    <3> QED
      BY <2>1, <3>1, AddControlKeeps, PlainChange
  <2> QED
    BY <1>5, <2>2, <2>3, <2>4, <2>5, <2>6
<1>6. ASSUME c.op \in {"addDerail", "bindDetectorLock", "addCrossover"}
      PROVE  Changes(p, q, c)
  <2>1. CASE c.op = "addDerail"
    <3>1. q = AddDerail(p, n, n2, w)
      BY <1>1, <2>1 DEF Declared
    <3>2. n \in Text /\ n2 \in Text
      BY <1>2, <1>3, <2>1 DEF Arity
    <3> QED
      BY <1>3, <3>1, <3>2, AddDerailKeeps, PlainChange
  <2>2. CASE c.op = "bindDetectorLock"
    <3>1. q = BindDetectorLock(p, n, n2)
      BY <1>1, <2>2 DEF Declared
    <3>2. n \in Text /\ n2 \in Text
      BY <1>2, <1>3, <2>2 DEF Arity
    <3> QED
      BY <3>1, <3>2, BindDetectorLockKeeps, PlainChange
  <2>3. CASE c.op = "addCrossover"
    <3>1. q = AddCrossover(p, n, n2, n3)
      BY <1>1, <2>3 DEF Declared
    <3>2. n \in Text /\ n2 \in Text /\ n3 \in Text
      BY <1>2, <1>3, <2>3 DEF Arity
    <3> QED
      BY <3>1, <3>2, AddCrossoverKeeps, PlainChange
  <2> QED
    BY <1>6, <2>1, <2>2, <2>3
<1>7. ASSUME c.op = "addAutomaticSignal"
      PROVE  Changes(p, q, c)
  <2>1. q = AddAutomaticSignal(p, n) /\ n \in Text
    BY <1>1, <1>2, <1>3, <1>7 DEF Declared, Arity
  <2>2. Keeps(p, q, {<<"routes", n, "displays">>}, {}, {<<"routes", n>>, <<"automatics", n>>})
    BY <2>1, AddAutomaticSignalKeeps
  <2>3. /\ Rewrites(c) = {<<"routes", n, "displays">>} /\ Lengthens(c) = {}
        /\ Owns(c) = {<<"routes", n>>, <<"automatics", n>>}
    BY <1>1, <1>7 DEF Rewrites, Lengthens, Owns
  <2> QED
    BY <2>2, <2>3 DEF Changes
<1>8. ASSUME c.op = "addControlPointLine"
      PROVE  Changes(p, q, c)
  <2>1. q = AddControlPointLine(p, n) /\ n \in Text
    BY <1>1, <1>2, <1>3, <1>8 DEF Declared, Arity
  <2>2. Keeps(p, q, {<<"controlPoints", n, "home">>}, {}, {<<"controlPoints", n>>})
    BY <2>1, AddControlPointLineKeeps
  <2>3. /\ Rewrites(c) = {<<"controlPoints", n, "home">>} /\ Lengthens(c) = {}
        /\ Owns(c) = {<<"controlPoints", n>>}
    BY <1>1, <1>8 DEF Rewrites, Lengthens, Owns
  <2> QED
    BY <2>2, <2>3 DEF Changes
<1>9. ASSUME c.op = "route"
      PROVE  Changes(p, q, c)
  <2>1. q = AddRoute(p, n) /\ n \in Text
    BY <1>1, <1>2, <1>3, <1>9 DEF Declared, Arity
  <2>2. Keeps(p, q, {}, {}, {<<"routes", n>>})
    BY <2>1, AddRouteKeeps
  <2>3. Rewrites(c) = {} /\ Lengthens(c) = {} /\ Owns(c) = {<<"routes", n>>}
    BY <1>1, <1>9 DEF Rewrites, Lengthens, Owns
  <2> QED
    BY <2>2, <2>3 DEF Changes
<1> QED
  BY <1>2, <1>4, <1>5, <1>6, <1>7, <1>8, <1>9 DEF Declarations

\* Every call of the interface: what it may change, and that what it asks for
\* stands, when the fields it makes longer have room.  A binding whose owner
\* did not fit into its table changes nothing.
THEOREM ConfiguredKeeps ==
    ASSUME NEW p, IsPlant(p), NEW c, Callable(c), NEW q, q = Configured(p, c)
    PROVE  /\ Changes(p, q, c)
           /\ Roomy(p, c) /\ (c.owners # "" => Has(p[c.owners], c.owner)) => Meets(q, c)
           /\ c.owners # "" /\ ~Has(p[c.owners], c.owner) => q = p
PROOF
<1>1. CASE c.owners = ""
  <2>1. q = Declared(p, c)
    BY <1>1 DEF Configured
  <2> QED
    BY <1>1, <2>1, DeclaredKeeps
<1>2. CASE c.owners # "" /\ ~Has(p[c.owners], c.owner)
  <2>1. q = p
    BY <1>2 DEF Configured
  <2> QED
    BY <1>2, <2>1, KeepsSame DEF Changes
<1>3. CASE c.owners # "" /\ Has(p[c.owners], c.owner)
  <2>0. c.owners \in {"routes", "automatics", "controlPoints"}
    BY <1>3 DEF Callable, Bindings
  <2>1. CASE c.owners = "routes"
    <3>1. q = RouteBound(p, c) /\ Has(p["routes"], c.owner)
      BY <1>3, <2>1 DEF Configured
    <3> QED
      BY <1>3, <2>1, <3>1, RouteBoundKeeps
  <2>2. CASE c.owners = "automatics"
    <3>1. q = AutomaticBound(p, c) /\ Has(p["automatics"], c.owner)
      BY <1>3, <2>2 DEF Configured
    <3> QED
      BY <1>3, <2>2, <3>1, AutomaticBoundKeeps
  <2>3. CASE c.owners = "controlPoints"
    <3>1. q = ControlPointBound(p, c) /\ Has(p["controlPoints"], c.owner)
      BY <1>3, <2>3 DEF Configured
    <3> QED
      BY <1>3, <2>3, <3>1, ControlPointBoundKeeps
  <2> QED
    BY <2>0, <2>1, <2>2, <2>3
<1> QED
  BY <1>1, <1>2, <1>3

-----------------------------------------------------------------------------
(* Sequences that are picked, mapped and joined.                           *)

\* A function on the first n numbers is a sequence of what it takes.
LEMMA MadeSeq ==
    ASSUME NEW n \in Nat, NEW X, NEW f, f = [i \in 1 .. n |-> f[i]], \A i \in 1 .. n : f[i] \in X
    PROVE  f \in Seq(X) /\ Len(f) = n /\ DOMAIN f = 1 .. n
  BY IsASeq

\* A sequence is a sequence of its elements.
IsSeq(s) == s \in Seq(ToSet(s))

\* A sequence, its length and its entries.
LEMMA SeqIs ==
    ASSUME NEW X, NEW s \in Seq(X)
    PROVE  /\ IsSeq(s) /\ ToSet(s) \subseteq X /\ Len(s) \in Nat /\ DOMAIN s = 1 .. Len(s)
           /\ \A i \in 1 .. Len(s) : s[i] \in ToSet(s)
PROOF
<1>1. Len(s) \in Nat /\ DOMAIN s = 1 .. Len(s) /\ \A i \in 1 .. Len(s) : s[i] \in X
  BY LenProperties, ElementOfSeq
<1>2. s = [i \in 1 .. Len(s) |-> s[i]]
  BY <1>1
<1>3. \A i \in 1 .. Len(s) : s[i] \in ToSet(s)
  BY <1>1 DEF ToSet
<1>4. s \in Seq(ToSet(s))
  <2> HIDE DEF ToSet
  <2> QED
    BY <1>1, <1>2, <1>3, MadeSeq
<1> QED
  BY <1>1, <1>3, <1>4 DEF ToSet, IsSeq

\* A sequence over a smaller set.
LEMMA MoreSeq ==
    ASSUME NEW X, NEW s \in Seq(X), NEW Y, X \subseteq Y
    PROVE  s \in Seq(Y)
PROOF
<1>1. Len(s) \in Nat /\ DOMAIN s = 1 .. Len(s) /\ \A i \in 1 .. Len(s) : s[i] \in Y
  BY LenProperties, ElementOfSeq
<1>2. s = [i \in 1 .. Len(s) |-> s[i]]
  BY <1>1
<1> QED
  BY <1>1, <1>2, MadeSeq

\* Two sequences, one after the other, hold the elements of both.
LEMMA Joined ==
    ASSUME NEW s, IsSeq(s), NEW t, IsSeq(t)
    PROVE  /\ IsSeq(s \o t) /\ ToSet(s \o t) = ToSet(s) \cup ToSet(t)
           /\ Len(s \o t) = Len(s) + Len(t) /\ Len(s) \in Nat /\ Len(t) \in Nat
           /\ \A i \in 1 .. Len(s) : (s \o t)[i] = s[i]
           /\ \A i \in 1 .. Len(t) : (s \o t)[Len(s) + i] = t[i]
PROOF
<1> DEFINE X == ToSet(s) \cup ToSet(t)
           c == s \o t
<1>1. s \in Seq(X) /\ t \in Seq(X)
  BY MoreSeq DEF IsSeq
<1>2. /\ Len(s) \in Nat /\ DOMAIN s = 1 .. Len(s)
      /\ Len(t) \in Nat /\ DOMAIN t = 1 .. Len(t)
  BY <1>1, LenProperties
<1> HIDE DEF X
<1>3. /\ c \in Seq(X) /\ Len(c) = Len(s) + Len(t) /\ DOMAIN c = 1 .. Len(c)
      /\ \A i \in 1 .. Len(s) + Len(t) : c[i] = IF i <= Len(s) THEN s[i] ELSE t[i - Len(s)]
  BY <1>1, ConcatProperties, LenProperties
<1> HIDE DEF c
<1>4. ASSUME NEW n \in DOMAIN c
      PROVE  c[n] \in ToSet(s) \cup ToSet(t)
  <2>1. CASE n <= Len(s)
    BY <1>2, <1>3, <2>1 DEF ToSet
  <2>2. CASE n > Len(s)
    <3>1. n - Len(s) \in DOMAIN t /\ c[n] = t[n - Len(s)]
      BY <1>2, <1>3, <2>2
    <3> QED
      BY <3>1 DEF ToSet
  <2> QED
    BY <1>2, <1>3, <2>1, <2>2
<1>5. ASSUME NEW n \in 1 .. Len(s)
      PROVE  c[n] = s[n] /\ s[n] \in ToSet(c)
  <2>1. n \in DOMAIN c /\ c[n] = s[n]
    BY <1>2, <1>3
  <2> QED
    BY <2>1 DEF ToSet
<1>6. ASSUME NEW n \in 1 .. Len(t)
      PROVE  c[Len(s) + n] = t[n] /\ t[n] \in ToSet(c)
  <2>1. Len(s) + n \in DOMAIN c /\ c[Len(s) + n] = t[n]
    BY <1>2, <1>3
  <2> QED
    BY <2>1 DEF ToSet
<1>7. ToSet(c) = ToSet(s) \cup ToSet(t)
  BY <1>2, <1>4, <1>5, <1>6 DEF ToSet
<1>8. IsSeq(c)
  BY <1>3, SeqIs
<1> QED
  BY <1>2, <1>3, <1>5, <1>6, <1>7, <1>8 DEF c

\* The empty sequence, and one of one element.
LEMMA ShortSeqs ==
    /\ IsSeq(<<>>) /\ ToSet(<<>>) = {} /\ Len(<<>>) = 0
    /\ \A x : IsSeq(<<x>>) /\ ToSet(<<x>>) = {x} /\ Len(<<x>>) = 1
PROOF
<1>1. ToSet(<<>>) = {} /\ <<>> \in Seq({}) /\ Len(<<>>) = 0
  BY EmptySeq DEF ToSet
<1>2. ASSUME NEW x
      PROVE  IsSeq(<<x>>) /\ ToSet(<<x>>) = {x} /\ Len(<<x>>) = 1
  <2>1. DOMAIN <<x>> = {1} /\ Len(<<x>>) = 1 /\ <<x>>[1] = x
    OBVIOUS
  <2>2. ToSet(<<x>>) = {x}
    BY <2>1 DEF ToSet
  <2>3. <<x>> \in Seq({x})
    OBVIOUS
  <2> QED
    BY <2>1, <2>2, <2>3 DEF IsSeq
<1> QED
  BY <1>1, <1>2 DEF IsSeq

\* What is picked from a table: its entries at these places, each once and in
\* their order.
PickedFrom(s, table, places, n) ==
    /\ IsSeq(s) /\ Len(s) <= n
    /\ \E at \in [1 .. Len(s) -> 1 .. n] :
         /\ \A k \in 1 .. Len(s) : at[k] \in places /\ s[k] = table[at[k]]
         /\ \A k, m \in 1 .. Len(s) : k < m => at[k] < at[m]

\* One entry more is looked at.
LEMMA PickedMore ==
    ASSUME NEW s, NEW table, NEW places, NEW n \in Nat, PickedFrom(s, table, places, n)
    PROVE  /\ PickedFrom(s, table, places, n + 1)
           /\ n + 1 \in places => PickedFrom(Append(s, table[n + 1]), table, places, n + 1)
PROOF
<1>1. /\ IsSeq(s) /\ Len(s) <= n /\ Len(s) \in Nat
  BY SeqIs DEF PickedFrom, IsSeq
<1>2. PICK at \in [1 .. Len(s) -> 1 .. n] :
         /\ \A k \in 1 .. Len(s) : at[k] \in places /\ s[k] = table[at[k]]
         /\ \A k, m \in 1 .. Len(s) : k < m => at[k] < at[m]
  BY DEF PickedFrom
<1>3. PickedFrom(s, table, places, n + 1)
  <2>1. at \in [1 .. Len(s) -> 1 .. n + 1]
    OBVIOUS
  <2>2. Len(s) <= n + 1
    BY <1>1
  <2> QED
    BY <1>1, <1>2, <2>1, <2>2 DEF PickedFrom
<1>4. ASSUME n + 1 \in places
      PROVE  PickedFrom(Append(s, table[n + 1]), table, places, n + 1)
  <2>1. PICK x, t, l : x = table[n + 1] /\ t = Append(s, x) /\ l = Len(s)
    OBVIOUS
  <2> DEFINE Y == ToSet(s) \cup {x}
  <2>2. s \in Seq(Y) /\ x \in Y
    BY <1>1, MoreSeq DEF IsSeq
  <2> HIDE DEF Y
  <2>3. t \in Seq(Y) /\ Len(t) = l + 1 /\ t[l + 1] = x /\ \A k \in 1 .. l : t[k] = s[k]
    BY <2>1, <2>2, AppendProperties
  <2>4. IsSeq(t)
    BY <2>3, SeqIs
  <2> DEFINE to == [k \in 1 .. l + 1 |-> IF k = l + 1 THEN n + 1 ELSE at[k]]
  <2>5. to \in [1 .. l + 1 -> 1 .. n + 1]
    BY <1>1, <2>1
  <2>6. \A k \in 1 .. l + 1 : to[k] \in places /\ t[k] = table[to[k]]
    BY <1>1, <1>2, <1>4, <2>1, <2>3
  <2>7. \A k, m \in 1 .. l + 1 : k < m => to[k] < to[m]
    BY <1>1, <1>2, <2>1
  <2>8. Len(t) <= n + 1
    BY <1>1, <2>1, <2>3
  <2> HIDE DEF to
  <2> QED
    BY <2>1, <2>3, <2>4, <2>5, <2>6, <2>7, <2>8 DEF PickedFrom
<1> QED
  BY <1>3, <1>4

\* What is picked from a table are entries of it, in their order.
LEMMA PickedIs ==
    ASSUME NEW X, NEW table \in Seq(X), NEW places
    PROVE  PickedFrom(Picked(table, places), table, places, Len(table))
PROOF
<1>1. Len(table) \in Nat /\ DOMAIN table = 1 .. Len(table)
  BY LenProperties
<1>2. PICK no, ixs : no = <<>> /\ ixs = [i \in DOMAIN table |-> i]
  OBVIOUS
<1>3. Len(ixs) = Len(table) /\ \A i \in 1 .. Len(table) : ixs[i] = i
  <2>1. ixs = [i \in 1 .. Len(table) |-> ixs[i]] /\ \A i \in 1 .. Len(table) : ixs[i] \in Nat
    BY <1>1, <1>2
  <2>2. Len(ixs) = Len(table)
    BY <1>1, <2>1, MadeSeq
  <2> QED
    BY <1>1, <1>2, <2>2
<1> DEFINE F == CHOOSE g : Follows(g, "picks", no, ixs, table, places, Len(ixs))
<1>4. Follows(F, "picks", no, ixs, table, places, Len(ixs))
  BY <1>1, <1>3, FollowsExists
<1>5. Picked(table, places) = F[Len(ixs)]
  BY <1>2 DEF Picked, InTurn, Follows, Turn
<1> HIDE DEF F
<1>6. /\ F[0] = no
      /\ \A i \in 1 .. Len(table) :
           F[i] = IF i \in places THEN Append(F[i - 1], table[i]) ELSE F[i - 1]
  <2>1. \A i \in 0 .. Len(ixs) : F[i] = IF i = 0 THEN no ELSE Turn("picks", F[i - 1], ixs[i], table, places)
    BY <1>4 DEF Follows
  <2>2. \A i \in 1 .. Len(table) :
          Turn("picks", F[i - 1], i, table, places) = IF i \in places THEN Append(F[i - 1], table[i]) ELSE F[i - 1]
    BY DEF Turn
  <2> QED
    BY <1>1, <1>3, <2>1, <2>2
<1> DEFINE S == {i \in 0 .. Len(table) : PickedFrom(F[i], table, places, i)}
<1>7. 0 \in S
  <2>1. IsSeq(no) /\ Len(no) = 0
    BY <1>2, ShortSeqs
  <2>2. PICK at : at \in [1 .. 0 -> 1 .. 0]
    <3>1. [k \in 1 .. 0 |-> 0] \in [1 .. 0 -> 1 .. 0]
      OBVIOUS
    <3> QED
      BY <3>1
  <2>4. 1 .. 0 = {}
    OBVIOUS
  <2>3. PickedFrom(no, table, places, 0)
    <3>1. at \in [1 .. Len(no) -> 1 .. 0]
      BY <2>1, <2>2
    <3>2. \A k \in 1 .. Len(no) : FALSE
      BY <2>1, <2>4
    <3>3. Len(no) <= 0
      BY <2>1
    <3> QED
      BY <2>1, <3>1, <3>2, <3>3, Zenon DEF PickedFrom
  <2> QED
    BY <1>1, <1>6, <2>3
<1>8. ASSUME NEW i \in 0 .. Len(table) - 1, i \in S
      PROVE  i + 1 \in S
  <2>1. PICK s, t : s = F[i] /\ t = F[i + 1]
    OBVIOUS
  <2>2. i \in Nat /\ i + 1 \in 1 .. Len(table) /\ (i + 1) - 1 = i
    BY <1>1
  <2>3. t = IF i + 1 \in places THEN Append(s, table[i + 1]) ELSE s
    BY <1>6, <2>1, <2>2
  <2>4. PickedFrom(s, table, places, i)
    BY <1>8, <2>1
  <2>5. PickedFrom(t, table, places, i + 1)
    BY <2>2, <2>3, <2>4, PickedMore
  <2> QED
    BY <1>1, <2>1, <2>2, <2>5
<1> HIDE DEF S
<1>9. Len(table) \in S
  <2>1. \A i \in 0 .. Len(table) - 1 : i \in S => i + 1 \in S
    BY <1>8
  <2>2. \A i \in 0 .. Len(table) : i \in S
    BY <1>1, <1>7, <2>1, UpTo
  <2> QED
    BY <1>1, <2>2
<1> QED
  BY <1>3, <1>5, <1>9 DEF S

-----------------------------------------------------------------------------
(* What a plant is written to.                                             *)

Mapped(s, t, Y) == s = [i \in DOMAIN t |-> s[i]] /\ \A i \in 1 .. Len(t) : s[i] \in Y

\* A table written entry by entry.
LEMMA EachMade ==
    ASSUME NEW X, NEW t \in Seq(X), NEW Y, NEW s, Mapped(s, t, Y)
    PROVE  s \in Seq(Y) /\ Len(s) = Len(t) /\ DOMAIN s = 1 .. Len(t)
PROOF
<1>1. Len(t) \in Nat /\ DOMAIN t = 1 .. Len(t)
  BY LenProperties
<1>2. s = [i \in 1 .. Len(t) |-> s[i]] /\ \A i \in 1 .. Len(t) : s[i] \in Y
  BY <1>1 DEF Mapped
<1> QED
  BY <1>1, <1>2, MadeSeq

\* The sections of a file; no list is longer than the array it was written from.
Listed(X, limit) == {s \in Seq(X) : Len(s) <= limit}
MachineParts == [name : Text, base : Text, os : Text]
RouteParts ==
    [name : Text, governedBy : Text, displays : Text, aligns : Listed(Text \X Text, MaxRouteTerms),
     clears : Listed(Text, MaxRouteTerms), home : Listed(Text, MaxRouteTerms), proceed : Text,
     entrance : Text, approaching : Text]
AutomaticParts ==
    [name : Text, governs : Listed(Text, MaxBlockFacts), approach : Listed(Text, MaxBlockFacts),
     h : Text, d : Text, opposing : Text]
ControlPointParts ==
    [name : Text, home : Text, governs : Listed(Text, MaxBlockFacts),
     block : Listed(Text, MaxRouteTerms), leaving : Listed(Text, MaxLineMasts), traffic : Text]
IsFile(f) ==
    /\ f.default \in Nat
    /\ f.circuits \in Seq(Text) /\ f.lines \in Seq([name : Text, timeout : Nat])
    /\ f.switches \in Seq(MachineParts) /\ f.derails \in Seq(MachineParts)
    /\ f.crossovers \in Seq([name : Text, a : Text, b : Text])
    /\ f.controls \in Seq(Text) /\ f.masts \in Seq(Text)
    /\ f.automatics \in Seq(AutomaticParts) /\ f.controlPoints \in Seq(ControlPointParts)
    /\ f.locks \in Seq(Text \X Text) /\ f.routes \in Seq(RouteParts)

\* The names of a table.
LEMMA NamesAre ==
    ASSUME NEW X, NEW t \in Seq(X), \A x \in X : x.name \in Text
    PROVE  Names(t) \in Seq(Text) /\ Len(Names(t)) = Len(t)
PROOF
<1>1. Len(t) \in Nat /\ DOMAIN t = 1 .. Len(t) /\ \A i \in 1 .. Len(t) : t[i] \in X
  BY LenProperties, ElementOfSeq
<1>2. PICK s : s = Names(t)
  OBVIOUS
<1>3. Mapped(s, t, Text)
  BY <1>1, <1>2 DEF Names, Mapped
<1> QED
  BY <1>2, <1>3, EachMade

\* The name of a bound object, or none.
LEMMA OneNameIs ==
    ASSUME NEW t \in Seq(Bonds)
    PROVE  OneName(t) \in Text /\ (t # <<>> => t[1].name \in Text)
PROOF
<1>1. Len(t) \in Nat /\ \A i \in 1 .. Len(t) : t[i] \in Bonds
  BY LenProperties, ElementOfSeq
<1>2. None \in Text
  BY TextIs DEF Words, None
<1>3. ASSUME t # <<>>
      PROVE  t[1].name \in Text
  <2>1. Len(t) # 0
    BY <1>3, EmptySeq
  <2>2. t[1] \in Bonds
    BY <1>1, <2>1
  <2> QED
    BY <2>2 DEF Bonds
<1> QED
  BY <1>2, <1>3 DEF OneName

\* The written terms of an owner.
LEMMA BondNames ==
    ASSUME NEW t \in Seq(Bonds), NEW l, Len(t) <= l
    PROVE  Names(t) \in Listed(Text, l)
PROOF
<1>1. \A b \in Bonds : b.name \in Text
  BY DEF Bonds
<1> QED
  BY <1>1, NamesAre DEF Listed

\* The switches of a route are written with what releases them.
LEMMA AlignsAre ==
    ASSUME NEW t \in Seq(Bonds), NEW l, Len(t) <= l
    PROVE  [i \in DOMAIN t |-> <<t[i].name, t[i].rel>>] \in Listed(Text \X Text, l)
PROOF
<1>1. Len(t) \in Nat /\ DOMAIN t = 1 .. Len(t) /\ \A i \in 1 .. Len(t) : t[i] \in Bonds
  BY LenProperties, ElementOfSeq
<1>2. PICK s : s = [i \in DOMAIN t |-> <<t[i].name, t[i].rel>>]
  OBVIOUS
<1>3. Mapped(s, t, Text \X Text)
  BY <1>1, <1>2 DEF Bonds, Mapped
<1>4. s \in Seq(Text \X Text) /\ Len(s) = Len(t)
  BY <1>3, EachMade
<1> QED
  BY <1>2, <1>4 DEF Listed

\* The fields of the owners and how much they hold.
LEMMA EntryTerms ==
    /\ \A r \in OwnerEntries("routes") :
         /\ r.name \in Text
         /\ r.governedBy \in Seq(Bonds) /\ r.displays \in Seq(Bonds) /\ r.proceed \in Seq(Bonds)
         /\ r.entrance \in Seq(Bonds) /\ r.approaching \in Seq(Bonds)
         /\ r.aligns \in Seq(Bonds) /\ Len(r.aligns) <= MaxRouteTerms
         /\ r.clears \in Seq(Bonds) /\ Len(r.clears) <= MaxRouteTerms
         /\ r.home \in Seq(Bonds) /\ Len(r.home) <= MaxRouteTerms
    /\ \A a \in OwnerEntries("automatics") :
         /\ a.name \in Text /\ a.h \in Seq(Bonds) /\ a.d \in Seq(Bonds) /\ a.opposing \in Seq(Bonds)
         /\ a.governs \in Seq(Bonds) /\ Len(a.governs) <= MaxBlockFacts
         /\ a.approach \in Seq(Bonds) /\ Len(a.approach) <= MaxBlockFacts
    /\ \A l \in OwnerEntries("controlPoints") :
         /\ l.name \in Text /\ l.traffic \in Text /\ l.home \in Seq(Bonds)
         /\ l.governs \in Seq(Bonds) /\ Len(l.governs) <= MaxBlockFacts
         /\ l.block \in Seq(Bonds) /\ Len(l.block) <= MaxRouteTerms
         /\ l.leaving \in Seq(Bonds) /\ Len(l.leaving) <= MaxLineMasts
PROOF
<1>1. \A o \in Owners : \A e \in OwnerEntries(o) :
        /\ e.name \in Text /\ (o = "controlPoints" => e.traffic \in Text)
        /\ \A f \in TermFields(o) : e[f] \in Seq(Bonds) /\ Len(e[f]) <= Limit(o, f)
  BY DEF OwnerEntries
<1>2. /\ TermFields("routes") = {"governedBy", "displays", "aligns", "clears", "home", "proceed",
                                 "entrance", "approaching"}
      /\ TermFields("automatics") = {"governs", "approach", "h", "d", "opposing"}
      /\ TermFields("controlPoints") = {"governs", "block", "leaving", "home"}
  BY DEF TermFields
<1>3. /\ Limit("routes", "aligns") = MaxRouteTerms /\ Limit("routes", "clears") = MaxRouteTerms
      /\ Limit("routes", "home") = MaxRouteTerms
      /\ Limit("automatics", "governs") = MaxBlockFacts /\ Limit("automatics", "approach") = MaxBlockFacts
      /\ Limit("controlPoints", "governs") = MaxBlockFacts
      /\ Limit("controlPoints", "block") = MaxRouteTerms /\ Limit("controlPoints", "leaving") = MaxLineMasts
  BY DEF Limit
<1>4. ASSUME NEW r \in OwnerEntries("routes")
      PROVE  /\ r.name \in Text
             /\ r.governedBy \in Seq(Bonds) /\ r.displays \in Seq(Bonds) /\ r.proceed \in Seq(Bonds)
             /\ r.entrance \in Seq(Bonds) /\ r.approaching \in Seq(Bonds)
             /\ r.aligns \in Seq(Bonds) /\ Len(r.aligns) <= MaxRouteTerms
             /\ r.clears \in Seq(Bonds) /\ Len(r.clears) <= MaxRouteTerms
             /\ r.home \in Seq(Bonds) /\ Len(r.home) <= MaxRouteTerms
  <2>1. r.name \in Text /\ \A f \in TermFields("routes") : r[f] \in Seq(Bonds) /\ Len(r[f]) <= Limit("routes", f)
    BY <1>1 DEF Owners
  <2> QED
    BY <1>2, <1>3, <2>1
<1>5. ASSUME NEW a \in OwnerEntries("automatics")
      PROVE  /\ a.name \in Text /\ a.h \in Seq(Bonds) /\ a.d \in Seq(Bonds) /\ a.opposing \in Seq(Bonds)
             /\ a.governs \in Seq(Bonds) /\ Len(a.governs) <= MaxBlockFacts
             /\ a.approach \in Seq(Bonds) /\ Len(a.approach) <= MaxBlockFacts
  <2>1. a.name \in Text /\ \A f \in TermFields("automatics") : a[f] \in Seq(Bonds) /\ Len(a[f]) <= Limit("automatics", f)
    BY <1>1 DEF Owners
  <2> QED
    BY <1>2, <1>3, <2>1
<1>6. ASSUME NEW l \in OwnerEntries("controlPoints")
      PROVE  /\ l.name \in Text /\ l.traffic \in Text /\ l.home \in Seq(Bonds)
             /\ l.governs \in Seq(Bonds) /\ Len(l.governs) <= MaxBlockFacts
             /\ l.block \in Seq(Bonds) /\ Len(l.block) <= MaxRouteTerms
             /\ l.leaving \in Seq(Bonds) /\ Len(l.leaving) <= MaxLineMasts
  <2>1. /\ l.name \in Text /\ l.traffic \in Text
        /\ \A f \in TermFields("controlPoints") : l[f] \in Seq(Bonds) /\ Len(l[f]) <= Limit("controlPoints", f)
    BY <1>1 DEF Owners
  <2> QED
    BY <1>2, <1>3, <2>1
<1> QED
  BY <1>4, <1>5, <1>6

\* A written owner is what the file has of an owner.
LEMMA PartsAre ==
    /\ \A r \in OwnerEntries("routes") : WrittenRoute(r) \in RouteParts
    /\ \A a \in OwnerEntries("automatics") : WrittenAutomatic(a) \in AutomaticParts
    /\ \A l \in OwnerEntries("controlPoints") : WrittenControlPoint(l) \in ControlPointParts
PROOF
<1>1. ASSUME NEW r \in OwnerEntries("routes")
      PROVE  WrittenRoute(r) \in RouteParts
  <2>1. EntranceBlock(r) \in Text
    <3>1. r.entrance \in Seq(Bonds) /\ r.clears \in Seq(Bonds)
      BY EntryTerms
    <3>2. OneName(r.entrance) \in Text /\ (r.clears # <<>> => r.clears[1].name \in Text)
      BY <3>1, OneNameIs
    <3> QED
      BY <3>2 DEF EntranceBlock
  <2>2. [i \in DOMAIN r.aligns |-> <<r.aligns[i].name, r.aligns[i].rel>>] \in Listed(Text \X Text, MaxRouteTerms)
    BY EntryTerms, AlignsAre
  <2>3. Names(r.clears) \in Listed(Text, MaxRouteTerms) /\ Names(r.home) \in Listed(Text, MaxRouteTerms)
    BY EntryTerms, BondNames
  <2>4. /\ OneName(r.governedBy) \in Text /\ OneName(r.displays) \in Text /\ OneName(r.proceed) \in Text
        /\ OneName(r.approaching) \in Text /\ r.name \in Text
    BY EntryTerms, OneNameIs
  <2> QED
    BY <2>1, <2>2, <2>3, <2>4 DEF WrittenRoute, RouteParts
<1>2. ASSUME NEW a \in OwnerEntries("automatics")
      PROVE  WrittenAutomatic(a) \in AutomaticParts
  <2>1. Names(a.governs) \in Listed(Text, MaxBlockFacts) /\ Names(a.approach) \in Listed(Text, MaxBlockFacts)
    BY EntryTerms, BondNames
  <2>2. OneName(a.h) \in Text /\ OneName(a.d) \in Text /\ OneName(a.opposing) \in Text /\ a.name \in Text
    BY EntryTerms, OneNameIs
  <2> QED
    BY <2>1, <2>2 DEF WrittenAutomatic, AutomaticParts
<1>3. ASSUME NEW l \in OwnerEntries("controlPoints")
      PROVE  WrittenControlPoint(l) \in ControlPointParts
  <2>1. /\ Names(l.governs) \in Listed(Text, MaxBlockFacts) /\ Names(l.block) \in Listed(Text, MaxRouteTerms)
        /\ Names(l.leaving) \in Listed(Text, MaxLineMasts)
    BY EntryTerms, BondNames
  <2>2. OneName(l.home) \in Text /\ l.name \in Text /\ l.traffic \in Text
    BY EntryTerms, OneNameIs
  <2> QED
    BY <2>1, <2>2 DEF WrittenControlPoint, ControlPointParts
<1> QED
  BY <1>1, <1>2, <1>3

\* The circuit that a machine is written with.
LEMMA DetectorText ==
    ASSUME NEW p, IsPlant(p), NEW sw
    PROVE  DetectorFor(p, sw) \in Text
PROOF
<1>1. ASSUME NEW m
      PROVE  OwnDetector(p, m) \in Text
  <2>1. /\ DOMAIN p.locks = 1 .. Len(p.locks) /\ Len(p.locks) \in Nat
        /\ \A i \in 1 .. Len(p.locks) : p.locks[i] \in Text \X Text
    <3>1. "locks" \in Tables /\ Entries("locks") = Text \X Text
      BY DEF Tables, Entries
    <3>2. /\ DOMAIN p["locks"] = 1 .. Len(p["locks"]) /\ Len(p["locks"]) \in Nat
          /\ \A i \in 1 .. Len(p["locks"]) : p["locks"][i] \in Entries("locks")
      BY <3>1, TableTypes
    <3> QED
      BY <3>1, <3>2
  <2> DEFINE of == {i \in DOMAIN p.locks : p.locks[i][1] = m}
             first == CHOOSE i \in of : \A j \in of : i <= j
  <2>2. CASE of = {}
    <3>1. None \in Text
      BY TextIs DEF Words, None
    <3>2. OwnDetector(p, m) = None
      BY <2>2 DEF OwnDetector
    <3> QED
      BY <3>1, <3>2
  <2>3. CASE of # {}
    <3>1. of \subseteq Nat
      BY <2>1
    <3>2. \E i \in of : \A j \in of : i <= j
      BY <2>3, <3>1, LeastOf
    <3>3. first \in of
      BY <3>2
    <3>4. OwnDetector(p, m) = p.locks[first][2]
      BY <2>3 DEF OwnDetector
    <3>5. p.locks[first] \in Text \X Text
      BY <2>1, <3>3
    <3> HIDE DEF first
    <3> QED
      BY <3>4, <3>5
  <2> QED
    BY <2>2, <2>3
<1> QED
  BY <1>1 DEF DetectorFor

\* What is picked of a table is of its type, and no more than there is.
LEMMA PickedType ==
    ASSUME NEW X, NEW table \in Seq(X), NEW places
    PROVE  Picked(table, places) \in Seq(X) /\ Len(Picked(table, places)) <= Len(table)
PROOF
<1>1. Len(table) \in Nat /\ \A i \in 1 .. Len(table) : table[i] \in X
  BY LenProperties, ElementOfSeq
<1>2. PICK s : s = Picked(table, places)
  OBVIOUS
<1>3. PickedFrom(s, table, places, Len(table))
  BY <1>2, PickedIs
<1>4. IsSeq(s) /\ Len(s) <= Len(table) /\ \A k \in 1 .. Len(s) : s[k] \in X
  BY <1>1, <1>3 DEF PickedFrom
<1>5. s \in Seq(ToSet(s)) /\ ToSet(s) \subseteq X
  <2>1. Len(s) \in Nat /\ DOMAIN s = 1 .. Len(s)
    BY <1>4, LenProperties DEF IsSeq
  <2> QED
    BY <1>4, <2>1 DEF IsSeq, ToSet
<1>6. s \in Seq(X)
  BY <1>5, MoreSeq
<1> QED
  BY <1>2, <1>4, <1>6

\* Written machines have a name, a base and a circuit.
LEMMA MachinesAre ==
    ASSUME NEW p, IsPlant(p), NEW t \in Seq([name : Text, derail : BOOLEAN, base : Text, pair : Text])
    PROVE  WithCircuits(p, t) \in Seq(MachineParts)
PROOF
<1>1. /\ Len(t) \in Nat /\ DOMAIN t = 1 .. Len(t)
      /\ \A i \in 1 .. Len(t) : t[i] \in [name : Text, derail : BOOLEAN, base : Text, pair : Text]
  BY LenProperties, ElementOfSeq
<1>2. PICK s : s = WithCircuits(p, t)
  OBVIOUS
<1>3. s = [i \in DOMAIN t |-> s[i]]
  BY <1>2 DEF WithCircuits
<1>4. ASSUME NEW i \in 1 .. Len(t)
      PROVE  s[i] \in MachineParts
  <2>1. s[i] = [name |-> t[i].name, base |-> t[i].base, os |-> DetectorFor(p, t[i].name)]
    BY <1>1, <1>2 DEF WithCircuits
  <2>2. t[i].name \in Text /\ t[i].base \in Text
    BY <1>1
  <2>3. DetectorFor(p, t[i].name) \in Text
    BY DetectorText
  <2> QED
    BY <2>1, <2>2, <2>3 DEF MachineParts
<1>5. Mapped(s, t, MachineParts)
  BY <1>3, <1>4 DEF Mapped
<1> QED
  BY <1>2, <1>5, EachMade

\* The tables of a plant, one by one.
LEMMA PlantTypes ==
    ASSUME NEW p, IsPlant(p)
    PROVE  /\ p.circuits \in Seq([name : Text, timeout : Nat])
           /\ p.lines \in Seq([name : Text, implicit : BOOLEAN, timeout : Nat])
           /\ p.switches \in Seq([name : Text, derail : BOOLEAN, base : Text, pair : Text])
           /\ p.crossovers \in Seq([name : Text, a : Text, b : Text])
           /\ p.controls \in Seq([name : Text]) /\ p.masts \in Seq([name : Text])
           /\ p.locks \in Seq(Text \X Text)
           /\ p.automatics \in Seq(OwnerEntries("automatics"))
           /\ p.controlPoints \in Seq(OwnerEntries("controlPoints"))
           /\ p.routes \in Seq(OwnerEntries("routes"))
           /\ p.default \in Nat
PROOF
<1>1. \A t \in Tables : p[t] \in Seq(Entries(t))
  BY DEF IsPlant
<1>2. {"circuits", "lines", "switches", "crossovers", "controls", "masts", "locks", "automatics",
       "controlPoints", "routes"} \subseteq Tables
  BY DEF Tables, ApplianceTables, OwnerTables
<1>3. /\ Entries("circuits") = [name : Text, timeout : Nat]
      /\ Entries("lines") = [name : Text, implicit : BOOLEAN, timeout : Nat]
      /\ Entries("switches") = [name : Text, derail : BOOLEAN, base : Text, pair : Text]
      /\ Entries("crossovers") = [name : Text, a : Text, b : Text]
      /\ Entries("controls") = [name : Text] /\ Entries("masts") = [name : Text]
      /\ Entries("locks") = Text \X Text
  BY DEF Entries
<1>4. /\ Entries("automatics") = OwnerEntries("automatics")
      /\ Entries("controlPoints") = OwnerEntries("controlPoints")
      /\ Entries("routes") = OwnerEntries("routes")
  BY DEF Entries, Kind
<1>5. p.default \in Nat
  BY DEF IsPlant
<1> HIDE DEF Entries, Tables
<1> QED
  BY <1>1, <1>2, <1>3, <1>4, <1>5

\* serialize() writes a file that can be read.
THEOREM SerializedIs ==
    ASSUME NEW p, IsPlant(p)
    PROVE  IsFile(Serialized(p))
PROOF
<1>1. PICK f : f = Serialized(p)
  OBVIOUS
<1>2. f.circuits \in Seq(Text) /\ f.controls \in Seq(Text) /\ f.masts \in Seq(Text)
  <2>1. OwnMasts(p) \in Seq([name : Text])
    BY PlantTypes, PickedType DEF OwnMasts
  <2>2. f.circuits = Names(p.circuits) /\ f.controls = Names(p.controls) /\ f.masts = Names(OwnMasts(p))
    BY <1>1 DEF Serialized
  <2>3. Names(p.circuits) \in Seq(Text)
    <3>1. \A x \in [name : Text, timeout : Nat] : x.name \in Text
      OBVIOUS
    <3> QED
      BY <3>1, PlantTypes, NamesAre
  <2>4. \A t \in Seq([name : Text]) : Names(t) \in Seq(Text)
    <3>1. \A x \in [name : Text] : x.name \in Text
      OBVIOUS
    <3> QED
      BY <3>1, NamesAre
  <2> QED
    BY <2>1, <2>2, <2>3, <2>4, PlantTypes
<1>3. f.lines \in Seq([name : Text, timeout : Nat])
  <2>1. PICK t, s : t = GivenLines(p) /\ s = f.lines
    OBVIOUS
  <2>2. t \in Seq([name : Text, implicit : BOOLEAN, timeout : Nat])
    BY <2>1, PlantTypes, PickedType DEF GivenLines
  <2>3. /\ Len(t) \in Nat /\ DOMAIN t = 1 .. Len(t)
        /\ \A i \in 1 .. Len(t) : t[i] \in [name : Text, implicit : BOOLEAN, timeout : Nat]
    BY <2>2, LenProperties, ElementOfSeq
  <2>4. s = [i \in DOMAIN t |-> [name |-> t[i].name, timeout |-> t[i].timeout]]
    BY <1>1, <2>1 DEF Serialized, Each
  <2>5. Mapped(s, t, [name : Text, timeout : Nat])
    BY <2>3, <2>4 DEF Mapped
  <2> QED
    BY <2>1, <2>2, <2>5, EachMade
<1>4. f.switches \in Seq(MachineParts) /\ f.derails \in Seq(MachineParts)
  <2>1. f.switches = WithCircuits(p, Machines(p, FALSE)) /\ f.derails = WithCircuits(p, Machines(p, TRUE))
    BY <1>1 DEF Serialized
  <2>2. \A d : Machines(p, d) \in Seq([name : Text, derail : BOOLEAN, base : Text, pair : Text])
    BY PlantTypes, PickedType DEF Machines
  <2> QED
    BY <2>1, <2>2, MachinesAre
<1>5. f.automatics \in Seq(AutomaticParts)
  <2>1. PICK t, s : t = p.automatics /\ s = f.automatics
    OBVIOUS
  <2>2. t \in Seq(OwnerEntries("automatics"))
    BY <2>1, PlantTypes
  <2>3. Len(t) \in Nat /\ DOMAIN t = 1 .. Len(t) /\ \A i \in 1 .. Len(t) : t[i] \in OwnerEntries("automatics")
    BY <2>2, LenProperties, ElementOfSeq
  <2>4. s = [i \in DOMAIN t |-> WrittenAutomatic(t[i])]
    BY <1>1, <2>1 DEF Serialized, Each
  <2>5. Mapped(s, t, AutomaticParts)
    BY <2>3, <2>4, PartsAre DEF Mapped
  <2> QED
    BY <2>1, <2>2, <2>5, EachMade
<1>6. f.controlPoints \in Seq(ControlPointParts)
  <2>1. PICK t, s : t = p.controlPoints /\ s = f.controlPoints
    OBVIOUS
  <2>2. t \in Seq(OwnerEntries("controlPoints"))
    BY <2>1, PlantTypes
  <2>3. Len(t) \in Nat /\ DOMAIN t = 1 .. Len(t) /\ \A i \in 1 .. Len(t) : t[i] \in OwnerEntries("controlPoints")
    BY <2>2, LenProperties, ElementOfSeq
  <2>4. s = [i \in DOMAIN t |-> WrittenControlPoint(t[i])]
    BY <1>1, <2>1 DEF Serialized, Each
  <2>5. Mapped(s, t, ControlPointParts)
    BY <2>3, <2>4, PartsAre DEF Mapped
  <2> QED
    BY <2>1, <2>2, <2>5, EachMade
<1>7. f.routes \in Seq(RouteParts)
  <2>1. PICK t, s : t = OwnRoutes(p) /\ s = f.routes
    OBVIOUS
  <2>2. t \in Seq(OwnerEntries("routes"))
    BY <2>1, PlantTypes, PickedType DEF OwnRoutes
  <2>3. Len(t) \in Nat /\ DOMAIN t = 1 .. Len(t) /\ \A i \in 1 .. Len(t) : t[i] \in OwnerEntries("routes")
    BY <2>2, LenProperties, ElementOfSeq
  <2>4. s = [i \in DOMAIN t |-> WrittenRoute(t[i])]
    BY <1>1, <2>1 DEF Serialized, Each
  <2>5. Mapped(s, t, RouteParts)
    BY <2>3, <2>4, PartsAre DEF Mapped
  <2> QED
    BY <2>1, <2>2, <2>5, EachMade
<1>8. f.default = p.default /\ f.crossovers = p.crossovers /\ f.locks = p.locks
  BY <1>1 DEF Serialized
<1> QED
  BY <1>1, <1>2, <1>3, <1>4, <1>5, <1>6, <1>7, <1>8, PlantTypes DEF IsFile

-----------------------------------------------------------------------------
(* The calls that are made from a file.                                    *)

\* What may be said of owners of a kind, with so many names.
Takes(owners, op, names) ==
    /\ \/ owners = "" /\ op \in Declarations
       \/ owners \in DOMAIN Bindings /\ op \in Bindings[owners]
    /\ Len(names) = Arity(op)

Calling(s) == IsSeq(s) /\ \A c \in ToSet(s) : Callable(c)

\* A call made up of text is one that can be made.
LEMMA CallIs ==
    ASSUME NEW op, NEW owners, NEW owner \in Text, NEW names \in Seq(Text), NEW with \in Text, NEW ms \in Nat,
           Takes(owners, op, names)
    PROVE  Callable(Call(op, owners, owner, names, with, ms))
  BY DEF Callable, Call, Takes

\* One, two or three names.
LEMMA ShortNames ==
    /\ \A n \in Text : <<n>> \in Seq(Text) /\ Len(<<n>>) = 1
    /\ \A n, m \in Text : <<n, m>> \in Seq(Text) /\ Len(<<n, m>>) = 2
    /\ \A n, m, k \in Text : <<n, m, k>> \in Seq(Text) /\ Len(<<n, m, k>>) = 3
  OBVIOUS

\* A call for every entry of a section.
Said(s, t) == s = [i \in DOMAIN t |-> s[i]] /\ \A i \in 1 .. Len(t) : Callable(s[i])

\* A section of calls that can be made.
LEMMA SectionCalls ==
    ASSUME NEW X, NEW t \in Seq(X), NEW s, Said(s, t)
    PROVE  Calling(s) /\ Len(s) = Len(t)
PROOF
<1>1. Len(t) \in Nat /\ DOMAIN t = 1 .. Len(t)
  BY LenProperties
<1>2. s = [i \in 1 .. Len(t) |-> s[i]] /\ \A i \in 1 .. Len(t) : s[i] \in {s[j] : j \in 1 .. Len(t)}
  BY <1>1 DEF Said
<1>3. s \in Seq({s[j] : j \in 1 .. Len(t)}) /\ Len(s) = Len(t) /\ DOMAIN s = 1 .. Len(t)
  BY <1>1, <1>2, MadeSeq
<1>4. IsSeq(s)
  BY <1>3, SeqIs
<1>5. \A c \in ToSet(s) : Callable(c)
  BY <1>3 DEF ToSet, Said
<1> QED
  BY <1>3, <1>4, <1>5 DEF Calling

\* Calls after calls.
LEMMA CallingJoined ==
    ASSUME NEW s, Calling(s), NEW t, Calling(t)
    PROVE  Calling(s \o t)
  BY Joined DEF Calling

\* A call for every name of a list.
LEMMA EachOfIs ==
    ASSUME NEW op, NEW owners, NEW owner, NEW ns \in Seq(Text), NEW s, s = EachOf(op, owners, owner, ns)
    PROVE  /\ IsSeq(s) /\ Len(s) = Len(ns) /\ Len(s) \in Nat
           /\ \A i \in 1 .. Len(ns) : s[i] = Bind(op, owners, owner, ns[i])
           /\ \A c \in ToSet(s) : \E n \in ToSet(ns) : c = Bind(op, owners, owner, n)
PROOF
<1>1. Len(ns) \in Nat /\ DOMAIN ns = 1 .. Len(ns)
  BY LenProperties
<1>2. s = [i \in 1 .. Len(ns) |-> Bind(op, owners, owner, ns[i])]
  BY <1>1 DEF EachOf, Each
<1> DEFINE Y == {Bind(op, owners, owner, ns[i]) : i \in 1 .. Len(ns)}
<1>3. s = [i \in 1 .. Len(ns) |-> s[i]] /\ \A i \in 1 .. Len(ns) : s[i] \in Y
  BY <1>2
<1>4. s \in Seq(Y) /\ Len(s) = Len(ns) /\ DOMAIN s = 1 .. Len(ns)
  BY <1>1, <1>3, MadeSeq
<1>5. ToSet(s) \subseteq Y /\ IsSeq(s)
  BY <1>4, SeqIs
<1>6. \A i \in 1 .. Len(ns) : ns[i] \in ToSet(ns)
  BY <1>1 DEF ToSet
<1> QED
  BY <1>1, <1>2, <1>4, <1>5, <1>6

\* These calls can be made.
LEMMA EachOfCalls ==
    ASSUME NEW op, NEW owners, NEW owner \in Text, NEW ns \in Seq(Text), Takes(owners, op, <<None>>)
    PROVE  Calling(EachOf(op, owners, owner, ns))
PROOF
<1>1. PICK s : s = EachOf(op, owners, owner, ns)
  OBVIOUS
<1>2. IsSeq(s) /\ \A c \in ToSet(s) : \E n \in ToSet(ns) : c = Bind(op, owners, owner, n)
  BY <1>1, EachOfIs
<1>3. ToSet(ns) \subseteq Text
  BY SeqIs
<1>4. None \in Text
  BY TextIs DEF Words, None
<1>5. ASSUME NEW n \in Text
      PROVE  Callable(Bind(op, owners, owner, n))
  <2>1. PICK names, no : names = <<n>> /\ no = None
    OBVIOUS
  <2>2. names \in Seq(Text) /\ Len(names) = 1 /\ Len(<<no>>) = 1 /\ no \in Text
    BY <1>4, <2>1, ShortNames
  <2>3. Takes(owners, op, names)
    BY <2>1, <2>2 DEF Takes
  <2>4. Callable(Call(op, owners, owner, names, no, 0))
    BY <2>2, <2>3, CallIs
  <2> QED
    BY <2>1, <2>4 DEF Bind
<1> QED
  BY <1>1, <1>2, <1>3, <1>5 DEF Calling

\* A call for a name that is there, and none for one that is not.
LEMMA GivenCalls ==
    ASSUME NEW op, NEW owners, NEW owner \in Text, NEW n \in Text, Takes(owners, op, <<None>>)
    PROVE  Calling(Given(op, owners, owner, n))
PROOF
<1>1. CASE n = None
  BY <1>1, ShortSeqs DEF Given, Calling
<1>2. CASE n # None
  <2>1. PICK ns : ns = <<n>>
    OBVIOUS
  <2>2. ns \in Seq(Text)
    BY <2>1, ShortNames
  <2>3. Calling(EachOf(op, owners, owner, ns))
    BY <2>2, EachOfCalls
  <2>4. Bind(op, owners, owner, n) \in ToSet(EachOf(op, owners, owner, ns))
    <3>1. PICK s : s = EachOf(op, owners, owner, ns)
      OBVIOUS
    <3>0. Len(ns) = 1 /\ ns[1] = n
      BY <2>1
    <3>4. IsSeq(s) /\ Len(s) = Len(ns) /\ \A i \in 1 .. Len(ns) : s[i] = Bind(op, owners, owner, ns[i])
      BY <2>2, <3>1, EachOfIs
    <3>2. IsSeq(s) /\ Len(s) = 1 /\ s[1] = Bind(op, owners, owner, n)
      BY <3>0, <3>4
    <3>3. s[1] \in ToSet(s)
      <4>1. PICK Y : Y = ToSet(s) /\ s \in Seq(Y)
        BY <3>2 DEF IsSeq
      <4>2. \A i \in 1 .. Len(s) : s[i] \in ToSet(s)
        BY <4>1, SeqIs
      <4> QED
        BY <3>2, <4>2
    <3> QED
      BY <3>1, <3>2, <3>3
  <2>5. Callable(Bind(op, owners, owner, n))
    BY <2>3, <2>4 DEF Calling
  <2>6. PICK b : b = Bind(op, owners, owner, n)
    OBVIOUS
  <2>7. Given(op, owners, owner, n) = <<b>>
    BY <1>2, <2>6 DEF Given
  <2> QED
    BY <2>5, <2>6, <2>7, ShortSeqs DEF Calling
<1> QED
  BY <1>1, <1>2

\* The declarations take one, two or three names.
LEMMA DeclareIs ==
    ASSUME NEW op \in Declarations, NEW names \in Seq(Text), Len(names) = Arity(op),
           NEW with \in Text, NEW ms \in Nat
    PROVE  Callable(Call(op, "", None, names, with, ms))
PROOF
<1>1. Takes("", op, names)
  BY DEF Takes
<1>2. None \in Text
  BY TextIs DEF Words, None
<1> QED
  BY <1>1, <1>2, CallIs

\* How many names the declarations take.
LEMMA Arities ==
    /\ \A op \in {"addTrackCircuit", "addLineInput", "addSwitch", "addSignalControl", "addSignalMast",
                  "addAutomaticSignal", "addControlPointLine", "route"} : op \in Declarations /\ Arity(op) = 1
    /\ \A op \in {"addDerail", "bindDetectorLock"} : op \in Declarations /\ Arity(op) = 2
    /\ "addCrossover" \in Declarations /\ Arity("addCrossover") = 3
  BY DEF Declarations, Arity

\* The declarations of appliances: none of them declares an owner.
QuietCall(c) ==
    /\ Callable(c) /\ c.owners = ""
    /\ c.op \notin {"addAutomaticSignal", "addControlPointLine", "route"}
Quiet(s) == IsSeq(s) /\ \A c \in ToSet(s) : QuietCall(c)
Hushed(s, t) == s = [i \in DOMAIN t |-> s[i]] /\ \A i \in 1 .. Len(t) : QuietCall(s[i])
AppliancesOf(f) ==
    Each(f.circuits, LAMBDA n : Declare("addTrackCircuit", <<n>>))
    \o Each(f.lines, LAMBDA l : Call("addLineInput", "", None, <<l.name>>, None, l.timeout))
    \o MachineCalls(f) \o SignalCalls(f) \o LockCalls(f)
AutomaticsOf(f) == Each(f.automatics, LAMBDA a : Declare("addAutomaticSignal", <<a.name>>))

\* A declaration of an appliance declares no owner.
LEMMA QuietIs ==
    ASSUME NEW op \in Declarations, op \notin {"addAutomaticSignal", "addControlPointLine", "route"},
           NEW names \in Seq(Text), Len(names) = Arity(op), NEW with \in Text, NEW ms \in Nat
    PROVE  QuietCall(Call(op, "", None, names, with, ms))
PROOF
<1>1. PICK c : c = Call(op, "", None, names, with, ms)
  OBVIOUS
<1>2. Callable(c)
  BY <1>1, DeclareIs
<1>3. c.owners = "" /\ c.op = op
  BY <1>1 DEF Call
<1> QED
  BY <1>1, <1>2, <1>3 DEF QuietCall

\* A section of such declarations.
LEMMA QuietSection ==
    ASSUME NEW X, NEW t \in Seq(X), NEW s, Hushed(s, t)
    PROVE  Quiet(s)
PROOF
<1>1. Len(t) \in Nat /\ DOMAIN t = 1 .. Len(t)
  BY LenProperties
<1>2. s = [i \in 1 .. Len(t) |-> s[i]] /\ \A i \in 1 .. Len(t) : s[i] \in {s[j] : j \in 1 .. Len(t)}
  BY <1>1 DEF Hushed
<1>3. s \in Seq({s[j] : j \in 1 .. Len(t)}) /\ Len(s) = Len(t) /\ DOMAIN s = 1 .. Len(t)
  BY <1>1, <1>2, MadeSeq
<1>4. IsSeq(s)
  BY <1>3, SeqIs
<1>5. \A c \in ToSet(s) : QuietCall(c)
  BY <1>3 DEF ToSet, Hushed
<1> QED
  BY <1>4, <1>5 DEF Quiet

\* Such declarations after such declarations.
LEMMA QuietJoined ==
    ASSUME NEW s, Quiet(s), NEW t, Quiet(t)
    PROVE  Quiet(s \o t)
  BY Joined DEF Quiet

\* Such declarations can be made.
LEMMA QuietCalling ==
    ASSUME NEW s, Quiet(s)
    PROVE  Calling(s)
  BY DEF Quiet, Calling, QuietCall

\* The file declares circuits, lines, machines, controls, masts and detectors first.
LEMMA ApplianceCalls ==
    ASSUME NEW f, IsFile(f)
    PROVE  Quiet(AppliancesOf(f))
PROOF
<1>0. PICK no : no = None
  OBVIOUS
<1>1. no \in Text
  BY <1>0, TextIs DEF Words, None
<1>2. ASSUME NEW op, op \in {"addTrackCircuit", "addSignalControl", "addSignalMast"},
             NEW n \in Text
      PROVE  QuietCall(Declare(op, <<n>>))
  <2>1. PICK names : names = <<n>> /\ names \in Seq(Text) /\ Len(names) = 1
    BY ShortNames
  <2>2. op \in Declarations /\ Arity(op) = 1 /\ op \notin {"addAutomaticSignal", "addControlPointLine", "route"}
    BY <1>2, Arities
  <2>3. QuietCall(Call(op, "", None, names, no, 0))
    BY <1>1, <2>1, <2>2, QuietIs
  <2> QED
    BY <1>0, <2>1, <2>3 DEF Declare
<1>3. ASSUME NEW op, op \in {"addTrackCircuit", "addSignalControl", "addSignalMast"}, NEW t \in Seq(Text)
      PROVE  Quiet(Each(t, LAMBDA n : Declare(op, <<n>>)))
  <2>1. PICK s : s = Each(t, LAMBDA n : Declare(op, <<n>>))
    OBVIOUS
  <2>2. DOMAIN t = 1 .. Len(t) /\ \A i \in 1 .. Len(t) : t[i] \in Text
    BY LenProperties, ElementOfSeq
  <2>3. s = [i \in DOMAIN t |-> Declare(op, <<t[i]>>)]
    BY <2>1 DEF Each
  <2>4. Hushed(s, t)
    BY <1>2, <1>3, <2>2, <2>3 DEF Hushed
  <2> QED
    BY <2>1, <2>4, QuietSection
<1>4. Quiet(Each(f.circuits, LAMBDA n : Declare("addTrackCircuit", <<n>>)))
  BY <1>3 DEF IsFile
<1>5. Quiet(Each(f.lines, LAMBDA l : Call("addLineInput", "", None, <<l.name>>, None, l.timeout)))
  <2>1. PICK s, t : s = Each(f.lines, LAMBDA l : Call("addLineInput", "", None, <<l.name>>, None, l.timeout))
                    /\ t = f.lines
    OBVIOUS
  <2>2. t \in Seq([name : Text, timeout : Nat])
    BY <2>1 DEF IsFile
  <2>3. DOMAIN t = 1 .. Len(t) /\ \A i \in 1 .. Len(t) : t[i] \in [name : Text, timeout : Nat]
    BY <2>2, LenProperties, ElementOfSeq
  <2>4. s = [i \in DOMAIN t |-> Call("addLineInput", "", None, <<t[i].name>>, no, t[i].timeout)]
    BY <1>0, <2>1 DEF Each
  <2>5. ASSUME NEW i \in 1 .. Len(t)
        PROVE  QuietCall(s[i])
    <3>1. PICK names : names = <<t[i].name>> /\ names \in Seq(Text) /\ Len(names) = 1
      BY <2>3, ShortNames
    <3>2. s[i] = Call("addLineInput", "", None, names, no, t[i].timeout)
      BY <2>3, <2>4, <3>1
    <3>3. t[i].timeout \in Nat
      BY <2>3
    <3> QED
      BY <1>1, <3>1, <3>2, <3>3, Arities, QuietIs
  <2>6. Hushed(s, t)
    BY <2>4, <2>5 DEF Hushed
  <2> QED
    BY <2>1, <2>2, <2>6, QuietSection
<1>6. Quiet(Each(f.switches, LAMBDA s : Call("addSwitch", "", None, <<s.name>>, s.os, 0)))
  <2>1. PICK s, t : s = Each(f.switches, LAMBDA x : Call("addSwitch", "", None, <<x.name>>, x.os, 0))
                    /\ t = f.switches
    OBVIOUS
  <2>2. t \in Seq(MachineParts)
    BY <2>1 DEF IsFile
  <2>3. DOMAIN t = 1 .. Len(t) /\ \A i \in 1 .. Len(t) : t[i] \in MachineParts
    BY <2>2, LenProperties, ElementOfSeq
  <2>4. s = [i \in DOMAIN t |-> Call("addSwitch", "", None, <<t[i].name>>, t[i].os, 0)]
    BY <2>1 DEF Each
  <2>5. ASSUME NEW i \in 1 .. Len(t)
        PROVE  QuietCall(s[i])
    <3>0. t[i].name \in Text /\ t[i].os \in Text
      BY <2>3 DEF MachineParts
    <3>1. PICK names, os : names = <<t[i].name>> /\ names \in Seq(Text) /\ Len(names) = 1 /\ os = t[i].os
      BY <3>0, ShortNames
    <3>2. s[i] = Call("addSwitch", "", None, names, os, 0)
      BY <2>3, <2>4, <3>1
    <3> QED
      BY <3>0, <3>1, <3>2, Arities, QuietIs
  <2>6. Hushed(s, t)
    BY <2>4, <2>5 DEF Hushed
  <2> QED
    BY <2>1, <2>2, <2>6, QuietSection
<1>7. Quiet(Each(f.derails, LAMBDA s : Call("addDerail", "", None, <<s.name, s.base>>, s.os, 0)))
  <2>1. PICK s, t : s = Each(f.derails, LAMBDA x : Call("addDerail", "", None, <<x.name, x.base>>, x.os, 0))
                    /\ t = f.derails
    OBVIOUS
  <2>2. t \in Seq(MachineParts)
    BY <2>1 DEF IsFile
  <2>3. DOMAIN t = 1 .. Len(t) /\ \A i \in 1 .. Len(t) : t[i] \in MachineParts
    BY <2>2, LenProperties, ElementOfSeq
  <2>4. s = [i \in DOMAIN t |-> Call("addDerail", "", None, <<t[i].name, t[i].base>>, t[i].os, 0)]
    BY <2>1 DEF Each
  <2>5. ASSUME NEW i \in 1 .. Len(t)
        PROVE  QuietCall(s[i])
    <3>0. t[i].name \in Text /\ t[i].os \in Text /\ t[i].base \in Text
      BY <2>3 DEF MachineParts
    <3>1. PICK names, os : /\ names = <<t[i].name, t[i].base>> /\ names \in Seq(Text) /\ Len(names) = 2
                           /\ os = t[i].os
      BY <3>0, ShortNames
    <3>2. s[i] = Call("addDerail", "", None, names, os, 0)
      BY <2>3, <2>4, <3>1
    <3> QED
      BY <3>0, <3>1, <3>2, Arities, QuietIs
  <2>6. Hushed(s, t)
    BY <2>4, <2>5 DEF Hushed
  <2> QED
    BY <2>1, <2>2, <2>6, QuietSection
<1>8. Quiet(Each(f.crossovers, LAMBDA x : Declare("addCrossover", <<x.name, x.a, x.b>>)))
  <2>1. PICK s, t : s = Each(f.crossovers, LAMBDA x : Declare("addCrossover", <<x.name, x.a, x.b>>))
                    /\ t = f.crossovers
    OBVIOUS
  <2>2. t \in Seq([name : Text, a : Text, b : Text])
    BY <2>1 DEF IsFile
  <2>3. DOMAIN t = 1 .. Len(t) /\ \A i \in 1 .. Len(t) : t[i] \in [name : Text, a : Text, b : Text]
    BY <2>2, LenProperties, ElementOfSeq
  <2>4. s = [i \in DOMAIN t |-> Declare("addCrossover", <<t[i].name, t[i].a, t[i].b>>)]
    BY <2>1 DEF Each
  <2>5. ASSUME NEW i \in 1 .. Len(t)
        PROVE  QuietCall(s[i])
    <3>0. t[i].name \in Text /\ t[i].a \in Text /\ t[i].b \in Text
      BY <2>3
    <3>1. PICK names : names = <<t[i].name, t[i].a, t[i].b>> /\ names \in Seq(Text) /\ Len(names) = 3
      BY <3>0, ShortNames
    <3>2. s[i] = Call("addCrossover", "", None, names, no, 0)
      BY <1>0, <2>3, <2>4, <3>1 DEF Declare
    <3> QED
      BY <1>1, <3>1, <3>2, Arities, QuietIs
  <2>6. Hushed(s, t)
    BY <2>4, <2>5 DEF Hushed
  <2> QED
    BY <2>1, <2>2, <2>6, QuietSection
<1>9. Quiet(Each(f.controls, LAMBDA n : Declare("addSignalControl", <<n>>)))
      /\ Quiet(Each(f.masts, LAMBDA n : Declare("addSignalMast", <<n>>)))
  BY <1>3 DEF IsFile
<1>10. Quiet(LockCalls(f))
  <2>1. PICK s, t : s = LockCalls(f) /\ t = f.locks
    OBVIOUS
  <2>2. t \in Seq(Text \X Text)
    BY <2>1 DEF IsFile
  <2>3. DOMAIN t = 1 .. Len(t) /\ \A i \in 1 .. Len(t) : t[i] \in Text \X Text
    BY <2>2, LenProperties, ElementOfSeq
  <2>4. s = [i \in DOMAIN t |-> Declare("bindDetectorLock", t[i])]
    BY <2>1 DEF LockCalls, Each
  <2>5. ASSUME NEW i \in 1 .. Len(t)
        PROVE  QuietCall(s[i])
    <3>0. PICK sw, tc : sw \in Text /\ tc \in Text /\ t[i] = <<sw, tc>>
      BY <2>3
    <3>1. PICK names : names = t[i] /\ names \in Seq(Text) /\ Len(names) = 2
      BY <3>0, ShortNames
    <3>2. s[i] = Call("bindDetectorLock", "", None, names, no, 0)
      BY <1>0, <2>3, <2>4, <3>1 DEF Declare
    <3> QED
      BY <1>1, <3>1, <3>2, Arities, QuietIs
  <2>6. Hushed(s, t)
    BY <2>4, <2>5 DEF Hushed
  <2> QED
    BY <2>1, <2>2, <2>6, QuietSection
<1>11. Quiet(MachineCalls(f))
  BY <1>6, <1>7, <1>8, QuietJoined DEF MachineCalls
<1>12. Quiet(SignalCalls(f))
  BY <1>9, QuietJoined DEF SignalCalls
<1> QED
  BY <1>4, <1>5, <1>10, <1>11, <1>12, QuietJoined DEF AppliancesOf

\* Then come the automatic signals.
LEMMA DeclarationCalls ==
    ASSUME NEW f, IsFile(f)
    PROVE  /\ Calling(DeclarationsOf(f)) /\ Calling(AutomaticsOf(f))
           /\ DeclarationsOf(f) = AppliancesOf(f) \o AutomaticsOf(f)
           /\ Len(AutomaticsOf(f)) = Len(f.automatics) /\ Len(f.automatics) \in Nat
           /\ \A i \in 1 .. Len(f.automatics) :
                AutomaticsOf(f)[i] = Declare("addAutomaticSignal", <<f.automatics[i].name>>)
PROOF
<1>1. PICK s, t : s = AutomaticsOf(f) /\ t = f.automatics
  OBVIOUS
<1>2. t \in Seq(AutomaticParts)
  BY <1>1 DEF IsFile
<1>3. /\ Len(t) \in Nat /\ DOMAIN t = 1 .. Len(t)
      /\ \A i \in 1 .. Len(t) : t[i] \in AutomaticParts
  BY <1>2, LenProperties, ElementOfSeq
<1>4. s = [i \in DOMAIN t |-> Declare("addAutomaticSignal", <<t[i].name>>)]
  BY <1>1 DEF AutomaticsOf, Each
<1>5. ASSUME NEW i \in 1 .. Len(t)
      PROVE  Callable(s[i])
  <2>1. t[i].name \in Text
    BY <1>3 DEF AutomaticParts
  <2>2. PICK names, no : /\ names = <<t[i].name>> /\ names \in Seq(Text) /\ Len(names) = 1
                         /\ no = None
    BY <2>1, ShortNames
  <2>3. no \in Text
    BY <2>2, TextIs DEF Words, None
  <2>4. s[i] = Call("addAutomaticSignal", "", None, names, no, 0)
    BY <1>3, <1>4, <2>2 DEF Declare
  <2> QED
    BY <2>2, <2>3, <2>4, Arities, DeclareIs
<1>6. Said(s, t)
  BY <1>4, <1>5 DEF Said
<1>7. Calling(s) /\ Len(s) = Len(t)
  BY <1>2, <1>6, SectionCalls
<1>8. Calling(AppliancesOf(f))
  BY ApplianceCalls, QuietCalling
<1>9. DeclarationsOf(f) = AppliancesOf(f) \o AutomaticsOf(f)
  BY DEF DeclarationsOf, AppliancesOf, AutomaticsOf
<1>10. Calling(DeclarationsOf(f))
  BY <1>1, <1>7, <1>8, <1>9, CallingJoined
<1> QED
  BY <1>1, <1>3, <1>4, <1>7, <1>9, <1>10

\* The calls for one owner.
LEMMA OpsTaken ==
    /\ \A op \in {"governs", "approach", "opposing"} : Takes("automatics", op, <<None>>)
    /\ \A n, m : Takes("automatics", "reads", <<n, m>>)
    /\ \A op \in {"home", "governs", "block", "leaving", "traffic"} : Takes("controlPoints", op, <<None>>)
    /\ \A op \in {"governedBy", "displays", "clearBlock", "homeFact", "proceed", "entrance", "approaching"} :
         Takes("routes", op, <<None>>)
    /\ \A n : Takes("routes", "align", <<n>>)
PROOF
<1>1. PICK no : no = None
  OBVIOUS
<1>2. Len(<<no>>) = 1 /\ \A n, m : Len(<<n>>) = 1 /\ Len(<<n, m>>) = 2
  OBVIOUS
<1>3. /\ \A op \in {"governs", "approach", "opposing"} :
           "automatics" \in DOMAIN Bindings /\ op \in Bindings["automatics"] /\ Arity(op) = 1
      /\ "automatics" \in DOMAIN Bindings /\ "reads" \in Bindings["automatics"] /\ Arity("reads") = 2
      /\ \A op \in {"home", "governs", "block", "leaving", "traffic"} :
           "controlPoints" \in DOMAIN Bindings /\ op \in Bindings["controlPoints"] /\ Arity(op) = 1
      /\ \A op \in {"governedBy", "displays", "clearBlock", "homeFact", "proceed", "entrance", "approaching",
                    "align"} :
           "routes" \in DOMAIN Bindings /\ op \in Bindings["routes"] /\ Arity(op) = 1
  BY DEF Bindings, Arity
<1> QED
  BY <1>1, <1>2, <1>3 DEF Takes

\* What an automatic signal reads is one call.
ReadsCalls(a) ==
    IF a.h = None /\ a.d = None THEN <<>>
    ELSE <<Call("reads", "automatics", a.name, <<a.h, a.d>>, None, 0)>>

\* The call that gives an automatic signal its H and D.
LEMMA ReadsCalling ==
    ASSUME NEW a \in AutomaticParts
    PROVE  Calling(ReadsCalls(a))
PROOF
<1>0. a.name \in Text /\ a.h \in Text /\ a.d \in Text
  BY DEF AutomaticParts
<1>1. CASE a.h = None /\ a.d = None
  BY <1>1, ShortSeqs DEF Calling, ReadsCalls
<1>2. CASE ~(a.h = None /\ a.d = None)
  <2>1. PICK names, no : names = <<a.h, a.d>> /\ no = None
    OBVIOUS
  <2>2. names \in Seq(Text) /\ Len(names) = 2 /\ no \in Text /\ Takes("automatics", "reads", names)
    BY <1>0, <2>1, ShortNames, OpsTaken, TextIs DEF Words, None
  <2>3. PICK c : c = Call("reads", "automatics", a.name, names, no, 0)
    OBVIOUS
  <2>4. Callable(c)
    BY <1>0, <2>2, <2>3, CallIs
  <2>5. Calling(<<c>>)
    BY <2>4, ShortSeqs DEF Calling
  <2> QED
    BY <1>2, <2>1, <2>3, <2>5 DEF ReadsCalls
<1> QED
  BY <1>1, <1>2

\* The calls for an automatic signal can be made.
LEMMA AutomaticCallsAre ==
    ASSUME NEW a \in AutomaticParts
    PROVE  Calling(AutomaticCalls(a))
PROOF
<1>1. /\ a.name \in Text /\ a.governs \in Seq(Text) /\ a.approach \in Seq(Text)
      /\ a.h \in Text /\ a.d \in Text /\ a.opposing \in Text
  BY DEF AutomaticParts, Listed
<1>2. /\ Calling(EachOf("governs", "automatics", a.name, a.governs))
      /\ Calling(EachOf("approach", "automatics", a.name, a.approach))
  BY <1>1, EachOfCalls, OpsTaken
<1>3. Calling(ReadsCalls(a))
  BY ReadsCalling
<1>4. Calling(Given("opposing", "automatics", a.name, a.opposing))
  BY <1>1, GivenCalls, OpsTaken
<1> QED
  BY <1>2, <1>3, <1>4, CallingJoined DEF AutomaticCalls, ReadsCalls

\* The declaration that a group begins with.
LEMMA DeclarationIs ==
    ASSUME NEW op \in {"addControlPointLine", "route"}, NEW n \in Text
    PROVE  Calling(<<Declare(op, <<n>>)>>)
PROOF
<1>1. PICK names, no : names = <<n>> /\ no = None
  OBVIOUS
<1>2. names \in Seq(Text) /\ Len(names) = 1 /\ no \in Text
  BY <1>1, ShortNames, TextIs DEF Words, None
<1>3. PICK c : c = Call(op, "", None, names, no, 0)
  OBVIOUS
<1>4. Callable(c)
  BY <1>2, <1>3, Arities, DeclareIs
<1>5. Calling(<<c>>)
  BY <1>4, ShortSeqs DEF Calling
<1> QED
  BY <1>1, <1>3, <1>5 DEF Declare

\* The direction of traffic is given, whatever it is.
LEMMA TrafficCalling ==
    ASSUME NEW n \in Text, NEW x \in Text
    PROVE  Calling(<<Bind("traffic", "controlPoints", n, x)>>)
PROOF
<1>1. PICK names, no : names = <<x>> /\ no = None
  OBVIOUS
<1>2. names \in Seq(Text) /\ Len(names) = 1 /\ no \in Text
  BY <1>1, ShortNames, TextIs DEF Words, None
<1>3. Takes("controlPoints", "traffic", names)
  <2>1. Takes("controlPoints", "traffic", <<None>>) /\ Len(<<no>>) = 1
    BY OpsTaken
  <2> QED
    BY <1>1, <1>2, <2>1 DEF Takes
<1>4. PICK c : c = Call("traffic", "controlPoints", n, names, no, 0)
  OBVIOUS
<1>5. Callable(c)
  BY <1>2, <1>3, <1>4, CallIs
<1>6. Calling(<<c>>)
  BY <1>5, ShortSeqs DEF Calling
<1> QED
  BY <1>1, <1>4, <1>6 DEF Bind

\* The calls for a control point line can be made.
LEMMA ControlPointCallsAre ==
    ASSUME NEW l \in ControlPointParts
    PROVE  Calling(ControlPointCalls(l))
PROOF
<1>1. /\ l.name \in Text /\ l.governs \in Seq(Text) /\ l.block \in Seq(Text) /\ l.leaving \in Seq(Text)
      /\ l.home \in Text /\ l.traffic \in Text
  BY DEF ControlPointParts, Listed
<1>2. Calling(<<Declare("addControlPointLine", <<l.name>>)>>)
  BY <1>1, DeclarationIs
<1>3. Calling(Given("home", "controlPoints", l.name, l.home))
  BY <1>1, GivenCalls, OpsTaken
<1>4. /\ Calling(EachOf("governs", "controlPoints", l.name, l.governs))
      /\ Calling(EachOf("block", "controlPoints", l.name, l.block))
      /\ Calling(EachOf("leaving", "controlPoints", l.name, l.leaving))
  BY <1>1, EachOfCalls, OpsTaken
<1>5. Calling(<<Bind("traffic", "controlPoints", l.name, l.traffic)>>)
  BY <1>1, TrafficCalling
<1> QED
  BY <1>2, <1>3, <1>4, <1>5, CallingJoined DEF ControlPointCalls

\* The switches of a route, each with the circuit that releases it.
AlignCalls(r) == Each(r.aligns, LAMBDA t : Call("align", "routes", r.name, <<t[1]>>, t[2], 0))

\* The calls that align the switches of a route: no more than there is room for.
LEMMA AlignsAreCalls ==
    ASSUME NEW r \in RouteParts, NEW s, s = AlignCalls(r)
    PROVE  /\ Calling(s) /\ Len(s) <= MaxRouteTerms
           /\ \A c \in ToSet(s) : c.op = "align" /\ c.owners = "routes" /\ c.owner = r.name
PROOF
<1>1. PICK t : t = r.aligns
  OBVIOUS
<1>2. t \in Seq(Text \X Text) /\ Len(t) <= MaxRouteTerms /\ r.name \in Text
  BY <1>1 DEF RouteParts, Listed
<1>3. DOMAIN t = 1 .. Len(t) /\ \A i \in 1 .. Len(t) : t[i] \in Text \X Text
  BY <1>2, LenProperties, ElementOfSeq
<1>4. s = [i \in DOMAIN t |-> Call("align", "routes", r.name, <<t[i][1]>>, t[i][2], 0)]
  BY <1>1 DEF Each, AlignCalls
<1>5. ASSUME NEW i \in 1 .. Len(t)
      PROVE  /\ Callable(s[i])
             /\ s[i].op = "align" /\ s[i].owners = "routes" /\ s[i].owner = r.name
  <2>1. t[i][1] \in Text /\ t[i][2] \in Text
    BY <1>3
  <2>2. PICK names, rel : names = <<t[i][1]>> /\ names \in Seq(Text) /\ rel = t[i][2]
    BY <2>1, ShortNames
  <2>3. s[i] = Call("align", "routes", r.name, names, rel, 0)
    BY <1>3, <1>4, <2>2
  <2>4. Takes("routes", "align", names)
    BY <2>2, OpsTaken
  <2>5. Callable(s[i])
    BY <1>2, <2>1, <2>2, <2>3, <2>4, CallIs
  <2> QED
    BY <2>3, <2>5 DEF Call
<1>6. Said(s, t)
  BY <1>4, <1>5 DEF Said
<1>7. Calling(s) /\ Len(s) = Len(t)
  BY <1>2, <1>6, SectionCalls
<1>8. DOMAIN s = 1 .. Len(t)
  BY <1>3, <1>4
<1>9. \A c \in ToSet(s) : c.op = "align" /\ c.owners = "routes" /\ c.owner = r.name
  BY <1>5, <1>8 DEF ToSet
<1> QED
  BY <1>2, <1>7, <1>9

\* These calls can be made.
LEMMA AlignsCalling ==
    ASSUME NEW r \in RouteParts
    PROVE  Calling(AlignCalls(r))
  BY AlignsAreCalls

\* The calls for a route can be made.
LEMMA RouteCallsAre ==
    ASSUME NEW r \in RouteParts
    PROVE  Calling(RouteCalls(r))
PROOF
<1>1. /\ r.name \in Text /\ r.governedBy \in Text /\ r.displays \in Text /\ r.proceed \in Text
      /\ r.entrance \in Text /\ r.approaching \in Text
      /\ r.aligns \in Seq(Text \X Text) /\ r.clears \in Seq(Text) /\ r.home \in Seq(Text)
  BY DEF RouteParts, Listed
<1>2. Calling(<<Declare("route", <<r.name>>)>>)
  BY <1>1, DeclarationIs
<1>3. /\ Calling(Given("governedBy", "routes", r.name, r.governedBy))
      /\ Calling(Given("displays", "routes", r.name, r.displays))
      /\ Calling(Given("proceed", "routes", r.name, r.proceed))
      /\ Calling(Given("entrance", "routes", r.name, r.entrance))
      /\ Calling(Given("approaching", "routes", r.name, r.approaching))
  BY <1>1, GivenCalls, OpsTaken
<1>4. /\ Calling(EachOf("clearBlock", "routes", r.name, r.clears))
      /\ Calling(EachOf("homeFact", "routes", r.name, r.home))
  BY <1>1, EachOfCalls, OpsTaken
<1>5. Calling(AlignCalls(r))
  BY AlignsCalling
<1> QED
  BY <1>2, <1>3, <1>4, <1>5, CallingJoined DEF RouteCalls, AlignCalls

\* Every group of calls is one of calls that the interface takes.
LEMMA CallsAre ==
    ASSUME NEW f, IsFile(f)
    PROVE  /\ IsSeq(CallsOf(f)) /\ \A group \in ToSet(CallsOf(f)) : Calling(group)
           /\ CallsOf(f) = ((<<DeclarationsOf(f)>> \o Each(f.automatics, AutomaticCalls))
                             \o Each(f.controlPoints, ControlPointCalls)) \o Each(f.routes, RouteCalls)
PROOF
<1> DEFINE Groups(s) == IsSeq(s) /\ \A group \in ToSet(s) : Calling(group)
<1>1. ASSUME NEW s, Groups(s), NEW t, Groups(t)
      PROVE  Groups(s \o t)
  BY <1>1, Joined
<1>2. ASSUME NEW X, NEW t \in Seq(X), NEW s, Mapped(s, t, {x \in ToSet(s) : Calling(x)})
      PROVE  Groups(s)
  <2>1. PICK Y : Y = {x \in ToSet(s) : Calling(x)}
    OBVIOUS
  <2>2. s \in Seq(Y)
    BY <1>2, <2>1, EachMade
  <2>3. IsSeq(s) /\ ToSet(s) \subseteq Y
    BY <2>2, SeqIs
  <2> QED
    BY <2>1, <2>3
<1>3. Groups(<<DeclarationsOf(f)>>)
  BY DeclarationCalls, ShortSeqs
<1> HIDE DEF Groups
<1>4. Groups(Each(f.automatics, AutomaticCalls))
  <2>1. PICK s, t : s = Each(f.automatics, AutomaticCalls) /\ t = f.automatics
    OBVIOUS
  <2>2. t \in Seq(AutomaticParts)
    BY <2>1 DEF IsFile
  <2>3. DOMAIN t = 1 .. Len(t) /\ \A i \in 1 .. Len(t) : t[i] \in AutomaticParts
    BY <2>2, LenProperties, ElementOfSeq
  <2>4. s = [i \in DOMAIN t |-> AutomaticCalls(t[i])]
    BY <2>1 DEF Each
  <2>5. Mapped(s, t, {x \in ToSet(s) : Calling(x)})
    BY <2>3, <2>4, AutomaticCallsAre DEF Mapped, ToSet
  <2> QED
    BY <1>2, <2>1, <2>2, <2>5
<1>5. Groups(Each(f.controlPoints, ControlPointCalls))
  <2>1. PICK s, t : s = Each(f.controlPoints, ControlPointCalls) /\ t = f.controlPoints
    OBVIOUS
  <2>2. t \in Seq(ControlPointParts)
    BY <2>1 DEF IsFile
  <2>3. DOMAIN t = 1 .. Len(t) /\ \A i \in 1 .. Len(t) : t[i] \in ControlPointParts
    BY <2>2, LenProperties, ElementOfSeq
  <2>4. s = [i \in DOMAIN t |-> ControlPointCalls(t[i])]
    BY <2>1 DEF Each
  <2>5. Mapped(s, t, {x \in ToSet(s) : Calling(x)})
    BY <2>3, <2>4, ControlPointCallsAre DEF Mapped, ToSet
  <2> QED
    BY <1>2, <2>1, <2>2, <2>5
<1>6. Groups(Each(f.routes, RouteCalls))
  <2>1. PICK s, t : s = Each(f.routes, RouteCalls) /\ t = f.routes
    OBVIOUS
  <2>2. t \in Seq(RouteParts)
    BY <2>1 DEF IsFile
  <2>3. DOMAIN t = 1 .. Len(t) /\ \A i \in 1 .. Len(t) : t[i] \in RouteParts
    BY <2>2, LenProperties, ElementOfSeq
  <2>4. s = [i \in DOMAIN t |-> RouteCalls(t[i])]
    BY <2>1 DEF Each
  <2>5. Mapped(s, t, {x \in ToSet(s) : Calling(x)})
    BY <2>3, <2>4, RouteCallsAre DEF Mapped, ToSet
  <2> QED
    BY <1>2, <2>1, <2>2, <2>5
<1>7. Groups(((<<DeclarationsOf(f)>> \o Each(f.automatics, AutomaticCalls))
               \o Each(f.controlPoints, ControlPointCalls)) \o Each(f.routes, RouteCalls))
  BY <1>1, <1>3, <1>4, <1>5, <1>6
<1> QED
  BY <1>7 DEF CallsOf, Groups

-----------------------------------------------------------------------------
(* Making calls and reading files: the tables grow, and what is bound anew *)
(* is in them.                                                             *)

Grows(p, q) ==
    /\ IsPlant(q) /\ NamesGrow(p, q) /\ (Clean(p) => Clean(q))
    /\ \A b : HasBond(q, b) => HasBond(p, b) \/ InTables(q, b)

\* A plant that nothing changes.
LEMMA GrowsSame ==
    ASSUME NEW p, IsPlant(p)
    PROVE  Grows(p, p)
PROOF
<1>1. Keeps(p, p, {}, {}, {})
  BY KeepsSame
<1> QED
  BY <1>1 DEF Grows, Keeps

\* Every change lets the tables grow, and what is bound leads into them.
LEMMA KeepsGrows ==
    ASSUME NEW p, NEW q, NEW W, NEW E, NEW D, Keeps(p, q, W, E, D)
    PROVE  Grows(p, q)
PROOF
<1>1. Clean(q) <=> Clean(p)
  BY KeptFields
<1> QED
  BY <1>1 DEF Grows, Keeps

\* Tables grow, and grow again.
LEMMA NamesGrowBoth ==
    ASSUME NEW p, NEW q, NEW r, IsPlant(p), IsPlant(q), IsPlant(r), NamesGrow(p, q), NamesGrow(q, r)
    PROVE  NamesGrow(p, r)
PROOF
<1>1. \A t \in NamedTables : Len(p[t]) \in Nat /\ Len(q[t]) \in Nat /\ Len(r[t]) \in Nat
  BY TableTypes DEF NamedTables, Tables, Owners, OwnerTables
<1>2. ASSUME NEW t \in NamedTables
      PROVE  Len(p[t]) <= Len(r[t]) /\ \A i \in 1 .. Len(p[t]) : r[t][i].name = p[t][i].name
  <2>1. /\ Len(p[t]) <= Len(q[t]) /\ \A i \in 1 .. Len(p[t]) : q[t][i].name = p[t][i].name
        /\ Len(q[t]) <= Len(r[t]) /\ \A i \in 1 .. Len(q[t]) : r[t][i].name = q[t][i].name
    BY DEF NamesGrow
  <2> QED
    BY <1>1, <2>1
<1> QED
  BY <1>2 DEF NamesGrow

\* A plant grows, and grows again.
LEMMA GrowsBoth ==
    ASSUME NEW p, NEW q, NEW r, IsPlant(p), Grows(p, q), Grows(q, r)
    PROVE  Grows(p, r)
PROOF
<1>1. IsPlant(q) /\ IsPlant(r) /\ NamesGrow(p, q) /\ NamesGrow(q, r)
  BY DEF Grows
<1>2. NamesGrow(p, r)
  BY <1>1, NamesGrowBoth
<1>3. ASSUME NEW b, HasBond(r, b)
      PROVE  HasBond(p, b) \/ InTables(r, b)
  <2>1. HasBond(q, b) \/ InTables(r, b)
    BY <1>3 DEF Grows
  <2>2. HasBond(q, b) => HasBond(p, b) \/ InTables(q, b)
    BY DEF Grows
  <2> QED
    BY <1>1, <2>1, <2>2, InTablesKept
<1> QED
  BY <1>1, <1>2, <1>3 DEF Grows

\* Pointers that lead into the tables go on leading into them.
LEMMA LinkedGrows ==
    ASSUME NEW p, NEW q, IsPlant(p), Linked(p), Grows(p, q)
    PROVE  Linked(q)
PROOF
<1>1. ASSUME NEW b, HasBond(q, b)
      PROVE  InTables(q, b)
  <2>1. HasBond(p, b) \/ InTables(q, b)
    BY <1>1 DEF Grows
  <2>2. HasBond(p, b) => InTables(p, b)
    BY DEF Linked
  <2> QED
    BY <2>1, <2>2, InTablesKept DEF Grows
<1> QED
  BY <1>1 DEF Linked

\* A sequence of changes, each of which lets the plant grow.
LEMMA GrowsInTurn ==
    ASSUME NEW p, IsPlant(p), NEW n \in Nat, NEW g, g[0] = p,
           \A i \in 1 .. n : IsPlant(g[i - 1]) => Grows(g[i - 1], g[i])
    PROVE  Grows(p, g[n])
PROOF
<1> DEFINE S == {i \in 0 .. n : Grows(p, g[i])}
<1>1. 0 \in S
  BY GrowsSame
<1>2. ASSUME NEW i \in 0 .. n - 1, i \in S
      PROVE  i + 1 \in S
  <2>1. IsPlant(g[i]) /\ Grows(p, g[i])
    BY <1>2 DEF Grows
  <2>2. i + 1 \in 1 .. n /\ (i + 1) - 1 = i
    OBVIOUS
  <2>3. Grows(g[i], g[i + 1])
    BY <2>1, <2>2
  <2>4. Grows(p, g[i + 1])
    BY <2>1, <2>3, GrowsBoth
  <2> QED
    BY <2>2, <2>4
<1>3. \A i \in 0 .. n - 1 : i \in S => i + 1 \in S
  BY <1>2
<1> HIDE DEF S
<1>4. \A i \in 0 .. n : i \in S
  BY <1>1, <1>3, UpTo
<1>5. n \in S
  BY <1>4
<1> QED
  BY <1>5 DEF S

\* A call lets the tables grow.
LEMMA ConfiguredGrows ==
    ASSUME NEW p, IsPlant(p), NEW c, Callable(c)
    PROVE  Grows(p, Configured(p, c))
PROOF
<1>1. PICK q : q = Configured(p, c)
  OBVIOUS
<1>2. Changes(p, q, c)
  BY <1>1, ConfiguredKeeps
<1>3. Grows(p, q)
  BY <1>2, KeepsGrows DEF Changes
<1> QED
  BY <1>1, <1>3

\* A group of calls lets them grow.
LEMMA MadeGrows ==
    ASSUME NEW p, IsPlant(p), NEW calls, Calling(calls)
    PROVE  Grows(p, Made(p, calls))
PROOF
<1>1. /\ Len(calls) \in Nat /\ DOMAIN calls = 1 .. Len(calls)
      /\ \A i \in 1 .. Len(calls) : calls[i] \in ToSet(calls)
  BY SeqIs DEF Calling, IsSeq
<1>2. PICK g : /\ Follows(g, "calls", p, calls, 0, 0, Len(calls))
               /\ Made(p, calls) = g[Len(calls)]
  BY <1>1, MadeIs
<1>3. /\ g[0] = p
      /\ \A i \in 1 .. Len(calls) : g[i] = Configured(g[i - 1], calls[i])
  BY <1>1, <1>2 DEF Follows, Turn
<1>4. ASSUME NEW i \in 1 .. Len(calls), IsPlant(g[i - 1])
      PROVE  Grows(g[i - 1], g[i])
  <2>1. Callable(calls[i])
    BY <1>1 DEF Calling
  <2> QED
    BY <1>3, <1>4, <2>1, ConfiguredGrows
<1>5. Grows(p, g[Len(calls)])
  BY <1>1, <1>3, <1>4, GrowsInTurn
<1> QED
  BY <1>2, <1>5

\* Reading a file lets them grow.
LEMMA DeserializedGrows ==
    ASSUME NEW p, NEW f, IsFile(f), IsPlant(Reset(p, f.default))
    PROVE  Grows(Reset(p, f.default), Deserialized(p, f))
PROOF
<1> DEFINE calls == CallsOf(f)
           o == Reset(p, f.default)
<1>1. IsSeq(calls) /\ \A group \in ToSet(calls) : Calling(group)
  BY CallsAre
<1>0. IsPlant(o)
  OBVIOUS
<1>2. /\ Len(calls) \in Nat /\ DOMAIN calls = 1 .. Len(calls)
      /\ \A i \in 1 .. Len(calls) : calls[i] \in ToSet(calls)
  BY <1>1, SeqIs DEF IsSeq
<1>3. PICK g : /\ Follows(g, "groups", o, calls, 0, 0, Len(calls))
               /\ Deserialized(p, f) = g[Len(calls)]
  BY <1>2, DeserializedIs
<1> HIDE DEF calls, o
<1>4. /\ g[0] = o
      /\ \A i \in 1 .. Len(calls) : g[i] = Made(g[i - 1], calls[i])
  BY <1>2, <1>3 DEF Follows, Turn
<1>5. ASSUME NEW i \in 1 .. Len(calls), IsPlant(g[i - 1])
      PROVE  Grows(g[i - 1], g[i])
  <2>1. Calling(calls[i])
    BY <1>1, <1>2
  <2> QED
    BY <1>4, <1>5, <2>1, MadeGrows
<1>6. Grows(o, g[Len(calls)])
  BY <1>0, <1>2, <1>4, <1>5, GrowsInTurn
<1> QED
  BY <1>3, <1>6 DEF o, calls

-----------------------------------------------------------------------------
(* The plants that calls are first made on.                                *)

\* No location of the plant, and none that a reset left behind.
Empty(p) == \A t \in OwnerTables : Len(p[t]) = 0

\* A plant without owners has no pointers.
LEMMA EmptyLinked ==
    ASSUME NEW p, IsPlant(p), Empty(p)
    PROVE  Linked(p) /\ Clean(p)
PROOF
<1>1. \A t \in OwnerTables : DOMAIN p[t] = {}
  BY OwnerTypes DEF Empty
<1>2. \A b : ~HasBond(p, b)
  BY <1>1 DEF HasBond
<1> QED
  BY <1>2 DEF Linked, Clean, Empty, OwnerTables

Left(p, u, v) == [p EXCEPT !.oldAutomatics = u, !.oldControlPoints = v]

\* A new plant, and one that is reset, in which a location may find what an
\* earlier one left behind.
LEMMA NewPlant ==
    ASSUME NEW s \in Nat, NEW d \in Nat, NEW u, NEW v,
           u \in Seq(Entries("oldAutomatics")), Len(u) <= s,
           v \in Seq(Entries("oldControlPoints")), Len(v) <= s,
           NEW q, q = Left(BlankPlant(s, d), u, v)
    PROVE  /\ IsPlant(q) /\ (Len(u) = 0 /\ Len(v) = 0 => Empty(q))
           /\ \A o \in Owners : Len(q[o]) = 0
PROOF
<1>1. /\ q = [f \in PlantFields |-> q[f]] /\ q.slots = s /\ q.default = d
      /\ q["oldAutomatics"] = u /\ q["oldControlPoints"] = v
      /\ \A t \in Tables \ {"oldAutomatics", "oldControlPoints"} : q[t] = <<>>
  <2>1. PICK no : no = <<>>
    OBVIOUS
  <2>2. q = [slots |-> s, default |-> d, circuits |-> no, lines |-> no, switches |-> no,
             crossovers |-> no, controls |-> no, masts |-> no, locks |-> no, automatics |-> no,
             controlPoints |-> no, routes |-> no, gaps |-> no, oldAutomatics |-> u,
             oldControlPoints |-> v]
    BY <2>1 DEF Left, BlankPlant
  <2>3. PlantFields = {"slots", "default", "circuits", "lines", "switches", "crossovers", "controls",
                       "masts", "locks", "automatics", "controlPoints", "routes", "gaps",
                       "oldAutomatics", "oldControlPoints"}
    BY DEF PlantFields, Tables, ApplianceTables, OwnerTables
  <2>4. q = [f \in PlantFields |-> q[f]]
    BY <2>2, <2>3
  <2>5. /\ q.slots = s /\ q.default = d /\ q["oldAutomatics"] = u /\ q["oldControlPoints"] = v
        /\ \A t \in Tables \ {"oldAutomatics", "oldControlPoints"} : q[t] = no
    BY <2>2 DEF Tables, ApplianceTables, OwnerTables
  <2> QED
    BY <2>1, <2>4, <2>5
<1>2. \A X : <<>> \in Seq(X) /\ Len(<<>>) = 0
  BY EmptySeq
<1>3. \A t \in Tables : 0 <= Slots(q, t) /\ Slots(q, t) \in Nat
  BY <1>1, SizesAssumption DEF Slots
<1>4. Slots(q, "oldAutomatics") = s /\ Slots(q, "oldControlPoints") = s
  BY <1>1 DEF Slots
<1> HIDE DEF Entries
<1>5. ASSUME NEW t \in Tables
      PROVE  q[t] \in Seq(Entries(t)) /\ Len(q[t]) <= Slots(q, t)
  <2>1. CASE t = "oldAutomatics"
    BY <1>1, <1>4, <2>1
  <2>2. CASE t = "oldControlPoints"
    BY <1>1, <1>4, <2>2
  <2>3. CASE t \notin {"oldAutomatics", "oldControlPoints"}
    <3>1. q[t] = <<>>
      BY <1>1, <2>3
    <3> QED
      BY <1>2, <1>3, <3>1
  <2> QED
    BY <2>1, <2>2, <2>3
<1>6. \A o \in Owners : o \in Tables \ {"oldAutomatics", "oldControlPoints"} /\ Len(q[o]) = 0
  BY <1>1, <1>2 DEF Owners, Tables, OwnerTables
<1>7. ASSUME Len(u) = 0, Len(v) = 0, NEW t \in OwnerTables
      PROVE  Len(q[t]) = 0
  BY <1>1, <1>6, <1>7 DEF OwnerTables, Owners
<1> QED
  BY <1>1, <1>5, <1>6, <1>7 DEF IsPlant, Empty

\* A new plant is one, and empty.
LEMMA BlankIs ==
    ASSUME NEW s \in Nat, NEW d \in Nat
    PROVE  IsPlant(BlankPlant(s, d)) /\ Empty(BlankPlant(s, d))
PROOF
<1>1. PICK no : no = <<>>
  OBVIOUS
<1>2. \A X : no \in Seq(X) /\ Len(no) = 0
  BY <1>1, EmptySeq
<1>3. PICK q : q = Left(BlankPlant(s, d), no, no)
  OBVIOUS
<1>4. q = BlankPlant(s, d)
  BY <1>1, <1>3 DEF Left, BlankPlant
<1>5. IsPlant(q) /\ Empty(q)
  BY <1>2, <1>3, NewPlant
<1> QED
  BY <1>4, <1>5

\* What reset() leaves in the slots fits into them.
LEMMA LeftoversAre ==
    ASSUME NEW X, NEW used \in Seq(X), NEW old \in Seq(X), NEW t, t = Leftovers(used, old)
    PROVE  t \in Seq(X) /\ (Len(t) <= Len(used) \/ Len(t) <= Len(old))
PROOF
<1> DEFINE rest == SubSeq(old, Len(used) + 1, Len(old))
<1>1. /\ Len(used) \in Nat /\ Len(old) \in Nat
      /\ \A i \in 1 .. Len(old) : old[i] \in X
  BY LenProperties, ElementOfSeq
<1>2. \A i \in Len(used) + 1 .. Len(old) : old[i] \in X
  BY <1>1
<1>3. /\ rest \in Seq(X)
      /\ Len(rest) = IF Len(used) + 1 <= Len(old) THEN Len(old) - (Len(used) + 1) + 1 ELSE 0
  BY <1>1, <1>2, SubSeqProperties
<1>4. t = used \o rest
  BY DEF Leftovers
<1> HIDE DEF rest
<1>5. t \in Seq(X) /\ Len(t) = Len(used) + Len(rest)
  BY <1>3, <1>4, ConcatProperties
<1> QED
  BY <1>1, <1>3, <1>5

\* reset() leaves a plant without owners.
LEMMA ResetIs ==
    ASSUME NEW p, IsPlant(p), NEW d \in Nat
    PROVE  /\ IsPlant(Reset(p, d)) /\ (Empty(p) => Empty(Reset(p, d)))
           /\ \A o \in Owners : Len(Reset(p, d)[o]) = 0
PROOF
<1>1. PICK u, v, q :
        /\ u = Leftovers(p["automatics"], p["oldAutomatics"])
        /\ v = Leftovers(p["controlPoints"], p["oldControlPoints"])
        /\ q = Left(BlankPlant(p.slots, d), u, v)
  OBVIOUS
<1>2. q = Reset(p, d)
  BY <1>1 DEF Reset, Left
<1>3. /\ p["automatics"] \in Seq(Entries("automatics"))
      /\ p["oldAutomatics"] \in Seq(Entries("automatics"))
      /\ p["controlPoints"] \in Seq(Entries("controlPoints"))
      /\ p["oldControlPoints"] \in Seq(Entries("controlPoints"))
      /\ Entries("oldAutomatics") = Entries("automatics")
      /\ Entries("oldControlPoints") = Entries("controlPoints")
  <2>1. /\ Entries("oldAutomatics") = Entries("automatics")
        /\ Entries("oldControlPoints") = Entries("controlPoints")
    BY DEF Entries, Kind
  <2>2. \A t \in {"automatics", "oldAutomatics", "controlPoints", "oldControlPoints"} : t \in Tables
    BY DEF Tables, OwnerTables
  <2> HIDE DEF Entries
  <2> QED
    BY <2>1, <2>2, TableTypes
<1>4. /\ Len(p["automatics"]) <= p.slots /\ Len(p["oldAutomatics"]) <= p.slots
      /\ Len(p["controlPoints"]) <= p.slots /\ Len(p["oldControlPoints"]) <= p.slots
      /\ p.slots \in Nat
  BY DEF IsPlant, Tables, OwnerTables, Slots
<1>7. /\ Len(p["automatics"]) \in Nat /\ Len(p["oldAutomatics"]) \in Nat
      /\ Len(p["controlPoints"]) \in Nat /\ Len(p["oldControlPoints"]) \in Nat
  BY <1>3, LenProperties
<1> HIDE DEF Entries
<1>5. /\ u \in Seq(Entries("automatics")) /\ v \in Seq(Entries("controlPoints"))
      /\ Len(u) <= Len(p["automatics"]) \/ Len(u) <= Len(p["oldAutomatics"])
      /\ Len(v) <= Len(p["controlPoints"]) \/ Len(v) <= Len(p["oldControlPoints"])
  BY <1>1, <1>3, LeftoversAre
<1>6. Len(u) <= p.slots /\ Len(v) <= p.slots /\ Len(u) \in Nat /\ Len(v) \in Nat
  <2>1. Len(u) \in Nat /\ Len(v) \in Nat
    BY <1>5, LenProperties
  <2> QED
    BY <1>4, <1>5, <1>7, <2>1
<1>8. /\ IsPlant(q) /\ (Len(u) = 0 /\ Len(v) = 0 => Empty(q))
      /\ \A o \in Owners : Len(q[o]) = 0
  BY <1>1, <1>3, <1>4, <1>5, <1>6, NewPlant
<1>9. Empty(p) => Len(u) = 0 /\ Len(v) = 0
  BY <1>5, <1>6, <1>7 DEF Empty, OwnerTables
<1> QED
  BY <1>2, <1>8, <1>9

-----------------------------------------------------------------------------
(* The specification.                                                      *)

\* A call of a program can be made.
LEMMA CallCallable ==
    ASSUME NEW c, IsCall(c)
    PROVE  Callable(c)
PROOF
<1>1. /\ c.names \in Seq(STRING) /\ c.with \in STRING /\ c.owner \in STRING /\ c.ms \in Nat
      /\ \/ c.owners = "" /\ c.op \in Declarations
         \/ c.owners \in DOMAIN Bindings /\ c.op \in Bindings[c.owners]
      /\ TakesList(c) \/ Len(c.names) = Arity(c.op)
  BY DEF IsCall
<1>2. c.names \in Seq(Text)
  BY <1>1, TextIs, MoreSeq
<1> QED
  BY <1>1, <1>2, TextIs DEF Callable

\* Every plant is one, and a plant that was not read into an object that was
\* configured before has no bond out of its own tables.
Typed ==
    /\ author \in Authors /\ todo \subseteq author.calls
    /\ IsPlant(plant) /\ IsPlant(saved)
    /\ file = <<>> \/ file = Serialized(saved)
    /\ origin # "reload" => Linked(plant)

\* What an author's build may be.
LEMMA AuthorIs ==
    ASSUME NEW build \in Authors
    PROVE  /\ build.slots \in Nat /\ build.default \in Nat /\ LibraryDefault \in Nat
           /\ \A c \in build.calls : Callable(c)
  BY AuthorsAssumption, CallCallable

\* A program that starts has a plant.
LEMMA TypedInit == Init => Typed
PROOF
<1> SUFFICES ASSUME Init
             PROVE  Typed
  OBVIOUS
<1>1. author \in Authors /\ plant = BlankPlant(author.slots, author.default)
  BY DEF Init
<1>2. IsPlant(plant) /\ Empty(plant)
  BY <1>1, AuthorIs, BlankIs
<1>3. Linked(plant)
  BY <1>2, EmptyLinked
<1> QED
  BY <1>1, <1>2, <1>3 DEF Init, Typed

\* A file that was written can be read.
LEMMA FileTyped ==
    ASSUME Typed, file # <<>>
    PROVE  IsFile(file) /\ file.default \in Nat
PROOF
<1>1. IsFile(file)
  BY SerializedIs DEF Typed
<1> QED
  BY <1>1 DEF IsFile

\* Every step leaves a plant, and pointers that lead into its tables.
LEMMA TypedStep == Typed /\ [Next]_vars => Typed'
PROOF
<1> SUFFICES ASSUME Typed, [Next]_vars
             PROVE  Typed'
  OBVIOUS
<1>0. author \in Authors /\ IsPlant(plant)
  BY DEF Typed
<1>1. CASE Configure
  <2>1. PICK c \in todo : plant' = Configured(plant, c)
    BY <1>1 DEF Configure
  <2>2. Callable(c)
    BY <1>0, <2>1, AuthorIs DEF Typed
  <2>3. Grows(plant, plant')
    BY <1>0, <2>1, <2>2, ConfiguredGrows
  <2>4. IsPlant(plant') /\ (Linked(plant) => Linked(plant'))
    BY <1>0, <2>3, LinkedGrows DEF Grows
  <2> QED
    BY <1>1, <2>4 DEF Typed, Configure
<1>2. CASE Serialize
  BY <1>2 DEF Typed, Serialize
<1>3. CASE Boot
  <2>1. PICK p, d : p = BlankPlant(author.slots, LibraryDefault) /\ d = file.default
    OBVIOUS
  <2>2. file # <<>> /\ plant' = Deserialized(p, file)
    BY <1>3, <2>1 DEF Boot, Loaded
  <2>3. IsFile(file) /\ d \in Nat
    BY <2>1, <2>2, FileTyped
  <2>4. IsPlant(p) /\ Empty(p)
    BY <1>0, <2>1, AuthorIs, BlankIs
  <2>5. IsPlant(Reset(p, d)) /\ Empty(Reset(p, d))
    BY <2>3, <2>4, ResetIs
  <2>6. Grows(Reset(p, d), plant')
    BY <2>1, <2>2, <2>3, <2>5, DeserializedGrows
  <2>7. IsPlant(plant') /\ Linked(plant')
    BY <2>5, <2>6, EmptyLinked, LinkedGrows DEF Grows
  <2> QED
    BY <1>3, <2>7 DEF Typed, Boot, Loaded
<1>4. CASE Reload
  <2>1. PICK d : d = file.default
    OBVIOUS
  <2>2. file # <<>> /\ plant' = Deserialized(plant, file)
    BY <1>4, <2>1 DEF Reload, Loaded
  <2>3. IsFile(file) /\ d \in Nat
    BY <2>1, <2>2, FileTyped
  <2>4. IsPlant(Reset(plant, d))
    BY <1>0, <2>3, ResetIs
  <2>5. Grows(Reset(plant, d), plant')
    BY <2>1, <2>2, <2>3, <2>4, DeserializedGrows
  <2> QED
    BY <1>4, <2>5 DEF Typed, Reload, Loaded, Grows
<1>5. CASE UNCHANGED vars
  BY <1>5 DEF vars, Typed
<1>6. CASE Undefined
  BY <1>5, <1>6 DEF Undefined
<1> QED
  BY <1>1, <1>2, <1>3, <1>4, <1>5, <1>6 DEF Next

\* The arrays of a plant, and what its pointers lead to.
LEMMA PlantTypeOK == Typed => TypeOK
PROOF
<1> SUFFICES ASSUME Typed
             PROVE  TypeOK
  OBVIOUS
<1>1. IsPlant(plant) /\ (origin # "reload" => Linked(plant))
  BY DEF Typed
<1>2. \A table \in {"circuits", "lines", "switches", "crossovers", "controls", "masts",
                    "locks", "automatics", "controlPoints"} : Len(plant[table]) <= plant.slots
  BY <1>1 DEF IsPlant, Tables, ApplianceTables, OwnerTables, Slots
<1>3. Len(plant.routes) <= MaxRoutes /\ Len(plant.gaps) <= MaxGaps
  BY <1>1 DEF IsPlant, Tables, OwnerTables, Slots
<1>4. \A i \in DOMAIN plant.gaps :
        plant.gaps[i].kind \in {"implicit", "no_slot", "missing", "conflict"}
  <2>1. "gaps" \in Tables /\ Entries("gaps")
          = [name : Reportable, call : Text, owner : Reportable,
             kind : {"implicit", "no_slot", "missing", "conflict"}]
    BY DEF Tables, Entries
  <2> HIDE DEF Entries
  <2>2. \A i \in DOMAIN plant["gaps"] : plant["gaps"][i] \in Entries("gaps")
    BY <1>1, <2>1, TableTypes
  <2>3. ASSUME NEW i \in DOMAIN plant.gaps
        PROVE  plant.gaps[i].kind \in {"implicit", "no_slot", "missing", "conflict"}
    <3>1. PICK e : e = plant.gaps[i]
      OBVIOUS
    <3>2. e \in Entries("gaps")
      BY <2>2, <3>1
    <3>3. e \in [name : Reportable, call : Text, owner : Reportable,
                kind : {"implicit", "no_slot", "missing", "conflict"}]
      BY <2>1, <3>2
    <3>4. e.kind \in {"implicit", "no_slot", "missing", "conflict"}
      BY <3>3
    <3> QED
      BY <3>1, <3>4
  <2> QED
    BY <2>3
<1>5. ASSUME NEW owners \in Owners, NEW i \in DOMAIN plant[owners], NEW field \in TermFields(owners)
      PROVE  /\ Len(plant[owners][i][field]) <= Limit(owners, field)
             /\ origin # "reload" =>
                  \A k \in DOMAIN plant[owners][i][field] : InTables(plant, plant[owners][i][field][k])
  <2>1. owners \in OwnerTables /\ Kind(owners) = owners
    BY DEF Owners, OwnerTables, Kind
  <2>2. Len(plant[owners][i][field]) <= Limit(owners, field)
    BY <1>1, <2>1, OwnerTypes
  <2>3. \A k \in DOMAIN plant[owners][i][field] : HasBond(plant, plant[owners][i][field][k])
    BY <2>1 DEF HasBond
  <2>4. Linked(plant) => \A b : HasBond(plant, b) => InTables(plant, b)
    BY DEF Linked
  <2> QED
    BY <1>1, <2>2, <2>3, <2>4
<1> QED
  BY <1>2, <1>3, <1>4, <1>5 DEF TypeOK

\* Whatever a program asks for, and whatever a file is read into: no call fills a
\* table or a list of terms beyond the limit that it checks, and every pointer of
\* an owner leads into a table of the same plant, unless the plant was read into
\* an object configured before (the checks of InterlockingPlant.h, ControlTable.h
\* and the locations).  It is not said that crossovers_ is as large as its limit:
\* it is not.
THEOREM TypeCorrect == Spec => []TypeOK
PROOF
<1>1. Spec => []Typed
  BY TypedInit, TypedStep, PTL DEF Spec
<1>2. Typed => TypeOK
  BY PlantTypeOK
<1> QED
  BY <1>1, <1>2, PTL
=============================================================================
