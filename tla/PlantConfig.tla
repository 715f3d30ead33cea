----------------------------- MODULE PlantConfig -----------------------------
(* The configuration of an interlocking plant: the tables of appliances, the   *)
(* bindings of routes, automatic signals and control point lines by name, and  *)
(* what a binding does when its name has no source.  A plant is a record of    *)
(* tables (sequences of records with a name); every term of an owner is a      *)
(* sequence of bound objects [kind, name], empty when the pointer is null; an  *)
(* aligned switch also has the circuit it is released by, or none.             *)
(* Aspects, directions, positions and delays are carried along unchanged by    *)
(* the code and are left out.                                                  *)
EXTENDS Naturals, Sequences, SequencesExt

CONSTANTS
    MaxRoutes, MaxRouteTerms, MaxBlockFacts, MaxLineMasts, MaxGaps,
    MaxCrossovers  \* the size of crossovers_, which no call looks at

\* What an automatic signal governs, its H and its cut fit into its route.
ASSUME SizesAssumption ==
    /\ {MaxRoutes, MaxRouteTerms, MaxBlockFacts, MaxLineMasts, MaxGaps, MaxCrossovers} \subseteq Nat
    /\ MaxBlockFacts + 2 <= MaxRouteTerms

None == ""

Named(table) == {table[i].name : i \in DOMAIN table}
Has(table, n) == n \in Named(table)
\* The place of the first entry of that name.
At(table, n) ==
    CHOOSE i \in DOMAIN table :
      table[i].name = n /\ \A j \in 1..(i - 1) : table[j].name # n
Names(terms) == [i \in DOMAIN terms |-> terms[i].name]

\* The first entry of that name with one field changed.
Changed(table, n, field, value) ==
    IF Has(table, n) THEN [table EXCEPT ![At(table, n)][field] = value] ELSE table

Bound(kind, n) == [kind |-> kind, name |-> n, rel |-> None]

\* The plant after one call for every entry of a list, in its order.
InTurn(Call(_, _), p, list) ==
    LET after[n \in 0..Len(list)] ==
          IF n = 0 THEN p ELSE Call(after[n - 1], list[n])
    IN  after[Len(list)]

Released == Bound("released", "(unsourced)")

BlankPlant(slots, default) ==
    [slots |-> slots, default |-> default, circuits |-> <<>>, lines |-> <<>>,
     switches |-> <<>>, crossovers |-> <<>>, controls |-> <<>>, masts |-> <<>>,
     locks |-> <<>>, automatics |-> <<>>, controlPoints |-> <<>>, routes |-> <<>>,
     gaps |-> <<>>, oldAutomatics |-> <<>>, oldControlPoints |-> <<>>]

BlankRoute(n) ==
    [name |-> n, automatic |-> FALSE, incomplete |-> FALSE, governedBy |-> <<>>,
     displays |-> <<>>, aligns |-> <<>>, clears |-> <<>>, home |-> <<>>,
     proceed |-> <<>>, entrance |-> <<>>, approaching |-> <<>>]

BlankAutomatic ==
    [name |-> None, incomplete |-> FALSE, governs |-> <<>>, approach |-> <<>>,
     h |-> <<>>, d |-> <<>>, opposing |-> <<>>]

BlankControlPoint ==
    [name |-> None, incomplete |-> FALSE, governs |-> <<>>, block |-> <<>>,
     leaving |-> <<>>, home |-> <<>>, traffic |-> "HD_CHAIN"]

\* reset() sets the counts to 0; what the slots of the locations hold stays.
Leftovers(used, old) == used \o SubSeq(old, Len(used) + 1, Len(old))
Reset(p, default) ==
    [BlankPlant(p.slots, default) EXCEPT
        !.oldAutomatics = Leftovers(p.automatics, p.oldAutomatics),
        !.oldControlPoints = Leftovers(p.controlPoints, p.oldControlPoints)]

NextSlot(used, old, blank) ==
    IF Len(used) < Len(old) THEN old[Len(used) + 1] ELSE blank

\* Mutant: one entry beyond the array.
RoomForOneMore(p, table) == Len(p[table]) <= p.slots
\* The limit that every call checks before it adds an appliance, a lock or a
\* location, MAX_APPLIANCES.  It is the size of all these arrays but one.
Room(p, table) == Len(p[table]) < p.slots

\* crossovers_ is smaller, MAX_CROSSOVERS: a plant that does not fit has been
\* written behind its end, and what it holds then is undefined.
CrossoversFit(p) == Len(p.crossovers) <= MaxCrossovers
Add(p, table, entry) == [p EXCEPT ![table] = Append(@, entry)]

-----------------------------------------------------------------------------
(* The report of names that have no source.                                *)

NoteUnresolved(p, n, call, owner, kind) ==
    IF Len(p.gaps) < MaxGaps
    THEN Add(p, "gaps", [name |-> n, call |-> call, owner |-> owner, kind |-> kind])
    ELSE p

NoteConflict(p, n, call) ==
    IF Has(p.lines, n) /\ p.lines[At(p.lines, n)].implicit
    THEN NoteUnresolved(p, n, call, n, "conflict") ELSE p

\* The H and the D of a location.
NoteConflicts(p, base, call) ==
    NoteConflict(NoteConflict(p, base \o "H", call), base \o "D", call)

\* The plant cannot make an appliance up: its owner stays at Stop.
MarkIncomplete(p, owners, owner) ==
    LET q == [p EXCEPT ![owners] = Changed(@, owner, "incomplete", TRUE)] IN
    IF owners = "automatics"
    THEN [q EXCEPT !.routes = Changed(@, owner, "incomplete", TRUE)] ELSE q

\* Mutant: the gap is reported and the owner goes on without the term.
MissingReported(p, owners, owner, n, call) ==
    NoteUnresolved(p, n, call, owner, "missing")
Missing(p, owners, owner, n, call) ==
    MarkIncomplete(NoteUnresolved(p, n, call, owner, "missing"), owners, owner)

-----------------------------------------------------------------------------
(* Facts by name.                                                          *)

\* The names of the outputs of locations; F has the lines that carry traffic.
Outputs(names, ends) == {n \o out : n \in names, out \in ends}
Directed(lines) == {l.name : l \in {m \in ToSet(lines) : m.traffic # "HD_CHAIN"}}
Produced(p, kind) ==
    CASE kind = "line" -> Named(p.lines)
      [] kind = "automatic" -> Outputs(Named(p.automatics), {"H", "D"})
      [] kind = "controlPoint" ->
             Outputs(Named(p.controlPoints), {"H", "D"}) \cup Outputs(Directed(p.controlPoints), {"F"})
      [] kind = "circuit" -> Named(p.circuits)

\* At most one object: the first of the four kinds that has the name.
FindFact(p, n) ==
    IF n \in Produced(p, "line") THEN <<Bound("line", n)>>
    ELSE IF n \in Produced(p, "automatic") THEN <<Bound("automatic", n)>>
    ELSE IF n \in Produced(p, "controlPoint") THEN <<Bound("controlPoint", n)>>
    ELSE IF n \in Produced(p, "circuit") THEN <<Bound("circuit", n)>> ELSE <<>>

ResolveFact(p, n, call, owner) ==
    IF n = None THEN [plant |-> p, fact |-> <<>>]
    ELSE IF FindFact(p, n) # <<>> THEN [plant |-> p, fact |-> FindFact(p, n)]
    ELSE IF Room(p, "lines")
    THEN [plant |-> NoteUnresolved(
                        Add(p, "lines", [name |-> n, implicit |-> TRUE, timeout |-> p.default]),
                        n, call, owner, "implicit"),
          fact |-> <<Bound("line", n)>>]
    ELSE [plant |-> NoteUnresolved(p, n, call, owner, "no_slot"), fact |-> <<Released>>]

-----------------------------------------------------------------------------
(* Binding the terms of an owner.  An owner that did not fit into its table  *)
(* is the overflow object, which is bound to no plant.                       *)

Extend(p, owners, owner, field, limit, terms) ==
    IF ~Has(p[owners], owner) THEN p
    ELSE LET now == p[owners][At(p[owners], owner)][field] IN
         IF Len(now) < limit
         THEN [p EXCEPT ![owners] = Changed(@, owner, field, now \o terms)] ELSE p

Set(p, owners, owner, field, terms) ==
    [p EXCEPT ![owners] = Changed(@, owner, field, terms)]

\* One fact, looked up when the call is made.
FactTerm(p, owners, owner, field, limit, n) ==
    LET found == ResolveFact(p, n, field, owner) IN
    Extend(found.plant, owners, owner, field, limit, found.fact)

\* One appliance of a table.
Appliance(p, owners, owner, field, table, n) ==
    IF Has(p[table], n) THEN Set(p, owners, owner, field, <<Bound(table, n)>>)
    ELSE Missing(Set(p, owners, owner, field, <<>>), owners, owner, n, field)

FindSwitch(p, n) == Has(p.switches, n) \/ Has(p.crossovers, n)

Full(p, r, field) == Len(p.routes[At(p.routes, r)][field]) >= MaxRouteTerms

ClearBlock(p, r, n) ==
    IF Full(p, r, "clears") THEN p
    ELSE IF Has(p.circuits, n)
    THEN Extend(p, "routes", r, "clears", MaxRouteTerms, <<Bound("circuits", n)>>)
    ELSE Missing(p, "routes", r, n, "clears")

Align(p, r, n, rel) ==
    IF Full(p, r, "aligns") THEN p
    ELSE LET released == Has(p.circuits, rel)
             term == [Bound("switches", n) EXCEPT !.rel = IF released THEN rel ELSE None]
             q == IF FindSwitch(p, n)
                  THEN Extend(p, "routes", r, "aligns", MaxRouteTerms, <<term>>)
                  ELSE Missing(p, "routes", r, n, "aligns")
         IN  IF rel = None \/ released THEN q ELSE Missing(q, "routes", r, rel, "aligns")

HomeFact(p, r, n) == FactTerm(p, "routes", r, "home", MaxRouteTerms, n)

\* The fluent calls take a list and start it anew; a file is read term by term.
Clears(p, r, ns) ==
    InTurn(LAMBDA q, n : ClearBlock(q, r, n), Set(p, "routes", r, "clears", <<>>), ns)
Aligns(p, r, ns, rel) ==
    InTurn(LAMBDA q, n : Align(q, r, n, rel), Set(p, "routes", r, "aligns", <<>>), ns)
Home(p, r, ns) ==
    InTurn(LAMBDA q, n : HomeFact(q, r, n), Set(p, "routes", r, "home", <<>>), ns)

Proceed(p, r, n) ==
    LET found == ResolveFact(p, n, "proceed", r) IN
    Set(found.plant, "routes", r, "proceed", found.fact)

\* What an automatic signal governs is also a home term of its route.
Governs(p, a, n) ==
    LET found == ResolveFact(p, n, "governs", a) IN
    IF Len(p.automatics[At(p.automatics, a)].governs) >= MaxBlockFacts THEN found.plant
    ELSE Extend(Extend(found.plant, "automatics", a, "governs", MaxBlockFacts, found.fact),
                "routes", a, "home", MaxRouteTerms, found.fact)

Reads(p, a, hName, dName) ==
    LET h == ResolveFact(p, hName, "reads", a)
        d == ResolveFact(h.plant, dName, "reads", a)
        q == Set(Set(d.plant, "automatics", a, "h", h.fact), "automatics", a, "d", d.fact)
    IN  Set(Extend(q, "routes", a, "home", MaxRouteTerms, h.fact), "routes", a, "proceed", d.fact)

Opposing(p, a, n) ==
    LET q == Appliance(p, "automatics", a, "opposing", "automatics", n) IN
    IF Has(p.automatics, n)
    THEN Extend(q, "routes", a, "home", MaxRouteTerms, <<Bound("cut", a)>>) ELSE q

Leaving(p, l, n) ==
    IF Has(p.masts, n)
    THEN Extend(p, "controlPoints", l, "leaving", MaxLineMasts, <<Bound("masts", n)>>)
    ELSE Missing(p, "controlPoints", l, n, "leaving")

-----------------------------------------------------------------------------
(* Declaring appliances and owners.                                        *)

AddTrackCircuit(p, n) ==
    IF Room(p, "circuits")
    THEN Add(NoteConflict(p, n, "addTrackCircuit"), "circuits", [name |-> n, timeout |-> p.default])
    ELSE p

AddLineInput(p, n, timeout) ==
    LET q == NoteConflict(p, n, "addLineInput") IN
    IF Room(q, "lines")
    THEN Add(q, "lines", [name |-> n, implicit |-> FALSE, timeout |-> timeout]) ELSE q

\* Mutant: a binding that is there is made again.
BindDetectorLockAgain(p, sw, tc) ==
    IF FindSwitch(p, sw) /\ Has(p.circuits, tc) /\ Room(p, "locks")
    THEN Add(p, "locks", <<sw, tc>>) ELSE p
BindDetectorLock(p, sw, tc) ==
    IF FindSwitch(p, sw) /\ Has(p.circuits, tc) /\ Room(p, "locks")
       /\ <<sw, tc>> \notin ToSet(p.locks)
    THEN Add(p, "locks", <<sw, tc>>) ELSE p

WithDetector(p, sw, os) ==
    IF os = None THEN p
    ELSE BindDetectorLock(IF Has(p.circuits, os) THEN p ELSE AddTrackCircuit(p, os), sw, os)

AddSwitch(p, n, os) ==
    IF Room(p, "switches")
    THEN WithDetector(Add(p, "switches", [name |-> n, derail |-> FALSE, base |-> None, pair |-> None]), n, os)
    ELSE p

Paired(switches, a, b) ==
    Changed(Changed(switches, a, "pair", b), b, "pair", a)

\* A dependent derail ("1D") is refused until its switch is there.
AddDerail(p, n, base, os) ==
    IF (base = None \/ Has(p.switches, base)) /\ Room(p, "switches")
    THEN LET q == Add(p, "switches", [name |-> n, derail |-> TRUE, base |-> base, pair |-> None]) IN
         WithDetector(IF base = None THEN q ELSE [q EXCEPT !.switches = Paired(@, base, n)], n, os)
    ELSE p

\* The limit checked is that of the other tables, not MaxCrossovers.
AddCrossover(p, n, a, b) ==
    IF FindSwitch(p, a) /\ FindSwitch(p, b) /\ Room(p, "crossovers")
    THEN [Add(p, "crossovers", [name |-> n, a |-> a, b |-> b]) EXCEPT !.switches = Paired(@, a, b)]
    ELSE p

AddSignalControl(p, n) == IF Room(p, "controls") THEN Add(p, "controls", [name |-> n]) ELSE p
AddSignalMast(p, n) == IF Room(p, "masts") THEN Add(p, "masts", [name |-> n]) ELSE p
AddRoute(p, n) == IF Len(p.routes) < MaxRoutes THEN Add(p, "routes", BlankRoute(n)) ELSE p

AddAutomaticSignal(p, n) ==
    IF ~Room(p, "automatics") THEN p
    ELSE LET q == AddRoute(AddSignalMast(NoteConflicts(p, n, "addAutomaticSignal"), n), n)
             r == Set(Appliance(q, "routes", n, "displays", "masts", n), "routes", n, "automatic", TRUE)
             slot == NextSlot(p.automatics, p.oldAutomatics, BlankAutomatic)
         IN  Add(r, "automatics", [slot EXCEPT !.name = n])

AddControlPointLine(p, n) ==
    IF ~Room(p, "controlPoints") THEN p
    ELSE LET q == NoteConflict(NoteConflicts(p, n, "addControlPointLine"), n \o "F", "addControlPointLine")
             slot == NextSlot(p.controlPoints, p.oldControlPoints, BlankControlPoint)
         IN  Appliance(Add(q, "controlPoints", [slot EXCEPT !.name = n]),
                       "controlPoints", n, "home", "masts", n)

-----------------------------------------------------------------------------
(* The calls of the configuration interface, by their names in the code.  A *)
(* call without owners declares; the others bind what an owner reads.  A    *)
(* line input is given a timeout, 0 for none, or has the plant's "default". *)

Declared(p, c) ==
    LET n == c.names[1] IN
    CASE c.op = "addTrackCircuit" -> AddTrackCircuit(p, n)
      [] c.op = "addLineInput" ->
             AddLineInput(p, n, IF c.with = "default" THEN p.default ELSE c.ms)
      [] c.op = "addSwitch" -> AddSwitch(p, n, c.with)
      [] c.op = "addDerail" -> AddDerail(p, n, c.names[2], c.with)
      [] c.op = "addCrossover" -> AddCrossover(p, n, c.names[2], c.names[3])
      [] c.op = "addSignalControl" -> AddSignalControl(p, n)
      [] c.op = "addSignalMast" -> AddSignalMast(p, n)
      [] c.op = "bindDetectorLock" -> BindDetectorLock(p, n, c.names[2])
      [] c.op = "addAutomaticSignal" -> AddAutomaticSignal(p, n)
      [] c.op = "addControlPointLine" -> AddControlPointLine(p, n)
      [] c.op = "route" -> AddRoute(p, n)

RouteBound(p, c) ==
    LET n == c.names[1] r == c.owner IN
    CASE c.op = "governedBy" -> Appliance(p, "routes", r, "governedBy", "controls", n)
      [] c.op = "displays" -> Appliance(p, "routes", r, "displays", "masts", n)
      [] c.op = "aligns" -> Aligns(p, r, c.names, c.with)
      [] c.op = "align" -> Align(p, r, n, c.with)
      [] c.op = "clears" -> Clears(p, r, c.names)
      [] c.op = "clearBlock" -> ClearBlock(p, r, n)
      [] c.op = "home" -> Home(p, r, c.names)
      [] c.op = "homeFact" -> HomeFact(p, r, n)
      [] c.op = "proceed" -> Proceed(p, r, n)
      [] c.op \in {"entrance", "approaching"} -> Appliance(p, "routes", r, c.op, "circuits", n)

AutomaticBound(p, c) ==
    LET n == c.names[1] a == c.owner IN
    CASE c.op = "governs" -> Governs(p, a, n)
      [] c.op = "approach" -> FactTerm(p, "automatics", a, "approach", MaxBlockFacts, n)
      [] c.op = "reads" -> Reads(p, a, n, c.names[2])
      [] c.op = "opposing" -> Opposing(p, a, n)

ControlPointBound(p, c) ==
    LET n == c.names[1] l == c.owner IN
    CASE c.op = "governs" -> FactTerm(p, "controlPoints", l, "governs", MaxBlockFacts, n)
      [] c.op = "block" -> FactTerm(p, "controlPoints", l, "block", MaxRouteTerms, n)
      [] c.op = "leaving" -> Leaving(p, l, n)
      [] c.op = "home" -> Appliance(p, "controlPoints", l, "home", "masts", n)
      [] c.op = "traffic" -> Set(p, "controlPoints", l, "traffic", n)

\* What each kind of owner can be told, and the calls that take a whole list.
Declarations ==
    {"addTrackCircuit", "addLineInput", "addSwitch", "addDerail", "addCrossover",
     "addSignalControl", "addSignalMast", "bindDetectorLock", "addAutomaticSignal",
     "addControlPointLine", "route"}
Bindings ==
    [routes |-> {"governedBy", "displays", "aligns", "align", "clears", "clearBlock",
                 "home", "homeFact", "proceed", "entrance", "approaching"},
     automatics |-> {"governs", "approach", "reads", "opposing"},
     controlPoints |-> {"governs", "block", "leaving", "home", "traffic"}]
TakesList(c) == c.owners = "routes" /\ c.op \in {"aligns", "clears", "home"}
Arity(op) ==
    CASE op \in {"addDerail", "bindDetectorLock", "reads"} -> 2
      [] op = "addCrossover" -> 3
      [] OTHER -> 1

IsCall(c) ==
    /\ c \in [op : STRING, owners : STRING, owner : STRING, names : Seq(STRING),
              with : STRING, ms : Nat]
    /\ \/ c.owners = "" /\ c.op \in Declarations
       \/ c.owners \in DOMAIN Bindings /\ c.op \in Bindings[c.owners]
    /\ TakesList(c) \/ Len(c.names) = Arity(c.op)

Configured(p, c) ==
    IF c.owners = "" THEN Declared(p, c)
    ELSE IF ~Has(p[c.owners], c.owner) THEN p
    ELSE CASE c.owners = "routes" -> RouteBound(p, c)
           [] c.owners = "automatics" -> AutomaticBound(p, c)
           [] c.owners = "controlPoints" -> ControlPointBound(p, c)

=============================================================================
