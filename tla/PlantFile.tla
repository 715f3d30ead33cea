------------------------------ MODULE PlantFile ------------------------------
(* A plant is configured by calls, saved as a JSON file and built again from   *)
(* the file, by a unit that starts up or in the process that runs.  The file   *)
(* is a record of its sections; reading it makes configuration calls in the    *)
(* reader's own order.                                                         *)
EXTENDS PlantConfig

CONSTANTS
    LibraryDefault,  \* DEFAULT_STALENESS_TIMEOUT_MS
    Authors          \* [slots, default, calls]: a build, its timeout, the calls made

VARIABLES
    author,  \* the configuration program
    todo,    \* its calls that are not made yet
    plant,
    asked,   \* the terms the owners of the plant were asked to have
    file,    \* the sections that were written, <<>> before (bound: one file)
    saved,   \* the plant they were written from
    origin   \* what built the plant: its "author", a "boot" or a "reload"
\* Calls with the arguments that the interface takes.
ASSUME AuthorsAssumption ==
    /\ LibraryDefault \in Nat
    /\ \A build \in Authors :
         /\ build.slots \in Nat /\ build.default \in Nat
         /\ IsFiniteSet(build.calls) /\ \A c \in build.calls : IsCall(c)

vars == <<author, todo, plant, asked, file, saved, origin>>

-----------------------------------------------------------------------------
(* Writing.                                                                *)

\* The entries at these places, in their order.
Picked(table, places) ==
    InTurn(LAMBDA s, i : IF i \in places THEN Append(s, table[i]) ELSE s,
           <<>>, [i \in DOMAIN table |-> i])

\* The first circuit that is bound to this machine itself.
OwnDetector(p, sw) ==
    LET of == {i \in DOMAIN p.locks : p.locks[i][1] = sw} IN
    IF of = {} THEN None ELSE p.locks[CHOOSE i \in of : \A j \in of : i <= j][2]

\* Mutant: its pair's circuit before its own.
DetectorOfPair(p, sw) ==
    LET pair == p.switches[At(p.switches, sw)].pair IN
    IF OwnDetector(p, pair) # None THEN OwnDetector(p, pair) ELSE OwnDetector(p, sw)
\* Its own circuit before its pair's.  The circuit of a crossover object, the
\* last resort of the lookup, is never asked for: only machines are written.
DetectorFor(p, sw) ==
    LET pair == p.switches[At(p.switches, sw)].pair IN
    IF OwnDetector(p, sw) # None THEN OwnDetector(p, sw) ELSE OwnDetector(p, pair)

Machines(p, derails) ==
    Picked(p.switches, {i \in DOMAIN p.switches : p.switches[i].derail = derails})
WithCircuits(p, switches) ==
    [i \in DOMAIN switches |-> [name |-> switches[i].name, base |-> switches[i].base,
                                os |-> DetectorFor(p, switches[i].name)]]

\* Mutant: every line input is written.
EveryLine(p) == p.lines
\* An implicit line input is derived, not given.
GivenLines(p) == Picked(p.lines, {i \in DOMAIN p.lines : ~p.lines[i].implicit})

\* An automatic signal brings its own mast and route.
OwnMasts(p) == Picked(p.masts, {i \in DOMAIN p.masts : ~Has(p.automatics, p.masts[i].name)})
OwnRoutes(p) == Picked(p.routes, {i \in DOMAIN p.routes : ~p.routes[i].automatic})

OneName(terms) == IF terms = <<>> THEN None ELSE terms[1].name

\* A route that names no entrance has its first block for one, and says so.
EntranceBlock(r) ==
    IF r.entrance = <<>> /\ r.clears # <<>> THEN r.clears[1].name ELSE OneName(r.entrance)

WrittenRoute(r) ==
    [name |-> r.name, governedBy |-> OneName(r.governedBy), displays |-> OneName(r.displays),
     aligns |-> [i \in DOMAIN r.aligns |-> <<r.aligns[i].name, r.aligns[i].rel>>],
     clears |-> Names(r.clears), home |-> Names(r.home), proceed |-> OneName(r.proceed),
     entrance |-> EntranceBlock(r), approaching |-> OneName(r.approaching)]

WrittenAutomatic(a) ==
    [name |-> a.name, governs |-> Names(a.governs), approach |-> Names(a.approach),
     h |-> OneName(a.h), d |-> OneName(a.d), opposing |-> OneName(a.opposing)]

WrittenControlPoint(l) ==
    [name |-> l.name, home |-> OneName(l.home), governs |-> Names(l.governs),
     block |-> Names(l.block), leaving |-> Names(l.leaving), traffic |-> l.traffic]

Each(table, Op(_)) == [i \in DOMAIN table |-> Op(table[i])]

Serialized(p) ==
    [default |-> p.default,
     circuits |-> Names(p.circuits),
     lines |-> Each(GivenLines(p), LAMBDA l : [name |-> l.name, timeout |-> l.timeout]),
     switches |-> WithCircuits(p, Machines(p, FALSE)),
     derails |-> WithCircuits(p, Machines(p, TRUE)),
     crossovers |-> p.crossovers,
     controls |-> Names(p.controls),
     masts |-> Names(OwnMasts(p)),
     automatics |-> Each(p.automatics, WrittenAutomatic),
     controlPoints |-> Each(p.controlPoints, WrittenControlPoint),
     locks |-> p.locks,
     routes |-> Each(OwnRoutes(p), WrittenRoute)]

-----------------------------------------------------------------------------
(* Reading.                                                                *)

Call(op, owners, owner, names, with, ms) ==
    [op |-> op, owners |-> owners, owner |-> owner, names |-> names, with |-> with, ms |-> ms]
Declare(op, names) == Call(op, "", None, names, None, 0)
Bind(op, owners, owner, n) == Call(op, owners, owner, <<n>>, None, 0)

\* A key that is absent or empty makes no call.
Given(op, owners, owner, n) == IF n = None THEN <<>> ELSE <<Bind(op, owners, owner, n)>>
EachOf(op, owners, owner, ns) == Each(ns, LAMBDA n : Bind(op, owners, owner, n))

AutomaticCalls(a) ==
    EachOf("governs", "automatics", a.name, a.governs)
    \o EachOf("approach", "automatics", a.name, a.approach)
    \o (IF a.h = None /\ a.d = None THEN <<>>
        ELSE <<Call("reads", "automatics", a.name, <<a.h, a.d>>, None, 0)>>)
    \o Given("opposing", "automatics", a.name, a.opposing)

ControlPointCalls(l) ==
    <<Declare("addControlPointLine", <<l.name>>)>>
    \o Given("home", "controlPoints", l.name, l.home)
    \o EachOf("governs", "controlPoints", l.name, l.governs)
    \o EachOf("block", "controlPoints", l.name, l.block)
    \o EachOf("leaving", "controlPoints", l.name, l.leaving)
    \o <<Bind("traffic", "controlPoints", l.name, l.traffic)>>

RouteCalls(r) ==
    <<Declare("route", <<r.name>>)>>
    \o Given("governedBy", "routes", r.name, r.governedBy)
    \o Given("displays", "routes", r.name, r.displays)
    \o Each(r.aligns, LAMBDA t : Call("align", "routes", r.name, <<t[1]>>, t[2], 0))
    \o EachOf("clearBlock", "routes", r.name, r.clears)
    \o EachOf("homeFact", "routes", r.name, r.home)
    \o Given("proceed", "routes", r.name, r.proceed)
    \o Given("entrance", "routes", r.name, r.entrance)
    \o Given("approaching", "routes", r.name, r.approaching)

MachineCalls(f) ==
    Each(f.switches, LAMBDA s : Call("addSwitch", "", None, <<s.name>>, s.os, 0))
    \o Each(f.derails, LAMBDA s : Call("addDerail", "", None, <<s.name, s.base>>, s.os, 0))
    \o Each(f.crossovers, LAMBDA x : Declare("addCrossover", <<x.name, x.a, x.b>>))
SignalCalls(f) ==
    Each(f.controls, LAMBDA n : Declare("addSignalControl", <<n>>))
    \o Each(f.masts, LAMBDA n : Declare("addSignalMast", <<n>>))
LockCalls(f) == Each(f.locks, LAMBDA lock : Declare("bindDetectorLock", lock))

\* Every source before what names it, but for the lines of control points,
\* which come after the automatic signals.
DeclarationsOf(f) ==
    Each(f.circuits, LAMBDA n : Declare("addTrackCircuit", <<n>>))
    \o Each(f.lines, LAMBDA l : Call("addLineInput", "", None, <<l.name>>, None, l.timeout))
    \o MachineCalls(f) \o SignalCalls(f) \o LockCalls(f)
    \o Each(f.automatics, LAMBDA a : Declare("addAutomaticSignal", <<a.name>>))

\* The declarations, and then the calls for one owner after the other.
CallsOf(f) ==
    <<DeclarationsOf(f)>> \o Each(f.automatics, AutomaticCalls)
    \o Each(f.controlPoints, ControlPointCalls) \o Each(f.routes, RouteCalls)

Made(p, calls) == InTurn(Configured, p, calls)

\* deserialize() on an object that was configured before.
Deserialized(p, f) == InTurn(Made, Reset(p, f.default), CallsOf(f))

-----------------------------------------------------------------------------
(* The terms a call asks for: [owners, owner, field, name].                *)

Asked(owners, owner, field, ns) ==
    {[owners |-> owners, owner |-> owner, field |-> field, name |-> n] : n \in ns \ {None}}

FieldOf(op) ==
    CASE op \in {"clears", "clearBlock"} -> "clears"
      [] op \in {"aligns", "align"} -> "aligns"
      [] op \in {"home", "homeFact"} -> "home"
      [] OTHER -> op

\* What an automatic signal governs and the H it reads are home terms of its route.
TermsOf(c) ==
    LET ns == ToSet(c.names) o == c.owner IN
    IF c.owners = "" \/ c.op = "traffic" THEN {}
    ELSE IF c.op = "reads"
    THEN Asked("automatics", o, "h", {c.names[1]}) \cup Asked("routes", o, "home", {c.names[1]})
         \cup Asked("automatics", o, "d", {c.names[2]})
         \cup Asked("routes", o, "proceed", {c.names[2]})
    ELSE Asked(c.owners, o, FieldOf(c.op), ns)
         \cup (IF c.owners = "automatics" /\ c.op = "governs"
               THEN Asked("routes", o, "home", ns) ELSE {})

AskedBy(calls) == UNION {TermsOf(c) : c \in ToSet(calls)}

-----------------------------------------------------------------------------
(* What a call changes: the owners it declares, the fields [owners, owner, *)
(* field] that it writes anew, and those that it makes longer by a term.   *)

Owns(c) ==
    IF c.op = "addAutomaticSignal" THEN {<<"routes", c.names[1]>>, <<"automatics", c.names[1]>>}
    ELSE IF c.op = "addControlPointLine" THEN {<<"controlPoints", c.names[1]>>}
    ELSE IF c.op = "route" THEN {<<"routes", c.names[1]>>} ELSE {}

Rewrites(c) ==
    IF c.op = "addAutomaticSignal" THEN {<<"routes", c.names[1], "displays">>}
    ELSE IF c.op = "addControlPointLine" THEN {<<"controlPoints", c.names[1], "home">>}
    ELSE IF c.op = "reads"
    THEN {<<"automatics", c.owner, "h">>, <<"automatics", c.owner, "d">>,
          <<"routes", c.owner, "proceed">>}
    ELSE IF \/ c.owners = "routes" /\ c.op \notin {"align", "clearBlock", "homeFact"}
            \/ c.op = "opposing"
            \/ c.owners = "controlPoints" /\ c.op = "home"
    THEN {<<c.owners, c.owner, c.op>>} ELSE {}

Lengthens(c) ==
    IF c.op \in {"align", "clearBlock", "homeFact"} THEN {<<"routes", c.owner, FieldOf(c.op)>>}
    ELSE IF c.op \in {"reads", "opposing"} THEN {<<"routes", c.owner, "home">>}
    ELSE IF c.owners = "automatics" /\ c.op = "governs"
    THEN {<<"automatics", c.owner, "governs">>, <<"routes", c.owner, "home">>}
    ELSE IF c.op = "approach" THEN {<<"automatics", c.owner, "approach">>}
    ELSE IF c.owners = "controlPoints" /\ c.op \in {"governs", "block", "leaving"}
    THEN {<<"controlPoints", c.owner, c.op>>} ELSE {}

\* How many terms the array of that field has room for.
Limit(owners, field) ==
    CASE field \in {"aligns", "clears", "block"} -> MaxRouteTerms
      [] field = "home" /\ owners = "routes" -> MaxRouteTerms
      [] field \in {"governs", "approach"} -> MaxBlockFacts
      [] field = "leaving" -> MaxLineMasts
      [] OTHER -> 1

\* A program that says everything once: no owner is declared twice, no field
\* that a call writes anew is written by another (but for what the declaration
\* of its owner puts there), and no array is given more than it has room for.
SaysOnce(call) ==
    /\ \A i, j \in DOMAIN call : i # j =>
         /\ Owns(call[i]) \cap Owns(call[j]) = {}
         /\ \A x \in Rewrites(call[i]) \cap (Rewrites(call[j]) \cup Lengthens(call[j])) :
              <<x[1], x[2]>> \in Owns(call[i]) \cup Owns(call[j])
    /\ \A i \in DOMAIN call : \A x \in Lengthens(call[i]) :
         Cardinality({j \in DOMAIN call : x \in Lengthens(call[j])}) <= Limit(x[1], x[3])
    /\ \A i \in DOMAIN call : TakesList(call[i]) => Len(call[i].names) <= MaxRouteTerms

\* A second list takes the place of the first, and a term too many is left out:
\* such programs lose terms, and say so nowhere.
ASSUME OrderAssumption ==
    \A build \in Authors : SaysOnce([c \in build.calls |-> c])

-----------------------------------------------------------------------------
(* The machine.                                                            *)

Init ==
    /\ author \in Authors
    /\ todo = author.calls
    /\ plant = BlankPlant(author.slots, author.default)
    /\ asked = {} /\ file = <<>> /\ saved = plant
    /\ origin = "author"

\* A binding is made through the owner that its declaration returned.
Configure ==
    /\ CrossoversFit(plant) /\ origin = "author" /\ file = <<>>
    /\ \E c \in todo :
         /\ c.owners # "" => Has(plant[c.owners], c.owner)
         /\ todo' = todo \ {c}
         /\ plant' = Configured(plant, c)
         /\ asked' = asked \cup TermsOf(c)
    /\ UNCHANGED <<author, file, saved, origin>>

Serialize ==
    /\ CrossoversFit(plant) /\ file = <<>>
    /\ file' = Serialized(plant)
    /\ saved' = plant
    /\ UNCHANGED <<author, todo, plant, asked, origin>>

Loaded(p, how) ==
    /\ CrossoversFit(plant) /\ file # <<>>
    /\ plant' = Deserialized(p, file)
    /\ asked' = UNION {AskedBy(calls) : calls \in ToSet(CallsOf(file))}
    /\ origin' = how
    /\ UNCHANGED <<author, todo, file, saved>>

\* A unit that starts up: its plant object is new.
Boot == Loaded(BlankPlant(author.slots, LibraryDefault), "boot")

\* deserialize() once more in the same process.
Reload == Loaded(plant, "reload")

\* The call that does not fit writes a crossover behind crossovers_, over the
\* count and the levers that follow it.  Nothing is said of what comes after: the
\* model stops there.
Undefined == ~CrossoversFit(plant) /\ UNCHANGED vars

Next == Configure \/ Serialize \/ Boot \/ Reload \/ Undefined

Spec == Init /\ [][Next]_vars

-----------------------------------------------------------------------------
(* Properties.                                                             *)

Owners == {"routes", "automatics", "controlPoints"}
TermFields(owners) ==
    CASE owners = "routes" -> {"governedBy", "displays", "aligns", "clears", "home",
                               "proceed", "entrance", "approaching"}
      [] owners = "automatics" -> {"governs", "approach", "h", "d", "opposing"}
      [] owners = "controlPoints" -> {"governs", "block", "leaving", "home"}

Entry(p, owners, owner) == p[owners][At(p[owners], owner)]
Terms(p, owners, owner, field) == ToSet(Entry(p, owners, owner)[field])
Reported(p) == {p.gaps[i].name : i \in DOMAIN p.gaps}
Conflicts(p) == {gap.name : gap \in {g \in ToSet(p.gaps) : g.kind = "conflict"}}
Fresh == BlankPlant(author.slots, LibraryDefault)

\* What a term is bound to is part of an entry of a table; a control point line
\* has an F whether or not it is looked up by name.
InTables(p, t) ==
    CASE t.kind = "controlPoint" -> t.name \in Outputs(Named(p.controlPoints), {"H", "D", "F"})
      [] t.kind \in {"line", "automatic", "circuit"} -> t.name \in Produced(p, t.kind)
      [] t.kind = "switches" -> FindSwitch(p, t.name) /\ (t.rel = None \/ Has(p.circuits, t.rel))
      [] t.kind \in {"circuits", "controls", "masts", "automatics"} -> Has(p[t.kind], t.name)
      [] t.kind = "cut" -> Has(p.automatics, t.name)
      [] OTHER -> t = Released

\* No call goes beyond the limit that it checks, a pointer leads into a table of
\* the same plant, and a gap in the report is of one of the four kinds (the tables
\* of InterlockingPlant.h, ControlTable.h and the locations, and what they point
\* to).  The limit is the size of the array for all but the crossovers, which are
\* written behind the end of theirs: see Undefined.
TypeOK ==
    /\ \A table \in {"circuits", "lines", "switches", "crossovers", "controls", "masts",
                     "locks", "automatics", "controlPoints"} : Len(plant[table]) <= plant.slots
    /\ Len(plant.routes) <= MaxRoutes /\ Len(plant.gaps) <= MaxGaps
    /\ \A i \in DOMAIN plant.gaps :
         plant.gaps[i].kind \in {"implicit", "no_slot", "missing", "conflict"}
    /\ \A owners \in Owners : \A i \in DOMAIN plant[owners] : \A field \in TermFields(owners) :
         /\ Len(plant[owners][i][field]) <= Limit(owners, field)
         /\ origin # "reload" =>
              \A k \in DOMAIN plant[owners][i][field] : InTables(plant, plant[owners][i][field][k])

Stands(p, t) ==
    \/ ~Has(p[t.owners], t.owner)
    \/ Entry(p, t.owners, t.owner).incomplete
    \/ \E b \in Terms(p, t.owners, t.owner, t.field) : b.name = t.name \/ b = Released

\* Whatever the author asks for, in whatever order, and whatever a file that a
\* unit starts from names: a term that was asked for is among the terms of its
\* owner, or reads released for want of a slot, or its owner is at Stop.  No
\* gap makes an equation shorter (resolveFact(), noteMissing(), markIncomplete()).
NoTermLost == origin # "reload" => \A t \in asked : Stands(plant, t)

\* Every source came before the terms that name it, so that no name was said twice,
\* and no appliance is missing.
SourcesFirst(p) ==
    \A i \in DOMAIN p.gaps :
      /\ p.gaps[i].kind = "implicit"
      /\ \A kind \in {"automatic", "controlPoint", "circuit"} : p.gaps[i].name \notin Produced(p, kind)

\* The outputs of control point lines that the reader meets before the line: it
\* reads what automatic signals name before all lines, and the lines in turn.
Implicit(p) == {l.name : l \in {m \in ToSet(p.lines) : m.implicit}}
Outside(p, owners, i) ==
    {t.name : t \in {u \in UNION {ToSet(p[owners][i][field]) : field \in TermFields(owners)} :
        u.kind = "controlPoint" \/ (u.kind = "line" /\ u.name \in Implicit(p))}}
OutputsFrom(p, j) ==
    Outputs({p.controlPoints[k].name : k \in j..Len(p.controlPoints)}, {"H", "D", "F"})
ReadEarly(p) ==
    LET byAutomatics == UNION {Outside(p, "automatics", i) : i \in DOMAIN p.automatics} IN
    (byAutomatics \cap OutputsFrom(p, 1))
    \cup UNION {Outside(p, "controlPoints", i) \cap OutputsFrom(p, i + 1) :
                   i \in DOMAIN p.controlPoints}

\* What the terms of a field are bound to when the file is read.  An output that
\* is met early becomes an implicit line input, for whoever names it afterwards
\* too: line inputs are looked up first.  A route without an entrance has one.
Reread(p, owners, owner, field) ==
    LET entry == Entry(p, owners, owner) IN
    IF field = "entrance" /\ entry.entrance = <<>> /\ entry.clears # <<>>
    THEN {Bound("circuits", entry.clears[1].name)}
    ELSE {IF t.kind = "controlPoint" /\ t.name \in ReadEarly(p) THEN Bound("line", t.name) ELSE t :
             t \in ToSet(entry[field])}

\* A plant that was configured with sources first is the same plant after it
\* was saved and a unit has started from the file: the same circuits at the
\* same index, the same controls and crossovers, detectors, pairs and timeouts,
\* and every term bound to the same object, but for the outputs of control point
\* lines that the reader meets early.  Each of these is an implicit line input
\* now that shadows the line, and a conflict is reported for these and for no
\* other name (serialize() and the order of deserialize()).
StartsAsSaved ==
    origin = "boot" /\ SourcesFirst(saved) =>
      /\ plant.circuits = saved.circuits
      /\ plant.controls = saved.controls
      /\ plant.crossovers = saved.crossovers
      /\ ToSet(plant.lines) = ToSet(saved.lines)
           \cup {[name |-> n, implicit |-> TRUE, timeout |-> saved.default] : n \in ReadEarly(saved)}
      /\ Conflicts(plant) = ReadEarly(saved)
      /\ Named(plant.switches) = Named(saved.switches)
      /\ \A sw \in Named(saved.switches) :
           /\ DetectorFor(plant, sw) = DetectorFor(saved, sw)
           /\ plant.switches[At(plant.switches, sw)].pair
                = saved.switches[At(saved.switches, sw)].pair
      /\ \A owners \in Owners :
           /\ Named(plant[owners]) = Named(saved[owners])
           /\ \A owner \in Named(saved[owners]) :
                /\ Entry(plant, owners, owner).incomplete = Entry(saved, owners, owner).incomplete
                /\ \A field \in TermFields(owners) :
                     Terms(plant, owners, owner, field) = Reread(saved, owners, owner, field)

\* docs/adr/0009 has it that a generated file never conflicts: a unit that
\* starts from a saved plant, in which every source came first, reports none.
GeneratedNeverConflicts == origin = "boot" /\ SourcesFirst(saved) => Conflicts(plant) = {}

\* A name without a source is not given one by saving the plant: the plant
\* that starts from the file reports it again, unless the file declares it
\* (implicit line inputs are derived on reading, not written).
GapsStayGaps ==
    origin = "boot" =>
      \A i \in DOMAIN saved.gaps :
        LET n == saved.gaps[i].name IN
        saved.gaps[i].kind = "implicit" =>
          \/ n \in Reported(plant)
          \/ n \in Produced(plant, "circuit") \cup Produced(plant, "automatic")
                     \cup Produced(plant, "controlPoint")
          \/ \E j \in DOMAIN saved.lines : saved.lines[j].name = n /\ ~saved.lines[j].implicit

\* A plant that was read from a file is written to a file that reads back to
\* the same file: saving and starting again and again changes nothing more
\* (the second round trip of tests/test_unresolved_references.cpp).
FileSettles ==
    origin = "boot" =>
      LET again == Serialized(plant) IN
      Serialized(Deserialized(Fresh, again)) = again

\* deserialize() starts from a neutral empty plant, so that a plant read into
\* an object that was configured before has every term its file names.
ReloadKeepsTerms == origin = "reload" => \A t \in asked : Stands(plant, t)

=============================================================================
