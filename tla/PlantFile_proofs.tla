-------------------------- MODULE PlantFile_proofs --------------------------
(***************************************************************************)
(* What a program of calls leaves, and what a unit finds in the file that  *)
(* was saved, for any builds and any programs of calls.                    *)
(*                                                                         *)
(* A program that says everything once, whatever its order, is followed    *)
(* call by call (Laid, Step), and reading a file is shown to be such a     *)
(* program: its groups of calls, one for each owner, after the             *)
(* declarations (Arranged).                                                *)
(***************************************************************************)
EXTENDS PlantConfig_proofs

-----------------------------------------------------------------------------
(* The fields that a call has to do with, by its name.                     *)

CellOf(t) == <<t.owners, t.owner, t.field>>

\* All terms of a call are in these fields.
Within(T, S) == \A t \in T : CellOf(t) \in S

\* The cells of the terms that are asked for.
LEMMA AskedIs ==
    ASSUME NEW o, NEW n, NEW f, NEW ns
    PROVE  Within(Asked(o, n, f, ns), {<<o, n, f>>})
  BY DEF Within, CellOf, Asked

\* Terms of a smaller set of cells.
LEMMA WithinMore ==
    ASSUME NEW T, NEW S, NEW U, Within(T, S), S \subseteq U
    PROVE  Within(T, U)
  BY DEF Within

\* A call writes the fields R anew, makes the fields L longer, and has its
\* terms in both.
Cells(c, R, L) == Rewrites(c) = R /\ Lengthens(c) = L /\ Within(TermsOf(c), R \cup L)

\* A call for a route writes one field of it.
LEMMA RouteCells ==
    ASSUME NEW c, Callable(c), c.owners = "routes", NEW n, n = c.owner, NEW f, f = FieldOf(c.op)
    PROVE  /\ f \in TermFields("routes")
           /\ IF c.op \in {"align", "clearBlock", "homeFact"}
              THEN Cells(c, {}, {<<"routes", n, f>>}) ELSE Cells(c, {<<"routes", n, f>>}, {})
PROOF
<1>1. /\ c.op \in {"governedBy", "displays", "aligns", "align", "clears", "clearBlock",
                   "home", "homeFact", "proceed", "entrance", "approaching"}
      /\ TermsOf(c) = Asked("routes", n, f, ToSet(c.names))
  BY RouteCallIs
<1>2. f \in TermFields("routes")
  BY <1>1, FieldNames DEF FieldOf
<1>3. Within(TermsOf(c), {<<"routes", n, f>>})
  BY <1>1, AskedIs
<1>4. PICK one, no : one = {<<"routes", n, f>>} /\ no = {}
  OBVIOUS
<1>5. one \cup no = one /\ no \cup one = one /\ Within(TermsOf(c), one)
  BY <1>3, <1>4
<1>6. CASE c.op \in {"align", "clearBlock", "homeFact"}
  <2>1. Rewrites(c) = no /\ Lengthens(c) = one
    BY <1>1, <1>4, <1>6 DEF Rewrites, Lengthens
  <2> QED
    BY <1>2, <1>4, <1>5, <1>6, <2>1 DEF Cells
<1>7. CASE c.op \notin {"align", "clearBlock", "homeFact"}
  <2>1. Rewrites(c) = one /\ Lengthens(c) = no
    BY <1>1, <1>4, <1>7 DEF Rewrites, Lengthens, FieldOf
  <2> QED
    BY <1>2, <1>4, <1>5, <1>7, <2>1 DEF Cells
<1> QED
  BY <1>6, <1>7

\* What the calls for an automatic signal write.
LEMMA AutomaticCells ==
    ASSUME NEW c, Callable(c), c.owners = "automatics", NEW a, a = c.owner
    PROVE  /\ c.op \in {"governs", "approach", "reads", "opposing"} /\ Owns(c) = {}
           /\ c.op = "governs"
                => Cells(c, {}, {<<"automatics", a, "governs">>, <<"routes", a, "home">>})
           /\ c.op = "approach" => Cells(c, {}, {<<"automatics", a, "approach">>})
           /\ c.op = "reads"
                => Cells(c, {<<"automatics", a, "h">>, <<"automatics", a, "d">>, <<"routes", a, "proceed">>},
                         {<<"routes", a, "home">>})
           /\ c.op = "opposing"
                => Cells(c, {<<"automatics", a, "opposing">>}, {<<"routes", a, "home">>})
PROOF
<1>1. c.op \in {"governs", "approach", "reads", "opposing"}
  BY DEF Callable, Bindings
<1>2. Owns(c) = {}
  BY <1>1 DEF Owns
<1>3. PICK ns, n1, n2, no : ns = ToSet(c.names) /\ n1 = {c.names[1]} /\ n2 = {c.names[2]} /\ no = {}
  OBVIOUS
<1>4. ASSUME c.op = "governs"
      PROVE  Cells(c, {}, {<<"automatics", a, "governs">>, <<"routes", a, "home">>})
  <2>1. PICK L : L = {<<"automatics", a, "governs">>, <<"routes", a, "home">>}
    OBVIOUS
  <2>2. PICK A, B : A = Asked("automatics", a, "governs", ns) /\ B = Asked("routes", a, "home", ns)
    OBVIOUS
  <2>3. Within(A, {<<"automatics", a, "governs">>}) /\ Within(B, {<<"routes", a, "home">>})
    BY <2>2, AskedIs
  <2>6. TermsOf(c) = A \cup B
    BY <1>3, <1>4, <2>2 DEF TermsOf, FieldOf
  <2>4. Within(TermsOf(c), no \cup L)
    BY <2>1, <2>3, <2>6 DEF Within
  <2>5. Rewrites(c) = no /\ Lengthens(c) = L
    BY <1>3, <1>4, <2>1 DEF Rewrites, Lengthens
  <2> QED
    BY <1>3, <2>1, <2>4, <2>5 DEF Cells
<1>5. ASSUME c.op = "approach"
      PROVE  Cells(c, {}, {<<"automatics", a, "approach">>})
  <2>1. PICK L : L = {<<"automatics", a, "approach">>}
    OBVIOUS
  <2>2. TermsOf(c) = Asked("automatics", a, "approach", ns) \cup {}
    BY <1>3, <1>5 DEF TermsOf, FieldOf
  <2>3. TermsOf(c) = Asked("automatics", a, "approach", ns) /\ L \subseteq no \cup L
    BY <2>2
  <2>4. Within(TermsOf(c), no \cup L)
    BY <2>1, <2>3, AskedIs, WithinMore
  <2>5. Rewrites(c) = no /\ Lengthens(c) = L
    BY <1>3, <1>5, <2>1 DEF Rewrites, Lengthens
  <2> QED
    BY <1>3, <2>1, <2>4, <2>5 DEF Cells
<1>6. ASSUME c.op = "reads"
      PROVE  Cells(c, {<<"automatics", a, "h">>, <<"automatics", a, "d">>, <<"routes", a, "proceed">>},
                   {<<"routes", a, "home">>})
  <2>1. PICK R, L : /\ R = {<<"automatics", a, "h">>, <<"automatics", a, "d">>, <<"routes", a, "proceed">>}
                    /\ L = {<<"routes", a, "home">>}
    OBVIOUS
  <2>2. PICK A, B, C, D : /\ A = Asked("automatics", a, "h", n1) /\ B = Asked("routes", a, "home", n1)
                          /\ C = Asked("automatics", a, "d", n2) /\ D = Asked("routes", a, "proceed", n2)
    OBVIOUS
  <2>3. TermsOf(c) = A \cup B \cup C \cup D
    BY <1>3, <1>6, <2>2 DEF TermsOf
  <2>4. /\ {<<"automatics", a, "h">>} \subseteq R \cup L /\ {<<"routes", a, "home">>} \subseteq R \cup L
        /\ {<<"automatics", a, "d">>} \subseteq R \cup L /\ {<<"routes", a, "proceed">>} \subseteq R \cup L
    BY <2>1
  <2>5. Within(A, R \cup L) /\ Within(B, R \cup L) /\ Within(C, R \cup L) /\ Within(D, R \cup L)
    <3>1. /\ Within(A, {<<"automatics", a, "h">>}) /\ Within(B, {<<"routes", a, "home">>})
          /\ Within(C, {<<"automatics", a, "d">>}) /\ Within(D, {<<"routes", a, "proceed">>})
      BY <2>2, AskedIs
    <3> QED
      BY <2>4, <3>1, WithinMore
  <2>6. Within(TermsOf(c), R \cup L)
    BY <2>3, <2>5 DEF Within
  <2>7. Rewrites(c) = R /\ Lengthens(c) = L
    BY <1>6, <2>1 DEF Rewrites, Lengthens
  <2> QED
    BY <2>1, <2>6, <2>7 DEF Cells
<1>7. ASSUME c.op = "opposing"
      PROVE  Cells(c, {<<"automatics", a, "opposing">>}, {<<"routes", a, "home">>})
  <2>1. PICK R, L : R = {<<"automatics", a, "opposing">>} /\ L = {<<"routes", a, "home">>}
    OBVIOUS
  <2>2. TermsOf(c) = Asked("automatics", a, "opposing", ns) \cup {}
    BY <1>3, <1>7 DEF TermsOf, FieldOf
  <2>3. TermsOf(c) = Asked("automatics", a, "opposing", ns) /\ R \subseteq R \cup L
    BY <2>2
  <2>4. Within(TermsOf(c), R \cup L)
    BY <2>1, <2>3, AskedIs, WithinMore
  <2>5. Rewrites(c) = R /\ Lengthens(c) = L
    BY <1>7, <2>1 DEF Rewrites, Lengthens
  <2> QED
    BY <2>1, <2>4, <2>5 DEF Cells
<1> QED
  BY <1>1, <1>2, <1>4, <1>5, <1>6, <1>7

\* What the calls for a control point line write.
LEMMA ControlPointCells ==
    ASSUME NEW c, Callable(c), c.owners = "controlPoints", NEW l, l = c.owner
    PROVE  /\ c.op \in {"governs", "block", "leaving", "home", "traffic"} /\ Owns(c) = {}
           /\ c.op = "home" => Cells(c, {<<"controlPoints", l, "home">>}, {})
           /\ c.op = "traffic" => Cells(c, {}, {})
           /\ \A f \in {"governs", "block", "leaving"} :
                c.op = f => Cells(c, {}, {<<"controlPoints", l, f>>})
PROOF
<1>1. c.op \in {"governs", "block", "leaving", "home", "traffic"}
  BY DEF Callable, Bindings
<1>2. Owns(c) = {}
  BY <1>1 DEF Owns
<1>3. PICK ns, no : ns = ToSet(c.names) /\ no = {}
  OBVIOUS
<1>4. ASSUME c.op = "home"
      PROVE  Cells(c, {<<"controlPoints", l, "home">>}, {})
  <2>1. PICK R : R = {<<"controlPoints", l, "home">>}
    OBVIOUS
  <2>2. TermsOf(c) = Asked("controlPoints", l, "home", ns) \cup {}
    BY <1>3, <1>4 DEF TermsOf, FieldOf
  <2>3. TermsOf(c) = Asked("controlPoints", l, "home", ns) /\ R \subseteq R \cup no
    BY <2>2
  <2>4. Within(TermsOf(c), R \cup no)
    BY <2>1, <2>3, AskedIs, WithinMore
  <2>5. Rewrites(c) = R /\ Lengthens(c) = no
    BY <1>3, <1>4, <2>1 DEF Rewrites, Lengthens
  <2> QED
    BY <1>3, <2>1, <2>4, <2>5 DEF Cells
<1>5. ASSUME c.op = "traffic"
      PROVE  Cells(c, {}, {})
  BY <1>5 DEF Cells, Rewrites, Lengthens, TermsOf, Within
<1>6. ASSUME NEW f \in {"governs", "block", "leaving"}, c.op = f
      PROVE  Cells(c, {}, {<<"controlPoints", l, f>>})
  <2>1. PICK L : L = {<<"controlPoints", l, f>>}
    OBVIOUS
  <2>2. TermsOf(c) = Asked("controlPoints", l, f, ns) \cup {}
    BY <1>3, <1>6 DEF TermsOf, FieldOf
  <2>3. TermsOf(c) = Asked("controlPoints", l, f, ns) /\ L \subseteq no \cup L
    BY <2>2
  <2>4. Within(TermsOf(c), no \cup L)
    BY <2>1, <2>3, AskedIs, WithinMore
  <2>5. Rewrites(c) = no /\ Lengthens(c) = L
    BY <1>3, <1>6, <2>1 DEF Rewrites, Lengthens
  <2> QED
    BY <1>3, <2>1, <2>4, <2>5 DEF Cells
<1> QED
  BY <1>1, <1>2, <1>4, <1>5, <1>6

\* The fields are of the owner that the call binds, or of the route of that
\* automatic signal, and none of those that a declaration writes is one that
\* a call makes longer.
Reaches(k, o) == o = k \/ (o = "routes" /\ k = "automatics")
OfOwner(x, k, n) ==
    \E o \in Owners : \E f \in TermFields(o) : x = <<o, n, f>> /\ Reaches(k, o)
Growing(x) == \A n : x # <<"routes", n, "displays">> /\ x # <<"controlPoints", n, "home">>

\* A call for an owner writes into that owner.
LEMMA ReachesIs ==
    ASSUME NEW k
    PROVE  Reaches(k, k)
  BY DEF Reaches

\* A field of an owner that a call reaches.
LEMMA OfOwnerIs ==
    ASSUME NEW k, NEW o \in Owners, NEW f \in TermFields(o), NEW n, NEW x, x = <<o, n, f>>, Reaches(k, o)
    PROVE  OfOwner(x, k, n)
  BY DEF OfOwner

\* A binding declares nothing, and what it asks for is what it writes.
LEMMA BindingIs ==
    ASSUME NEW c, Callable(c), c.owners # ""
    PROVE  /\ Owns(c) = {}
           /\ Within(TermsOf(c), Rewrites(c) \cup Lengthens(c))
           /\ \A x \in Rewrites(c) : x \notin Lengthens(c)
           /\ \A x \in Rewrites(c) \cup Lengthens(c) : OfOwner(x, c.owners, c.owner)
           /\ \A x \in Lengthens(c) : Growing(x)
PROOF
<1>1. PICK n, k : n = c.owner /\ k = c.owners
  OBVIOUS
<1>2. c.owners \in {"routes", "automatics", "controlPoints"}
  BY DEF Callable, Bindings
<1>3. ASSUME NEW R, NEW L, Cells(c, R, L), Owns(c) = {}, \A x \in R : x \notin L,
             \A x \in R \cup L : OfOwner(x, k, n), \A x \in L : Growing(x)
      PROVE  /\ Owns(c) = {}
             /\ Within(TermsOf(c), Rewrites(c) \cup Lengthens(c))
             /\ \A x \in Rewrites(c) : x \notin Lengthens(c)
             /\ \A x \in Rewrites(c) \cup Lengthens(c) : OfOwner(x, c.owners, c.owner)
             /\ \A x \in Lengthens(c) : Growing(x)
  BY <1>1, <1>3 DEF Cells
<1>4. "routes" \in Owners /\ "automatics" \in Owners /\ "controlPoints" \in Owners
  BY DEF Owners
<1>5. \A f : f # "displays" => Growing(<<"routes", n, f>>)
  BY DEF Growing
<1>6. \A f : f # "home" => Growing(<<"controlPoints", n, f>>)
  BY DEF Growing
<1>7. \A f : Growing(<<"automatics", n, f>>)
  BY DEF Growing
<1>8. PICK no : no = {}
  OBVIOUS
<1>9. CASE c.owners = "routes"
  <2>1. PICK f, one : f = FieldOf(c.op) /\ one = {<<"routes", n, f>>}
    OBVIOUS
  <2>2. /\ f \in TermFields("routes") /\ Owns(c) = {}
        /\ IF c.op \in {"align", "clearBlock", "homeFact"} THEN Cells(c, no, one) ELSE Cells(c, one, no)
    BY <1>1, <1>8, <1>9, <2>1, RouteCells, RouteCallIs
  <2>6. PICK y : y = <<"routes", n, f>>
    OBVIOUS
  <2>3. OfOwner(y, k, n)
    <3>1. k = "routes" /\ Reaches(k, k)
      BY <1>1, <1>9, ReachesIs
    <3> QED
      BY <1>4, <2>2, <2>6, <3>1, OfOwnerIs
  <2>4. CASE c.op \in {"align", "clearBlock", "homeFact"}
    <3>1. f # "displays"
      BY <2>1, <2>4 DEF FieldOf
    <3>2. /\ \A x \in no : x \notin one
          /\ \A x \in no \cup one : OfOwner(x, k, n)
          /\ \A x \in one : Growing(x)
      BY <1>5, <1>8, <2>1, <2>3, <2>6, <3>1
    <3> QED
      BY <1>3, <2>2, <2>4, <3>2
  <2>5. CASE c.op \notin {"align", "clearBlock", "homeFact"}
    <3>1. /\ \A x \in one : x \notin no
          /\ \A x \in one \cup no : OfOwner(x, k, n)
          /\ \A x \in no : Growing(x)
      BY <1>8, <2>1, <2>3, <2>6
    <3> QED
      BY <1>3, <2>2, <2>5, <3>1
  <2> QED
    BY <2>4, <2>5
<1>10. CASE c.owners = "automatics"
  <2>1. PICK g, ap, h, d, op, home, pro :
          /\ g = <<"automatics", n, "governs">> /\ ap = <<"automatics", n, "approach">>
          /\ h = <<"automatics", n, "h">> /\ d = <<"automatics", n, "d">>
          /\ op = <<"automatics", n, "opposing">>
          /\ home = <<"routes", n, "home">> /\ pro = <<"routes", n, "proceed">>
    OBVIOUS
  <2>2. /\ OfOwner(g, k, n) /\ OfOwner(ap, k, n) /\ OfOwner(h, k, n) /\ OfOwner(d, k, n)
        /\ OfOwner(op, k, n)
        /\ OfOwner(home, k, n) /\ OfOwner(pro, k, n)
    BY <1>1, <1>4, <1>10, <2>1, FieldNames DEF OfOwner, Reaches
  <2>3. Growing(g) /\ Growing(ap) /\ Growing(home)
    BY <1>5, <1>7, <2>1
  <2>4. h # home /\ d # home /\ pro # home /\ op # home
    BY <2>1
  <2>5. /\ c.op \in {"governs", "approach", "reads", "opposing"} /\ Owns(c) = {}
        /\ c.op = "governs" => Cells(c, no, {g, home})
        /\ c.op = "approach" => Cells(c, no, {ap})
        /\ c.op = "reads" => Cells(c, {h, d, pro}, {home})
        /\ c.op = "opposing" => Cells(c, {op}, {home})
    BY <1>1, <1>8, <1>10, <2>1, AutomaticCells
  <2>6. CASE c.op = "governs"
    <3>1. /\ \A x \in no : x \notin {g, home}
          /\ \A x \in no \cup {g, home} : OfOwner(x, k, n)
          /\ \A x \in {g, home} : Growing(x)
      BY <1>8, <2>2, <2>3
    <3> QED
      BY <1>3, <2>5, <2>6, <3>1
  <2>7. CASE c.op = "approach"
    <3>1. /\ \A x \in no : x \notin {ap}
          /\ \A x \in no \cup {ap} : OfOwner(x, k, n)
          /\ \A x \in {ap} : Growing(x)
      BY <1>8, <2>2, <2>3
    <3> QED
      BY <1>3, <2>5, <2>7, <3>1
  <2>8. CASE c.op = "reads"
    <3>1. /\ \A x \in {h, d, pro} : x \notin {home}
          /\ \A x \in {h, d, pro} \cup {home} : OfOwner(x, k, n)
          /\ \A x \in {home} : Growing(x)
      BY <2>2, <2>3, <2>4
    <3> QED
      BY <1>3, <2>5, <2>8, <3>1
  <2>9. CASE c.op = "opposing"
    <3>1. /\ \A x \in {op} : x \notin {home}
          /\ \A x \in {op} \cup {home} : OfOwner(x, k, n)
          /\ \A x \in {home} : Growing(x)
      BY <2>2, <2>3, <2>4
    <3> QED
      BY <1>3, <2>5, <2>9, <3>1
  <2> QED
    BY <2>5, <2>6, <2>7, <2>8, <2>9
<1>11. CASE c.owners = "controlPoints"
  <2>1. PICK f, one : f = c.op /\ one = {<<"controlPoints", n, f>>}
    OBVIOUS
  <2>2. /\ f \in {"governs", "block", "leaving", "home", "traffic"} /\ Owns(c) = {}
        /\ f = "home" => Cells(c, one, no)
        /\ f = "traffic" => Cells(c, no, no)
        /\ f \in {"governs", "block", "leaving"} => Cells(c, no, one)
    BY <1>1, <1>8, <1>11, <2>1, ControlPointCells
  <2>7. PICK y : y = <<"controlPoints", n, f>>
    OBVIOUS
  <2>3. f # "traffic" => OfOwner(y, k, n)
    <3>1. k = "controlPoints" /\ Reaches(k, k)
      BY <1>1, <1>11, ReachesIs
    <3>2. f # "traffic" => f \in TermFields("controlPoints")
      BY <2>2, FieldNames
    <3> QED
      BY <1>4, <2>7, <3>1, <3>2, OfOwnerIs
  <2>4. CASE f = "home"
    <3>1. /\ \A x \in one : x \notin no
          /\ \A x \in one \cup no : OfOwner(x, k, n)
          /\ \A x \in no : Growing(x)
      BY <1>8, <2>1, <2>3, <2>4, <2>7
    <3> QED
      BY <1>3, <2>2, <2>4, <3>1
  <2>5. CASE f = "traffic"
    <3>1. /\ \A x \in no : x \notin no
          /\ \A x \in no \cup no : OfOwner(x, k, n)
          /\ \A x \in no : Growing(x)
      BY <1>8
    <3> QED
      BY <1>3, <2>2, <2>5, <3>1
  <2>6. CASE f \in {"governs", "block", "leaving"}
    <3>1. /\ \A x \in no : x \notin one
          /\ \A x \in no \cup one : OfOwner(x, k, n)
          /\ \A x \in one : Growing(x)
      BY <1>6, <1>8, <2>1, <2>3, <2>6, <2>7
    <3> QED
      BY <1>3, <2>2, <2>6, <3>1
  <2> QED
    BY <2>2, <2>4, <2>5, <2>6
<1> QED
  BY <1>2, <1>9, <1>10, <1>11

\* A declaration asks for nothing, and writes the mast of what it declares.
LEMMA DeclaringIs ==
    ASSUME NEW c, Callable(c), c.owners = ""
    PROVE  /\ TermsOf(c) = {} /\ Lengthens(c) = {}
           /\ \A x \in Rewrites(c) : ~Growing(x)
           /\ \A o, n : <<o, n>> \in Owns(c) => o \in Owners /\ n = c.names[1]
           /\ \A n : <<"automatics", n>> \in Owns(c) <=> c.op = "addAutomaticSignal" /\ n = c.names[1]
           /\ \A n : <<"automatics", n>> \in Owns(c) => <<"routes", n>> \in Owns(c)
PROOF
<1>1. c.op \in Declarations
  BY DEF Callable, Bindings
<1>2. TermsOf(c) = {} /\ Lengthens(c) = {}
  BY <1>1 DEF TermsOf, Lengthens, Declarations
<1>3. \A x \in Rewrites(c) : ~Growing(x)
  BY <1>1 DEF Rewrites, Declarations, Growing
<1>4. \A o, n : <<o, n>> \in Owns(c) => o \in Owners /\ n = c.names[1]
  BY DEF Owns, Owners
<1>5. \A n : <<"automatics", n>> \in Owns(c) <=> c.op = "addAutomaticSignal" /\ n = c.names[1]
  BY DEF Owns
<1>6. \A n : <<"automatics", n>> \in Owns(c) => <<"routes", n>> \in Owns(c)
  BY DEF Owns
<1> QED
  BY <1>2, <1>3, <1>4, <1>5, <1>6

\* The terms of a call, one by one.
LEMMA TermIs ==
    ASSUME NEW c, Callable(c), NEW t \in TermsOf(c)
    PROVE  /\ c.owners # "" /\ c.owners \in Owners
           /\ t.owners \in Owners /\ t.field \in TermFields(t.owners) /\ t.owner = c.owner
           /\ Reaches(c.owners, t.owners)
           /\ CellOf(t) \in Rewrites(c) \cup Lengthens(c)
PROOF
<1>1. c.owners # ""
  BY DeclaringIs
<1>2. c.owners \in Owners
  BY <1>1 DEF Callable, Bindings, Owners
<1>3. CellOf(t) \in Rewrites(c) \cup Lengthens(c)
  BY <1>1, BindingIs DEF Within
<1>4. OfOwner(CellOf(t), c.owners, c.owner)
  BY <1>1, <1>3, BindingIs
<1>5. PICK o, f : /\ o \in Owners /\ f \in TermFields(o) /\ CellOf(t) = <<o, c.owner, f>>
                  /\ Reaches(c.owners, o)
  BY <1>4 DEF OfOwner
<1>6. t.owners = o /\ t.owner = c.owner /\ t.field = f
  BY <1>5 DEF CellOf
<1> QED
  BY <1>1, <1>2, <1>3, <1>5, <1>6

-----------------------------------------------------------------------------
(* What a declaration puts into the tables of owners.                      *)

\* An owner that was not there before has no term, but for the mast that the
\* declaration itself looks up; an automatic signal that fits is flagged.
BareAfter(p, q, c) ==
    \A o \in Owners : \A n : \A f \in TermFields(o) :
      <<o, n>> \in Owns(c) /\ ~Has(p[o], n) /\ Has(q[o], n) /\ Clean(p) /\ <<o, n, f>> \notin Rewrites(c)
        => Bare(q, o, n, f)
FlaggedAfter(p, q, c) ==
    \A n : <<"automatics", n>> \in Owns(c)
      => q = p \/ (Has(q["automatics"], n) /\ (Has(q["routes"], n) => Flagged(q, n)))

\* At most one owner more in every table.
LEMMA GrewMore ==
    ASSUME NEW p, NEW q, NEW T, Grew(p, q, T)
    PROVE  Grew(p, q, Owners)
  BY DEF Grew

\* A declared owner has nothing bound but what its declaration says, and the
\* route of an automatic signal is automatic.
LEMMA OwnersAdded ==
    ASSUME NEW p, IsPlant(p), NEW c, Callable(c), NEW q, q = Configured(p, c)
    PROVE  Grew(p, q, Owners) /\ BareAfter(p, q, c) /\ FlaggedAfter(p, q, c)
PROOF
<1>1. PICK n : n = c.names[1]
  OBVIOUS
<1>2. ASSUME Owns(c) = {}
      PROVE  Grew(p, q, Owners) /\ BareAfter(p, q, c) /\ FlaggedAfter(p, q, c)
  <2>1. Keeps(p, q, Rewrites(c), Lengthens(c), {})
    BY <1>2, ConfiguredKeeps DEF Changes
  <2>2. Grew(p, q, Owners)
    BY <2>1, GrewNone
  <2> QED
    BY <1>2, <2>2 DEF BareAfter, FlaggedAfter
<1>3. CASE c.owners # ""
  BY <1>2, <1>3, BindingIs
<1>4. CASE c.owners = "" /\ c.op \notin {"addAutomaticSignal", "addControlPointLine", "route"}
  <2>1. Owns(c) = {}
    BY <1>4 DEF Owns
  <2> QED
    BY <1>2, <2>1
<1>5. CASE c.owners = "" /\ c.op \in {"addAutomaticSignal", "addControlPointLine", "route"}
  <2>0. q = Declared(p, c) /\ n \in Text
    <3>1. Len(c.names) = 1
      BY <1>5 DEF Callable, Bindings, TakesList, Arity
    <3> QED
      BY <1>1, <1>5, <3>1, NamesOf DEF Configured
  <2>1. CASE c.op = "addAutomaticSignal"
    <3>1. q = AddAutomaticSignal(p, n)
      BY <1>1, <2>0, <2>1 DEF Declared
    <3>2. Owns(c) = {<<"routes", n>>, <<"automatics", n>>} /\ Rewrites(c) = {<<"routes", n, "displays">>}
      BY <1>1, <2>1 DEF Owns, Rewrites
    <3>3. /\ Grew(p, q, {"routes", "automatics"})
          /\ q = p \/ (Has(q["automatics"], n) /\ (Has(q["routes"], n) => Flagged(q, n)))
          /\ \A f \in TermFields("routes") \ {"displays"} :
               ~Has(p["routes"], n) /\ Has(q["routes"], n) => Bare(q, "routes", n, f)
          /\ ~Has(p["automatics"], n) /\ Has(q["automatics"], n) /\ Clean(p)
               => \A f \in TermFields("automatics") : Bare(q, "automatics", n, f)
      BY <2>0, <3>1, AddAutomaticSignalKeeps
    <3>4. ASSUME NEW o \in Owners, NEW m, NEW f \in TermFields(o), <<o, m>> \in Owns(c), ~Has(p[o], m),
                 Has(q[o], m), Clean(p), <<o, m, f>> \notin Rewrites(c)
          PROVE  Bare(q, o, m, f)
      <4>1. m = n /\ o \in {"routes", "automatics"} /\ (o = "routes" => f # "displays")
        BY <3>2, <3>4
      <4>2. CASE o = "routes"
        BY <3>3, <3>4, <4>1, <4>2
      <4>3. CASE o = "automatics"
        BY <3>3, <3>4, <4>1, <4>3
      <4> QED
        BY <4>1, <4>2, <4>3
    <3>5. BareAfter(p, q, c)
      BY <3>4 DEF BareAfter
    <3>6. FlaggedAfter(p, q, c)
      <4>1. \A m : <<"automatics", m>> \in Owns(c) => m = n
        BY <3>2
      <4> QED
        BY <3>3, <4>1 DEF FlaggedAfter
    <3> QED
      BY <3>3, <3>5, <3>6, GrewMore
  <2>2. CASE c.op = "addControlPointLine"
    <3>1. q = AddControlPointLine(p, n)
      BY <1>1, <2>0, <2>2 DEF Declared
    <3>2. Owns(c) = {<<"controlPoints", n>>} /\ Rewrites(c) = {<<"controlPoints", n, "home">>}
      BY <1>1, <2>2 DEF Owns, Rewrites
    <3>3. /\ Grew(p, q, {"controlPoints"})
          /\ ~Has(p["controlPoints"], n) /\ Has(q["controlPoints"], n) /\ Clean(p)
               => \A f \in TermFields("controlPoints") \ {"home"} : Bare(q, "controlPoints", n, f)
      BY <2>0, <3>1, AddControlPointLineKeeps
    <3>4. BareAfter(p, q, c)
      BY <3>2, <3>3 DEF BareAfter
    <3>5. FlaggedAfter(p, q, c)
      BY <3>2 DEF FlaggedAfter
    <3> QED
      BY <3>3, <3>4, <3>5, GrewMore
  <2>3. CASE c.op = "route"
    <3>1. q = AddRoute(p, n)
      BY <1>1, <2>0, <2>3 DEF Declared
    <3>2. Owns(c) = {<<"routes", n>>}
      BY <1>1, <2>3 DEF Owns
    <3>3. /\ Grew(p, q, {"routes"})
          /\ \A f \in TermFields("routes") :
               ~Has(p["routes"], n) /\ Has(q["routes"], n) => Bare(q, "routes", n, f)
      BY <2>0, <3>1, AddRouteKeeps
    <3>4. BareAfter(p, q, c)
      BY <3>2, <3>3 DEF BareAfter
    <3>5. FlaggedAfter(p, q, c)
      BY <3>2 DEF FlaggedAfter
    <3> QED
      BY <3>3, <3>4, <3>5, GrewMore
  <2> QED
    BY <1>5, <2>1, <2>2, <2>3
<1> QED
  BY <1>3, <1>4, <1>5

-----------------------------------------------------------------------------
(* Programs of calls: what the calls that were made have laid down.        *)

\* The calls of a program by whatever index, each said once.
Program(call) ==
    /\ IsFiniteSet(DOMAIN call) /\ SaysOnce(call)
    /\ \A i \in DOMAIN call : Callable(call[i])

\* A call that binds an automatic signal binds its route as well.
Binds(c, o, n) == c.owners # "" /\ c.owner = n /\ Reaches(c.owners, o)
Longer(call, D, x) == {d \in D : x \in Lengthens(call[d])}

\* After the calls of D: what is in the tables of owners was declared by one of
\* them, under one name; their terms are there; their owners are not declared
\* by a call that is still to come; a route that an automatic signal brought is
\* flagged; and an array has no more terms than calls that make it longer.
Founded(p, call, D) ==
    \A o \in Owners : \A n : Has(p[o], n) => \E d \in D : <<o, n>> \in Owns(call[d])
Once(p) ==
    \A o \in Owners : \A i, j \in 1 .. Len(p[o]) : p[o][i].name = p[o][j].name => i = j
Met(p, call, D) == \A d \in D : Meets(p, call[d])
Settled(call, D) ==
    \A d \in D : \A j \in DOMAIN call \ D : \A o, n :
      Binds(call[d], o, n) => <<o, n>> \notin Owns(call[j])
Signalled(p, call, D) ==
    \A n : \A d \in D :
      <<"automatics", n>> \in Owns(call[d]) /\ Has(p["routes"], n)
        => Has(p["automatics"], n) /\ Flagged(p, n)
Counted(p, call, D) ==
    \A o \in Owners : \A n : \A f \in TermFields(o) : \A i \in DOMAIN call :
      <<o, n, f>> \in Lengthens(call[i]) /\ Has(p[o], n)
        => Len(Held(p, o, n, f)) <= Cardinality(Longer(call, D, <<o, n, f>>))
Laid(p, call, D) ==
    /\ IsPlant(p) /\ Clean(p) /\ Founded(p, call, D) /\ Once(p) /\ Met(p, call, D)
    /\ Settled(call, D) /\ Signalled(p, call, D) /\ Counted(p, call, D)

\* One more call, of an owner that no later call declares; a call whose owner
\* is not there finds no route of that name either.
Step(p, call, D, i, q) ==
    /\ Program(call) /\ D \subseteq DOMAIN call /\ i \in DOMAIN call \ D
    /\ Laid(p, call, D) /\ q = Configured(p, call[i])
    /\ \A j \in DOMAIN call \ (D \cup {i}) : \A o, n :
         Binds(call[i], o, n) => <<o, n>> \notin Owns(call[j])
    /\ \A o, n : Binds(call[i], o, n) /\ ~Has(p[call[i].owners], n) => ~Has(p[o], n)

\* What two calls of a program have in common.
LEMMA TwoCalls ==
    ASSUME NEW call, Program(call), NEW i \in DOMAIN call, NEW j \in DOMAIN call, i # j,
           NEW c, c = call[i], NEW d, d = call[j], NEW o, NEW n
    PROVE  /\ ~(<<o, n>> \in Owns(c) /\ <<o, n>> \in Owns(d))
           /\ \A f : <<o, n, f>> \in Rewrites(c) /\ <<o, n, f>> \in Rewrites(d) \cup Lengthens(d)
                => <<o, n>> \in Owns(c) \/ <<o, n>> \in Owns(d)
PROOF
<1>1. /\ Owns(c) \cap Owns(d) = {}
      /\ \A x \in Rewrites(c) \cap (Rewrites(d) \cup Lengthens(d)) :
            <<x[1], x[2]>> \in Owns(c) \cup Owns(d)
  BY DEF Program, SaysOnce
<1>2. ASSUME NEW f, <<o, n, f>> \in Rewrites(c), <<o, n, f>> \in Rewrites(d) \cup Lengthens(d)
      PROVE  <<o, n>> \in Owns(c) \/ <<o, n>> \in Owns(d)
  <2>1. PICK x : x = <<o, n, f>>
    OBVIOUS
  <2>2. x[1] = o /\ x[2] = n
    BY <2>1
  <2>3. x \in Rewrites(c) \cap (Rewrites(d) \cup Lengthens(d))
    BY <1>2, <2>1
  <2>4. <<x[1], x[2]>> \in Owns(c) \cup Owns(d)
    BY <1>1, <2>3
  <2> QED
    BY <2>2, <2>4
<1> QED
  BY <1>1, <1>2

\* No call rewrites what another one makes longer.
LEMMA NotRewritten ==
    ASSUME NEW call, Program(call), NEW i \in DOMAIN call, NEW j \in DOMAIN call,
           NEW c, c = call[i], NEW d, d = call[j], NEW o, NEW n, NEW f, <<o, n, f>> \in Lengthens(d)
    PROVE  <<o, n, f>> \notin Rewrites(c)
PROOF
<1>1. Callable(c) /\ Callable(d)
  BY DEF Program
<1>2. d.owners # ""
  BY <1>1, DeclaringIs
<1>3. Owns(d) = {} /\ Growing(<<o, n, f>>) /\ <<o, n, f>> \notin Rewrites(d)
  BY <1>1, <1>2, BindingIs
<1>4. SUFFICES ASSUME <<o, n, f>> \in Rewrites(c)
               PROVE  FALSE
  OBVIOUS
<1>5. c.owners # ""
  BY <1>1, <1>3, <1>4, DeclaringIs
<1>6. Owns(c) = {}
  BY <1>1, <1>5, BindingIs
<1>7. i # j
  BY <1>3, <1>4
<1> QED
  BY <1>3, <1>4, <1>6, <1>7, TwoCalls

\* What a step has to work with.
LEMMA StepIs ==
    ASSUME NEW p, NEW call, NEW D, NEW i, NEW q, Step(p, call, D, i, q), NEW c, c = call[i]
    PROVE  /\ Program(call) /\ D \subseteq DOMAIN call /\ i \in DOMAIN call /\ i \notin D
           /\ IsPlant(p) /\ Callable(c) /\ q = Configured(p, c) /\ IsPlant(q)
           /\ Keeps(p, q, Rewrites(c), Lengthens(c), Owns(c))
           /\ Grew(p, q, Owners) /\ BareAfter(p, q, c) /\ FlaggedAfter(p, q, c)
           /\ \A o, n : Binds(c, o, n) /\ ~Has(p[c.owners], n) => ~Has(p[o], n)
PROOF
<1>1. IsPlant(p) /\ Callable(c) /\ q = Configured(p, c) /\ Program(call) /\ i \in DOMAIN call
  BY DEF Step, Laid, Program
<1>2. Keeps(p, q, Rewrites(c), Lengthens(c), Owns(c))
  BY <1>1, ConfiguredKeeps DEF Changes
<1>3. IsPlant(q)
  BY <1>2 DEF Keeps
<1>4. Grew(p, q, Owners) /\ BareAfter(p, q, c) /\ FlaggedAfter(p, q, c)
  BY <1>1, OwnersAdded
<1> QED
  BY <1>1, <1>2, <1>3, <1>4 DEF Step

\* An owner that a call declares was not there before it.
LEMMA NotYet ==
    ASSUME NEW p, NEW call, NEW D, NEW i, NEW q, Step(p, call, D, i, q), NEW c, c = call[i],
           NEW o \in Owners, NEW n, <<o, n>> \in Owns(c)
    PROVE  ~Has(p[o], n)
PROOF
<1>1. Program(call) /\ D \subseteq DOMAIN call /\ i \in DOMAIN call /\ i \notin D
  BY StepIs
<1>2. SUFFICES ASSUME Has(p[o], n)
               PROVE  FALSE
  OBVIOUS
<1>3. PICK d \in D : <<o, n>> \in Owns(call[d])
  BY <1>2 DEF Step, Laid, Founded
<1>4. PICK e : e = call[d]
  OBVIOUS
<1>5. d \in DOMAIN call /\ d # i
  BY <1>1
<1> QED
  BY <1>1, <1>3, <1>4, <1>5, TwoCalls

\* A step of a program that started with a new plant leaves no slots in use.
LEMMA StepClean ==
    ASSUME NEW p, NEW call, NEW D, NEW i, NEW q, Step(p, call, D, i, q)
    PROVE  IsPlant(q) /\ Clean(q)
PROOF
<1>1. PICK c : c = call[i]
  OBVIOUS
<1>2. Keeps(p, q, Rewrites(c), Lengthens(c), Owns(c)) /\ IsPlant(q)
  BY <1>1, StepIs
<1>3. Clean(p)
  BY DEF Step, Laid
<1> QED
  BY <1>2, <1>3, KeptFields

\* Every owner was declared by one of the calls made.
LEMMA StepFounded ==
    ASSUME NEW p, NEW call, NEW D, NEW i, NEW q, Step(p, call, D, i, q)
    PROVE  Founded(q, call, D \cup {i})
PROOF
<1>1. PICK c : c = call[i]
  OBVIOUS
<1>2. Keeps(p, q, Rewrites(c), Lengthens(c), Owns(c)) /\ IsPlant(p)
  BY <1>1, StepIs
<1>3. ASSUME NEW o \in Owners, NEW n, Has(q[o], n)
      PROVE  \E d \in D \cup {i} : <<o, n>> \in Owns(call[d])
  <2>1. CASE Has(p[o], n)
    <3>1. \E d \in D : <<o, n>> \in Owns(call[d])
      BY <2>1 DEF Step, Laid, Founded
    <3> QED
      BY <3>1
  <2>2. CASE ~Has(p[o], n)
    <3>1. <<o, n>> \in Owns(c)
      BY <1>2, <1>3, <2>2, NotDeclared
    <3> QED
      BY <1>1, <3>1
  <2> QED
    BY <2>1, <2>2
<1> QED
  BY <1>3 DEF Founded

\* The calls that declare an owner come before those that bind it.
LEMMA StepSettled ==
    ASSUME NEW p, NEW call, NEW D, NEW i, NEW q, Step(p, call, D, i, q)
    PROVE  Settled(call, D \cup {i})
PROOF
<1>1. ASSUME NEW d \in D \cup {i}, NEW j \in DOMAIN call \ (D \cup {i}), NEW o, NEW n,
             Binds(call[d], o, n)
      PROVE  <<o, n>> \notin Owns(call[j])
  <2>1. CASE d = i
    BY <1>1, <2>1 DEF Step
  <2>2. CASE d \in D
    BY <1>1, <2>2 DEF Step, Laid, Settled
  <2> QED
    BY <2>1, <2>2
<1> QED
  BY <1>1 DEF Settled

\* No two entries of one name: a table grows by one entry at most, and by none
\* whose name is there.
LEMMA StepOnce ==
    ASSUME NEW p, NEW call, NEW D, NEW i, NEW q, Step(p, call, D, i, q)
    PROVE  Once(q)
PROOF
<1>1. PICK c : c = call[i]
  OBVIOUS
<1>2. Keeps(p, q, Rewrites(c), Lengthens(c), Owns(c)) /\ IsPlant(p) /\ IsPlant(q) /\ Grew(p, q, Owners)
  BY <1>1, StepIs
<1>3. ASSUME NEW o \in Owners, NEW k \in 1 .. Len(q[o]), NEW m \in 1 .. Len(q[o]),
             q[o][k].name = q[o][m].name, k < m
      PROVE  FALSE
  <2>1. o \in OwnerTables /\ Kind(o) = o /\ o \in NamedTables
    BY DEF Owners, OwnerTables, Kind, NamedTables
  <2>2. /\ Len(p[o]) \in Nat /\ Len(q[o]) \in Nat /\ DOMAIN p[o] = 1 .. Len(p[o])
        /\ Len(q[o]) = Len(p[o]) \/ Len(q[o]) = Len(p[o]) + 1
        /\ \A l \in 1 .. Len(p[o]) : q[o][l].name = p[o][l].name
    BY <1>2, <2>1, OwnerTypes DEF Grew, Keeps, NamesGrow
  <2>3. k \in 1 .. Len(p[o])
    BY <1>3, <2>2
  <2>4. CASE m \in 1 .. Len(p[o])
    <3>1. p[o][k].name = p[o][m].name
      BY <1>3, <2>2, <2>3, <2>4
    <3> QED
      BY <1>3, <2>3, <2>4, <3>1 DEF Step, Laid, Once
  <2>5. CASE m \notin 1 .. Len(p[o])
    <3>1. <<o, q[o][m].name>> \in Owns(c)
      BY <1>2, <2>5 DEF Keeps
    <3>2. Has(p[o], q[o][m].name)
      BY <1>3, <2>2, <2>3 DEF Has, Named
    <3>3. PICK n : n = q[o][m].name
      OBVIOUS
    <3> QED
      BY <1>1, <3>1, <3>2, <3>3, NotYet
  <2> QED
    BY <2>4, <2>5
<1>4. ASSUME NEW o \in Owners, NEW k \in 1 .. Len(q[o]), NEW m \in 1 .. Len(q[o]),
             q[o][k].name = q[o][m].name
      PROVE  k = m
  <2>1. Len(q[o]) \in Nat
    BY <1>2, OwnerTypes DEF Owners, OwnerTables
  <2> QED
    BY <1>3, <1>4, <2>1
<1> QED
  BY <1>4 DEF Once

\* A route that was declared for an automatic signal has it, and keeps it.
LEMMA StepSignalled ==
    ASSUME NEW p, NEW call, NEW D, NEW i, NEW q, Step(p, call, D, i, q)
    PROVE  Signalled(q, call, D \cup {i})
PROOF
<1>1. PICK c : c = call[i]
  OBVIOUS
<1>2. /\ Keeps(p, q, Rewrites(c), Lengthens(c), Owns(c)) /\ IsPlant(p) /\ IsPlant(q)
      /\ Program(call) /\ D \subseteq DOMAIN call /\ i \in DOMAIN call /\ i \notin D /\ Callable(c)
      /\ FlaggedAfter(p, q, c)
  BY <1>1, StepIs
<1>3. "routes" \in Owners /\ "automatics" \in Owners
  BY DEF Owners
<1>4. ASSUME NEW n, NEW d \in D \cup {i}, NEW e, e = call[d],
             <<"automatics", n>> \in Owns(e), Has(q["routes"], n)
      PROVE  Has(q["automatics"], n) /\ Flagged(q, n)
  <2>0. d \in DOMAIN call
    BY <1>2
  <2>1. <<"routes", n>> \in Owns(e)
    <3>1. Callable(e)
      BY <1>4, <2>0, <1>2 DEF Program
    <3>2. e.owners = ""
      BY <1>4, <3>1, BindingIs
    <3> QED
      BY <1>4, <3>1, <3>2, DeclaringIs
  <2>2. CASE d = i
    <3>1. ~Has(p["routes"], n)
      BY <1>1, <1>3, <1>4, <2>1, <2>2, NotYet
    <3>2. q # p
      BY <1>4, <3>1
    <3> QED
      BY <1>1, <1>2, <1>4, <2>2, <3>2 DEF FlaggedAfter
  <2>3. CASE d \in D
    <3>1. <<"routes", n>> \notin Owns(c)
      BY <1>1, <1>2, <1>4, <2>0, <2>1, <2>3, TwoCalls
    <3>2. Has(p["routes"], n)
      BY <1>2, <1>3, <1>4, <3>1, NotDeclared
    <3>3. Has(p["automatics"], n) /\ Flagged(p, n)
      BY <1>4, <2>3, <3>2 DEF Step, Laid, Signalled
    <3>4. Has(q["automatics"], n)
      BY <1>2, <1>3, <3>3, EntryKept
    <3>5. FlagsStay("routes", Entry(p, "routes", n), Entry(q, "routes", n))
      BY <1>2, <1>3, <3>2, EntryKept
    <3> QED
      BY <3>3, <3>4, <3>5 DEF FlagsStay, Flagged, Held
  <2> QED
    BY <2>2, <2>3
<1> QED
  BY <1>4 DEF Signalled

\* An array grows by the call that is counted for it, and by no other.
LEMMA LongerIs ==
    ASSUME NEW call, Program(call), NEW D, D \subseteq DOMAIN call, NEW x,
           NEW i \in DOMAIN call, i \notin D
    PROVE  /\ Cardinality(Longer(call, D, x)) \in Nat
           /\ Cardinality(Longer(call, D \cup {i}, x)) \in Nat
           /\ Cardinality(Longer(call, D, x)) <= Cardinality(Longer(call, D \cup {i}, x))
           /\ x \in Lengthens(call[i])
                => /\ Cardinality(Longer(call, D \cup {i}, x)) = Cardinality(Longer(call, D, x)) + 1
                   /\ Cardinality(Longer(call, D \cup {i}, x)) <= Cardinality(Longer(call, DOMAIN call, x))
                   /\ Cardinality(Longer(call, DOMAIN call, x)) <= Limit(x[1], x[3])
                   /\ Cardinality(Longer(call, DOMAIN call, x)) \in Nat
PROOF
<1>1. PICK S, T, U : S = Longer(call, D, x) /\ T = Longer(call, D \cup {i}, x) /\ U = Longer(call, DOMAIN call, x)
  OBVIOUS
<1>2. S \subseteq T /\ T \subseteq U /\ S \subseteq U /\ U \subseteq DOMAIN call
  BY <1>1 DEF Longer
<1>3. IsFiniteSet(U)
  BY <1>2, FS_Subset DEF Program
<1>4. IsFiniteSet(S) /\ IsFiniteSet(T) /\ Cardinality(T) <= Cardinality(U)
  BY <1>2, <1>3, FS_Subset
<1>5. Cardinality(S) <= Cardinality(T)
  BY <1>2, <1>4, FS_Subset
<1>6. Cardinality(S) \in Nat /\ Cardinality(T) \in Nat /\ Cardinality(U) \in Nat
  BY <1>3, <1>4, FS_CardinalityType
<1>7. ASSUME x \in Lengthens(call[i])
      PROVE  Cardinality(T) = Cardinality(S) + 1 /\ Cardinality(U) <= Limit(x[1], x[3])
  <2>1. T = S \cup {i} /\ i \notin S
    BY <1>1, <1>7 DEF Longer
  <2>2. Cardinality(T) = Cardinality(S) + 1
    BY <1>4, <2>1, FS_AddElement
  <2>3. U = {j \in DOMAIN call : x \in Lengthens(call[j])}
    BY <1>1 DEF Longer
  <2>4. Cardinality(U) <= Limit(x[1], x[3])
    BY <1>7, <2>3 DEF Program, SaysOnce
  <2> QED
    BY <2>2, <2>4
<1> QED
  BY <1>1, <1>4, <1>5, <1>6, <1>7

\* A field has no more terms than calls were made that make it longer.
LEMMA StepCounted ==
    ASSUME NEW p, NEW call, NEW D, NEW i, NEW q, Step(p, call, D, i, q)
    PROVE  Counted(q, call, D \cup {i})
PROOF
<1>1. PICK c : c = call[i]
  OBVIOUS
<1>2. /\ Keeps(p, q, Rewrites(c), Lengthens(c), Owns(c)) /\ IsPlant(p) /\ IsPlant(q)
      /\ Program(call) /\ D \subseteq DOMAIN call /\ i \in DOMAIN call /\ i \notin D /\ Callable(c)
      /\ BareAfter(p, q, c)
  BY <1>1, StepIs
<1>3. ASSUME NEW o \in Owners, NEW n, NEW f \in TermFields(o), NEW j \in DOMAIN call,
             NEW d, d = call[j], NEW x, x = <<o, n, f>>, x \in Lengthens(d), Has(q[o], n)
      PROVE  Len(Held(q, o, n, f)) <= Cardinality(Longer(call, D \cup {i}, x))
  <2>1. /\ Cardinality(Longer(call, D, x)) \in Nat
        /\ Cardinality(Longer(call, D \cup {i}, x)) \in Nat
        /\ Cardinality(Longer(call, D, x)) <= Cardinality(Longer(call, D \cup {i}, x))
        /\ x \in Lengthens(c)
             => Cardinality(Longer(call, D \cup {i}, x)) = Cardinality(Longer(call, D, x)) + 1
    BY <1>1, <1>2, LongerIs
  <2>2. x \notin Rewrites(c)
    BY <1>1, <1>2, <1>3, NotRewritten
  <2>3. CASE Has(p[o], n)
    <3>1. Len(Held(p, o, n, f)) <= Cardinality(Longer(call, D, x))
      BY <1>3, <2>3 DEF Step, Laid, Counted
    <3>2. Len(Held(p, o, n, f)) \in Nat
      BY <1>2, <2>3, EntryIs
    <3>3. CASE x \in Lengthens(c)
      <4>1. Extends(Held(p, o, n, f), Held(q, o, n, f))
        BY <1>2, <1>3, <2>2, <2>3, EntryKept
      <4>2. Len(Held(q, o, n, f)) <= Len(Held(p, o, n, f)) + 1
        BY <4>1 DEF Extends
      <4>3. Len(Held(q, o, n, f)) \in Nat
        BY <1>2, <1>3, EntryIs
      <4> QED
        BY <2>1, <3>1, <3>2, <3>3, <4>2, <4>3
    <3>4. CASE x \notin Lengthens(c)
      <4>1. Held(q, o, n, f) = Held(p, o, n, f)
        BY <1>2, <1>3, <2>2, <2>3, <3>4, HeldSame
      <4> QED
        BY <2>1, <3>1, <3>2, <4>1
    <3> QED
      BY <3>3, <3>4
  <2>4. CASE ~Has(p[o], n)
    <3>1. <<o, n>> \in Owns(c)
      BY <1>2, <1>3, <2>4, NotDeclared
    <3>2. Clean(p)
      BY DEF Step, Laid
    <3>3. Bare(q, o, n, f)
      BY <1>2, <1>3, <2>2, <2>4, <3>1, <3>2 DEF BareAfter
    <3>4. Len(Held(q, o, n, f)) = 0
      BY <3>3, NoBond DEF Bare
    <3> QED
      BY <2>1, <3>4
  <2> QED
    BY <2>3, <2>4
<1> QED
  BY <1>3 DEF Counted

\* There is room for the terms of the call.
LEMMA StepRoomy ==
    ASSUME NEW p, NEW call, NEW D, NEW i, NEW q, Step(p, call, D, i, q), NEW c, c = call[i]
    PROVE  Roomy(p, c)
PROOF
<1>1. /\ IsPlant(p) /\ Program(call) /\ D \subseteq DOMAIN call /\ i \in DOMAIN call /\ i \notin D
      /\ Callable(c)
  BY StepIs
<1>2. ASSUME NEW o \in Owners, NEW n, NEW f, NEW x, x = <<o, n, f>>, x \in Lengthens(c), Has(p[o], n)
      PROVE  Len(Held(p, o, n, f)) < Limit(o, f)
  <2>1. f \in TermFields(o)
    <3>1. c.owners # ""
      BY <1>1, <1>2, DeclaringIs
    <3>2. OfOwner(x, c.owners, c.owner)
      BY <1>1, <1>2, <3>1, BindingIs
    <3> QED
      BY <1>2, <3>2 DEF OfOwner
  <2>2. Len(Held(p, o, n, f)) <= Cardinality(Longer(call, D, x)) /\ Len(Held(p, o, n, f)) \in Nat
    <3>1. Counted(p, call, D)
      BY DEF Step, Laid
    <3>2. Len(Held(p, o, n, f)) <= Cardinality(Longer(call, D, x))
      BY <1>1, <1>2, <2>1, <3>1 DEF Counted
    <3> QED
      BY <1>1, <1>2, <2>1, <3>2, EntryIs
  <2>3. /\ Cardinality(Longer(call, D, x)) \in Nat
        /\ Cardinality(Longer(call, D \cup {i}, x)) = Cardinality(Longer(call, D, x)) + 1
        /\ Cardinality(Longer(call, D \cup {i}, x)) <= Cardinality(Longer(call, DOMAIN call, x))
        /\ Cardinality(Longer(call, DOMAIN call, x)) <= Limit(x[1], x[3])
        /\ Cardinality(Longer(call, DOMAIN call, x)) \in Nat
    BY <1>1, <1>2, LongerIs
  <2>4. Limit(o, f) \in Nat
    BY <2>1, Limits
  <2>5. x[1] = o /\ x[3] = f
    BY <1>2
  <2> QED
    BY <2>2, <2>3, <2>4, <2>5
<1>3. TakesList(c) => Len(c.names) <= MaxRouteTerms
  BY <1>1 DEF Program, SaysOnce
<1> QED
  BY <1>2, <1>3 DEF Roomy

\* A call that finds its owner meets its terms; without it nothing is asked of
\* an owner that is there.
LEMMA StepNew ==
    ASSUME NEW p, NEW call, NEW D, NEW i, NEW q, Step(p, call, D, i, q), NEW c, c = call[i]
    PROVE  Meets(q, c)
PROOF
<1>1. /\ IsPlant(p) /\ Callable(c) /\ q = Configured(p, c)
      /\ \A o, n : Binds(c, o, n) /\ ~Has(p[c.owners], n) => ~Has(p[o], n)
  BY StepIs
<1>2. Roomy(p, c)
  BY StepRoomy
<1>3. CASE c.owners # "" => Has(p[c.owners], c.owner)
  BY <1>1, <1>2, <1>3, ConfiguredKeeps
<1>4. CASE c.owners # "" /\ ~Has(p[c.owners], c.owner)
  <2>1. q = p
    BY <1>1, <1>4, ConfiguredKeeps
  <2>2. ASSUME NEW t \in TermsOf(c)
        PROVE  Placed(q, t.owners, t.owner, t.field, t.name)
    <3>1. t.owner = c.owner /\ Reaches(c.owners, t.owners)
      BY <1>1, TermIs
    <3>2. ~Has(p[t.owners], c.owner)
      BY <1>1, <1>4, <3>1 DEF Binds
    <3> QED
      BY <2>1, <3>1, <3>2 DEF Placed
  <2> QED
    BY <2>2 DEF Meets
<1> QED
  BY <1>3, <1>4

\* The terms of earlier calls stay: the call writes none of their fields anew
\* and declares none of their owners.
LEMMA StepMet ==
    ASSUME NEW p, NEW call, NEW D, NEW i, NEW q, Step(p, call, D, i, q)
    PROVE  Met(q, call, D \cup {i})
PROOF
<1>1. PICK c : c = call[i]
  OBVIOUS
<1>2. /\ Keeps(p, q, Rewrites(c), Lengthens(c), Owns(c)) /\ IsPlant(p) /\ Program(call)
      /\ D \subseteq DOMAIN call /\ i \in DOMAIN call /\ i \notin D /\ Callable(c)
  BY <1>1, StepIs
<1>3. ASSUME NEW d \in D, NEW e, e = call[d], NEW t \in TermsOf(e)
      PROVE  Placed(q, t.owners, t.owner, t.field, t.name)
  <2>1. d \in DOMAIN call /\ d # i /\ Callable(e)
    BY <1>2, <1>3 DEF Program
  <2>2. PICK o, n, f, m : o = t.owners /\ n = t.owner /\ f = t.field /\ m = t.name
    OBVIOUS
  <2>3. /\ e.owners # "" /\ o \in Owners /\ f \in TermFields(o) /\ Binds(e, o, n)
        /\ <<o, n, f>> \in Rewrites(e) \cup Lengthens(e)
    BY <2>1, <2>2, TermIs DEF Binds, CellOf
  <2>4. Placed(p, o, n, f, m)
    BY <1>3, <2>2 DEF Step, Laid, Met, Meets
  <2>5. <<o, n>> \notin Owns(c)
    BY <1>1, <1>2, <1>3, <2>3 DEF Step, Laid, Settled
  <2>6. Owns(e) = {}
    BY <2>1, <2>3, BindingIs
  <2>7. <<o, n, f>> \notin Rewrites(c)
    BY <1>1, <1>2, <1>3, <2>1, <2>3, <2>5, <2>6, TwoCalls
  <2>8. Placed(q, o, n, f, m)
    BY <1>2, <2>3, <2>4, <2>5, <2>7, PlacedKept
  <2> QED
    BY <2>2, <2>8
<1>4. \A d \in D : Meets(q, call[d])
  BY <1>3 DEF Meets
<1>5. Meets(q, call[i])
  BY <1>1, StepNew
<1> QED
  BY <1>4, <1>5 DEF Met

\* A step of a program: all that its calls asked for stands, with the last one's.
THEOREM LaidStep ==
    ASSUME NEW p, NEW call, NEW D, NEW i, NEW q, Step(p, call, D, i, q)
    PROVE  Laid(q, call, D \cup {i})
PROOF
<1>1. IsPlant(q) /\ Clean(q)
  BY StepClean
<1>2. Founded(q, call, D \cup {i}) /\ Once(q) /\ Met(q, call, D \cup {i})
  BY StepFounded, StepOnce, StepMet
<1>3. Settled(call, D \cup {i}) /\ Signalled(q, call, D \cup {i}) /\ Counted(q, call, D \cup {i})
  BY StepSettled, StepSignalled, StepCounted
<1> QED
  BY <1>1, <1>2, <1>3 DEF Laid

\* Before the first call.
LEMMA LaidFirst ==
    ASSUME NEW p, NEW call, IsPlant(p), Clean(p), \A o \in Owners : Len(p[o]) = 0, NEW D, D = {}
    PROVE  Laid(p, call, D)
PROOF
<1>1. \A o \in Owners : \A n : ~Has(p[o], n)
  <2>1. \A o \in Owners : DOMAIN p[o] = 1 .. Len(p[o])
    BY OwnerTypes DEF Owners, OwnerTables
  <2> QED
    BY <2>1 DEF Has, Named
<1>2. Founded(p, call, D) /\ Counted(p, call, D)
  BY <1>1 DEF Founded, Counted
<1>3. Once(p)
  BY DEF Once
<1>4. Met(p, call, D) /\ Settled(call, D) /\ Signalled(p, call, D)
  BY DEF Met, Settled, Signalled
<1> QED
  BY <1>2, <1>3, <1>4 DEF Laid

-----------------------------------------------------------------------------
(* Groups of calls, one after the other, as one program.                   *)

Places(groups) == {x \in (1 .. Len(groups)) \X Nat : x[2] \in 1 .. Len(groups[x[1]])}
Family(groups) == [x \in Places(groups) |-> groups[x[1]][x[2]]]
Earlier(x, y) == x[1] < y[1] \/ (x[1] = y[1] /\ x[2] < y[2])
Before(groups, k, i) == {x \in Places(groups) : x[1] < k \/ (x[1] = k /\ x[2] <= i)}

\* An owner is bound after it is declared, and an automatic signal is declared.
Sequenced(groups) ==
    /\ \A x, y \in Places(groups) : Earlier(x, y)
         => \A o, n : Binds(Family(groups)[x], o, n) => <<o, n>> \notin Owns(Family(groups)[y])
    /\ \A x \in Places(groups) : Family(groups)[x].owners = "automatics"
         => \E d \in Places(groups) :
              Earlier(d, x) /\ <<"automatics", Family(groups)[x].owner>> \in Owns(Family(groups)[d])
Grouped(groups) == IsSeq(groups) /\ \A k \in 1 .. Len(groups) : Calling(groups[k])

\* The groups of calls, one by one.
LEMMA GroupIs ==
    ASSUME NEW groups, Grouped(groups)
    PROVE  /\ Len(groups) \in Nat
           /\ \A k \in 1 .. Len(groups) :
                /\ Len(groups[k]) \in Nat
                /\ \A i \in 1 .. Len(groups[k]) : Callable(groups[k][i])
PROOF
<1>1. Len(groups) \in Nat
  BY SeqIs DEF Grouped, IsSeq
<1>2. ASSUME NEW k \in 1 .. Len(groups), NEW s, s = groups[k]
      PROVE  Len(s) \in Nat /\ \A i \in 1 .. Len(s) : Callable(s[i])
  <2>1. Calling(s)
    BY <1>2 DEF Grouped
  <2> QED
    BY <2>1, SeqIs DEF Calling, IsSeq
<1> QED
  BY <1>1, <1>2

\* A place among the groups and its call.
LEMMA PlaceIs ==
    ASSUME NEW groups, Grouped(groups), NEW k \in 1 .. Len(groups), NEW i \in 1 .. Len(groups[k]),
           NEW x, x = <<k, i>>
    PROVE  /\ x \in Places(groups) /\ Family(groups)[x] = groups[k][i] /\ DOMAIN Family(groups) = Places(groups)
           /\ x[1] = k /\ x[2] = i
PROOF
<1>1. Len(groups) \in Nat /\ Len(groups[k]) \in Nat
  BY GroupIs
<1>2. x[1] = k /\ x[2] = i /\ x \in (1 .. Len(groups)) \X Nat
  BY <1>1
<1>3. x \in Places(groups)
  BY <1>2 DEF Places
<1> QED
  BY <1>2, <1>3 DEF Family

\* Every place is the place of a call.
LEMMA PlacesAre ==
    ASSUME NEW groups, Grouped(groups), NEW x \in Places(groups)
    PROVE  /\ x[1] \in 1 .. Len(groups) /\ x[2] \in 1 .. Len(groups[x[1]]) /\ x = <<x[1], x[2]>>
           /\ Family(groups)[x] = groups[x[1]][x[2]] /\ Callable(Family(groups)[x])
PROOF
<1>1. x[1] \in 1 .. Len(groups) /\ x[2] \in 1 .. Len(groups[x[1]]) /\ x = <<x[1], x[2]>>
  BY DEF Places
<1>2. Family(groups)[x] = groups[x[1]][x[2]]
  BY DEF Family
<1> QED
  BY <1>1, <1>2, GroupIs

\* There are finitely many.
LEMMA PlacesFinite ==
    ASSUME NEW groups, Grouped(groups)
    PROVE  IsFiniteSet(Places(groups))
PROOF
<1>1. Len(groups) \in Nat /\ \A k \in 1 .. Len(groups) : Len(groups[k]) \in Nat
  BY GroupIs
<1> DEFINE Of(k) == {x \in Places(groups) : x[1] = k}
           T == {Of(k) : k \in 1 .. Len(groups)}
           h == [k \in 1 .. Len(groups) |-> Of(k)]
<1>2. IsFiniteSet(T)
  <2>1. IsFiniteSet(1 .. Len(groups))
    BY <1>1, FS_Interval
  <2>2. h \in Surjection(1 .. Len(groups), T)
    BY DEF Surjection
  <2> QED
    BY <2>1, <2>2, FS_Surjection
<1>3. ASSUME NEW k \in 1 .. Len(groups)
      PROVE  IsFiniteSet(Of(k))
  <2> DEFINE e == [i \in 1 .. Len(groups[k]) |-> <<k, i>>]
  <2>1. IsFiniteSet(1 .. Len(groups[k]))
    <3>1. PICK m : m = Len(groups[k])
      OBVIOUS
    <3>2. 1 \in Int /\ m \in Int
      BY <1>1, <3>1
    <3>3. IsFiniteSet(1 .. m)
      BY <3>2, FS_Interval
    <3> QED
      BY <3>1, <3>3
  <2>2. e \in Surjection(1 .. Len(groups[k]), Of(k))
    <3>1. \A i \in 1 .. Len(groups[k]) : <<k, i>> \in Of(k)
      <4>1. ASSUME NEW i \in 1 .. Len(groups[k]), NEW x, x = <<k, i>>
            PROVE  x \in Of(k)
        BY <4>1, PlaceIs
      <4> QED
        BY <4>1
    <3>2. \A x \in Of(k) : \E i \in 1 .. Len(groups[k]) : x = <<k, i>>
      BY PlacesAre
    <3> QED
      BY <3>1, <3>2 DEF Surjection
  <2> QED
    BY <2>1, <2>2, FS_Surjection
<1>4. IsFiniteSet(UNION T)
  BY <1>2, <1>3, FS_UNION
<1>5. Places(groups) \subseteq UNION T
  BY PlacesAre
<1> QED
  BY <1>4, <1>5, FS_Subset

\* The places before a call, and after it.
LEMMA NextPlace ==
    ASSUME NEW groups, Grouped(groups), NEW k \in 1 .. Len(groups), NEW i \in 1 .. Len(groups[k]),
           NEW x, x = <<k, i>>
    PROVE  /\ x \notin Before(groups, k, i - 1)
           /\ Before(groups, k, i) = Before(groups, k, i - 1) \cup {x}
           /\ \A y \in Places(groups) \ Before(groups, k, i) : Earlier(x, y)
           /\ \A y \in Places(groups) : Earlier(y, x) => y \in Before(groups, k, i - 1)
PROOF
<1>1. x \in Places(groups) /\ x[1] = k /\ x[2] = i
  BY PlaceIs
<1>2. k \in Nat /\ i \in Nat
  BY GroupIs
<1>3. ASSUME NEW y \in Places(groups)
      PROVE  y[1] \in Nat /\ y[2] \in Nat /\ (y[1] = k /\ y[2] = i => y = x)
  <2>1. y[1] \in 1 .. Len(groups) /\ y[2] \in 1 .. Len(groups[y[1]]) /\ y = <<y[1], y[2]>>
    BY PlacesAre
  <2>2. Len(groups[y[1]]) \in Nat /\ Len(groups) \in Nat
    BY <2>1, GroupIs
  <2> QED
    BY <2>1, <2>2
<1>4. \A y \in Places(groups) :
        y \in Before(groups, k, i) <=> y \in Before(groups, k, i - 1) \/ y = x
  BY <1>1, <1>2, <1>3 DEF Before
<1>5. Before(groups, k, i) = Before(groups, k, i - 1) \cup {x}
  BY <1>1, <1>4 DEF Before
<1>6. x \notin Before(groups, k, i - 1)
  BY <1>1, <1>2 DEF Before
<1>7. \A y \in Places(groups) \ Before(groups, k, i) : Earlier(x, y)
  BY <1>1, <1>2, <1>3 DEF Before, Earlier
<1>8. \A y \in Places(groups) : Earlier(y, x) => y \in Before(groups, k, i - 1)
  BY <1>1, <1>2, <1>3 DEF Before, Earlier
<1> QED
  BY <1>5, <1>6, <1>7, <1>8

\* The end of a group is the beginning of the next.
LEMMA NextGroup ==
    ASSUME NEW groups, Grouped(groups), NEW k \in 1 .. Len(groups)
    PROVE  Before(groups, k, Len(groups[k])) = Before(groups, k + 1, 0)
PROOF
<1>1. k \in Nat /\ Len(groups[k]) \in Nat
  BY GroupIs
<1>3. ASSUME NEW y \in Places(groups)
      PROVE  y \in Before(groups, k, Len(groups[k])) <=> y \in Before(groups, k + 1, 0)
  <2>1. y[1] \in 1 .. Len(groups) /\ y[2] \in 1 .. Len(groups[y[1]])
    BY PlacesAre
  <2>2. Len(groups[y[1]]) \in Nat /\ Len(groups) \in Nat
    BY <2>1, GroupIs
  <2> QED
    BY <1>1, <2>1, <2>2 DEF Before
<1> QED
  BY <1>3 DEF Before

\* A call of a group, a group, and all groups: what they say is laid down.
LEMMA CallLaid ==
    ASSUME NEW groups, Grouped(groups), Sequenced(groups), NEW call, call = Family(groups), Program(call),
           NEW k \in 1 .. Len(groups), NEW i \in 1 .. Len(groups[k]),
           NEW D, D = Before(groups, k, i - 1), NEW p, Laid(p, call, D),
           NEW q, q = Configured(p, groups[k][i])
    PROVE  Laid(q, call, Before(groups, k, i))
PROOF
<1>1. PICK x : x = <<k, i>>
  OBVIOUS
<1>2. /\ x \in Places(groups) /\ call[x] = groups[k][i] /\ DOMAIN call = Places(groups)
  BY <1>1, PlaceIs
<1>3. /\ x \notin D /\ Before(groups, k, i) = D \cup {x}
      /\ \A y \in Places(groups) \ Before(groups, k, i) : Earlier(x, y)
      /\ \A y \in Places(groups) : Earlier(y, x) => y \in D
  BY <1>1, NextPlace
<1>4. D \subseteq DOMAIN call
  BY <1>2 DEF Before
<1>5. ASSUME NEW y \in DOMAIN call \ (D \cup {x}), NEW o, NEW n, Binds(call[x], o, n)
      PROVE  <<o, n>> \notin Owns(call[y])
  <2>1. Earlier(x, y) /\ y \in Places(groups)
    BY <1>2, <1>3
  <2> QED
    BY <1>2, <1>5, <2>1 DEF Sequenced
<1>6. ASSUME NEW o, NEW n, Binds(call[x], o, n), ~Has(p[call[x].owners], n)
      PROVE  ~Has(p[o], n)
  <2>1. CASE o = call[x].owners
    BY <1>6, <2>1
  <2>2. CASE o = "routes" /\ call[x].owners = "automatics"
    <3>1. n = call[x].owner
      BY <1>6 DEF Binds
    <3>2. PICK d \in Places(groups) : Earlier(d, x) /\ <<"automatics", n>> \in Owns(call[d])
      BY <1>2, <2>2, <3>1 DEF Sequenced
    <3>3. d \in D
      BY <1>3, <3>2
    <3>4. Signalled(p, call, D)
      BY DEF Laid
    <3>5. Has(p["routes"], n) => Has(p["automatics"], n)
      BY <3>2, <3>3, <3>4 DEF Signalled
    <3> QED
      BY <1>6, <2>2, <3>5
  <2> QED
    BY <1>6, <2>1, <2>2 DEF Binds, Reaches
<1>7. Step(p, call, D, x, q)
  BY <1>2, <1>3, <1>4, <1>5, <1>6 DEF Step
<1>8. Laid(q, call, D \cup {x})
  BY <1>7, LaidStep
<1> QED
  BY <1>3, <1>8

\* A group of calls.
LEMMA GroupLaid ==
    ASSUME NEW groups, Grouped(groups), Sequenced(groups), NEW call, call = Family(groups), Program(call),
           NEW k \in 1 .. Len(groups), NEW p, Laid(p, call, Before(groups, k, 0)),
           NEW q, q = Made(p, groups[k])
    PROVE  Laid(q, call, Before(groups, k + 1, 0))
PROOF
<1>1. PICK s : s = groups[k]
  OBVIOUS
<1>2. Len(s) \in Nat
  BY <1>1, GroupIs
<1>3. PICK g : Follows(g, "calls", p, s, 0, 0, Len(s)) /\ Made(p, s) = g[Len(s)]
  BY <1>2, MadeIs
<1>4. g[0] = p /\ \A i \in 1 .. Len(s) : g[i] = Configured(g[i - 1], s[i])
  <2>1. PICK m : m = Len(s)
    OBVIOUS
  <2>2. m \in Nat /\ Follows(g, "calls", p, s, 0, 0, m)
    BY <1>2, <1>3, <2>1
  <2>3. g[0] = p
    BY <2>2 DEF Follows
  <2>4. ASSUME NEW i \in 1 .. m
        PROVE  g[i] = Configured(g[i - 1], s[i])
    <3>1. i \in 0 .. m /\ i # 0
      BY <2>2
    <3>2. g[i] = Turn("calls", g[i - 1], s[i], 0, 0)
      BY <2>2, <3>1 DEF Follows
    <3> QED
      BY <3>2 DEF Turn
  <2> QED
    BY <2>1, <2>3, <2>4
<1> DEFINE S == {i \in 0 .. Len(s) : Laid(g[i], call, Before(groups, k, i))}
<1>5. 0 \in S
  BY <1>2, <1>4
<1>6. ASSUME NEW i \in 0 .. Len(s) - 1, i \in S
      PROVE  i + 1 \in S
  <2>1. PICK j, r, t, D : j = i + 1 /\ r = g[i] /\ t = g[j] /\ D = Before(groups, k, i)
    OBVIOUS
  <2>2. j \in 1 .. Len(s) /\ j - 1 = i
    BY <1>2, <2>1
  <2>3. t = Configured(r, groups[k][j])
    BY <1>1, <1>4, <2>1, <2>2
  <2>4. Laid(r, call, D) /\ D = Before(groups, k, j - 1) /\ j \in 1 .. Len(groups[k])
    BY <1>1, <1>6, <2>1, <2>2
  <2>5. Laid(t, call, Before(groups, k, j))
    BY <2>3, <2>4, CallLaid
  <2> QED
    BY <2>1, <2>2, <2>5
<1>7. \A i \in 0 .. Len(s) - 1 : i \in S => i + 1 \in S
  BY <1>6
<1> HIDE DEF S
<1>8. Len(s) \in S
  <2>1. \A i \in 0 .. Len(s) : i \in S
    BY <1>2, <1>5, <1>7, UpTo
  <2> QED
    BY <1>2, <2>1
<1>9. Laid(q, call, Before(groups, k, Len(groups[k])))
  BY <1>1, <1>3, <1>8 DEF S
<1>10. Before(groups, k, Len(groups[k])) = Before(groups, k + 1, 0)
  BY NextGroup
<1> QED
  BY <1>9, <1>10

\* Reading is a program of groups, which starts from an empty plant.
LEMMA DeserializedLaid ==
    ASSUME NEW p, NEW f, NEW groups, groups = CallsOf(f), Grouped(groups), Sequenced(groups),
           NEW call, call = Family(groups), Program(call),
           IsPlant(p), Empty(p), f.default \in Nat,
           NEW q, q = Deserialized(p, f)
    PROVE  Laid(q, call, Places(groups))
PROOF
<1>1. Len(groups) \in Nat
  BY GroupIs
<1>2. PICK r : r = Reset(p, f.default)
  OBVIOUS
<1>3. PICK g : Follows(g, "groups", r, groups, 0, 0, Len(groups)) /\ q = g[Len(groups)]
  BY <1>1, <1>2, DeserializedIs
<1>4. g[0] = r /\ \A k \in 1 .. Len(groups) : g[k] = Made(g[k - 1], groups[k])
  BY <1>1, <1>3 DEF Follows, Turn
<1>5. \A x \in Places(groups) : x[1] \in 1 .. Len(groups) /\ x[2] \in Nat
  BY PlacesAre DEF Places
<1> DEFINE S == {k \in 0 .. Len(groups) : Laid(g[k], call, Before(groups, k + 1, 0))}
<1>6. 0 \in S
  <2>1. PICK no : no = {}
    OBVIOUS
  <2>2. Before(groups, 0 + 1, 0) = no
    <3>1. \A x \in Places(groups) : ~(x[1] < 1) /\ ~(x[1] = 1 /\ x[2] <= 0)
      BY <1>1, PlacesAre
    <3> QED
      BY <2>1, <3>1 DEF Before
  <2>3. \A o \in Owners : Len(r[o]) = 0
    BY <1>2, ResetIs
  <2>5. IsPlant(r) /\ Clean(r)
    <3>1. PICK d : d = f.default
      OBVIOUS
    <3>2. IsPlant(Reset(p, d)) /\ Empty(Reset(p, d))
      BY <3>1, ResetIs
    <3> QED
      BY <1>2, <3>1, <3>2, EmptyLinked
  <2>4. Laid(r, call, no)
    BY <1>2, <2>5, <2>1, <2>3, LaidFirst
  <2> QED
    BY <1>1, <1>4, <2>2, <2>4
<1>7. ASSUME NEW k \in 0 .. Len(groups) - 1, k \in S
      PROVE  k + 1 \in S
  <2>1. PICK j, t, u : j = k + 1 /\ t = g[k] /\ u = g[j]
    OBVIOUS
  <2>2. j \in 1 .. Len(groups) /\ j - 1 = k
    BY <1>1, <2>1
  <2>3. u = Made(t, groups[j]) /\ Laid(t, call, Before(groups, j, 0))
    BY <1>4, <1>7, <2>1, <2>2
  <2>4. Laid(u, call, Before(groups, j + 1, 0))
    BY <2>2, <2>3, GroupLaid
  <2> QED
    BY <2>1, <2>2, <2>4
<1>8. \A k \in 0 .. Len(groups) - 1 : k \in S => k + 1 \in S
  BY <1>7
<1> HIDE DEF S
<1>9. Len(groups) \in S
  <2>1. \A k \in 0 .. Len(groups) : k \in S
    BY <1>1, <1>6, <1>8, UpTo
  <2> QED
    BY <1>1, <2>1
<1>10. Before(groups, Len(groups) + 1, 0) = Places(groups)
  BY <1>1, <1>5 DEF Before
<1> QED
  BY <1>3, <1>9, <1>10 DEF S

-----------------------------------------------------------------------------
(* How often a group makes a call of some kind.                            *)

Where(s, op) == {i \in 1 .. Len(s) : s[i].op = op}
Tally(s, op) == Cardinality(Where(s, op))

\* The calls of a kind can be counted.
LEMMA WhereFinite ==
    ASSUME NEW s, IsSeq(s), NEW op
    PROVE  /\ Len(s) \in Nat /\ IsFiniteSet(Where(s, op)) /\ Tally(s, op) \in Nat /\ Tally(s, op) <= Len(s)
           /\ (\A c \in ToSet(s) : c.op # op) => Tally(s, op) = 0
PROOF
<1>1. Len(s) \in Nat /\ \A i \in 1 .. Len(s) : s[i] \in ToSet(s)
  BY SeqIs DEF IsSeq
<1>2. IsFiniteSet(1 .. Len(s)) /\ Cardinality(1 .. Len(s)) = Len(s)
  BY <1>1, FS_Interval
<1>3. PICK W : W = Where(s, op)
  OBVIOUS
<1>4. W \in SUBSET (1 .. Len(s))
  BY <1>3 DEF Where
<1>5. IsFiniteSet(W) /\ Cardinality(W) <= Len(s)
  BY <1>2, <1>4, FS_Subset
<1>6. Cardinality(W) \in Nat
  BY <1>5, FS_CardinalityType
<1>7. ASSUME \A c \in ToSet(s) : c.op # op
      PROVE  Cardinality(W) = 0
  <2>1. W = {}
    BY <1>1, <1>3, <1>7 DEF Where
  <2> QED
    BY <2>1, FS_EmptySet
<1> QED
  BY <1>1, <1>3, <1>5, <1>6, <1>7 DEF Tally

\* Two sequences joined, place by place.
Joins(u, s, t, m, k) == IsSeq(s) /\ IsSeq(t) /\ u = s \o t /\ m = Len(s) /\ k = Len(t)
\* The places of joined sequences.
LEMMA JoinedAs ==
    ASSUME NEW u, NEW s, NEW t, NEW m, NEW k, Joins(u, s, t, m, k)
    PROVE  /\ IsSeq(u) /\ Len(u) = m + k /\ m \in Nat /\ k \in Nat
           /\ \A i \in 1 .. m : u[i] = s[i]
           /\ \A i \in 1 .. k : u[m + i] = t[i]
  BY Joined DEF Joins

\* The calls of a kind in joined sequences.
LEMMA TallyJoined ==
    ASSUME NEW s, IsSeq(s), NEW t, IsSeq(t), NEW op
    PROVE  Tally(s \o t, op) <= Tally(s, op) + Tally(t, op)
PROOF
<1>1. PICK u, m, A, V, W : /\ u = s \o t /\ m = Len(s)
                           /\ A = Where(s, op) /\ V = Where(t, op) /\ W = Where(u, op)
  OBVIOUS
<1>2. /\ IsSeq(u) /\ Len(u) = m + Len(t) /\ m \in Nat /\ Len(t) \in Nat
      /\ \A i \in 1 .. m : u[i] = s[i]
      /\ \A i \in 1 .. Len(t) : u[m + i] = t[i]
  <2>1. PICK k : k = Len(t)
    OBVIOUS
  <2>2. Joins(u, s, t, m, k)
    BY <1>1, <2>1 DEF Joins
  <2>3. /\ IsSeq(u) /\ Len(u) = m + k /\ m \in Nat /\ k \in Nat
        /\ \A i \in 1 .. m : u[i] = s[i]
        /\ \A i \in 1 .. k : u[m + i] = t[i]
    BY <2>2, JoinedAs
  <2> QED
    BY <2>1, <2>3
<1>3. IsFiniteSet(A) /\ IsFiniteSet(V) /\ Cardinality(A) \in Nat /\ Cardinality(V) \in Nat
  BY <1>1, WhereFinite DEF Tally
<1> DEFINE B == {m + i : i \in V}
           h == [i \in V |-> m + i]
<1>4. IsFiniteSet(B) /\ Cardinality(B) <= Cardinality(V)
  <2>1. h \in Surjection(V, B)
    BY DEF Surjection
  <2> QED
    BY <1>3, <2>1, FS_Surjection
<1>5. W \subseteq A \cup B
  <2>1. ASSUME NEW k \in W
        PROVE  k \in A \cup B
    <3>1. k \in 1 .. Len(u) /\ u[k].op = op
      BY <1>1, <2>1 DEF Where
    <3>2. CASE k <= m
      <4>1. k \in 1 .. m /\ s[k] = u[k]
        BY <1>2, <3>1, <3>2
      <4> QED
        BY <1>1, <3>1, <4>1 DEF Where
    <3>3. CASE ~(k <= m)
      <4>1. PICK i : i = k - m
        OBVIOUS
      <4>2. i \in 1 .. Len(t) /\ m + i = k
        BY <1>2, <3>1, <3>3, <4>1
      <4>3. t[i].op = op
        BY <1>2, <3>1, <4>2
      <4>4. i \in V
        BY <1>1, <4>2, <4>3 DEF Where
      <4> QED
        BY <4>2, <4>4
    <3> QED
      BY <3>2, <3>3
  <2> QED
    BY <2>1
<1> HIDE DEF B
<1>6. IsFiniteSet(A \cup B) /\ Cardinality(A \cup B) = Cardinality(A) + Cardinality(B) - Cardinality(A \cap B)
  BY <1>3, <1>4, FS_Union
<1>7. Cardinality(W) <= Cardinality(A \cup B) /\ IsFiniteSet(W)
  BY <1>5, <1>6, FS_Subset
<1>8. IsFiniteSet(A \cap B)
  <2>1. (A \cap B) \in SUBSET A
    OBVIOUS
  <2> QED
    BY <1>3, <2>1, FS_Subset
<1>9. Cardinality(A \cap B) \in Nat /\ Cardinality(B) \in Nat /\ Cardinality(W) \in Nat
  BY <1>4, <1>7, <1>8, FS_CardinalityType
<1>10. Cardinality(W) <= Cardinality(A) + Cardinality(V)
  <2>1. PICK a, b, v, w, x : /\ a = Cardinality(A) /\ b = Cardinality(B) /\ v = Cardinality(V)
                             /\ w = Cardinality(W) /\ x = Cardinality(A \cap B)
    OBVIOUS
  <2>2. a \in Nat /\ b \in Nat /\ v \in Nat /\ w \in Nat /\ x \in Nat
    BY <1>3, <1>9, <2>1
  <2>3. w <= a + b - x /\ b <= v
    BY <1>4, <1>6, <1>7, <2>1
  <2>4. w <= a + v
    BY <2>2, <2>3
  <2> QED
    BY <2>1, <2>4
<1> QED
  BY <1>1, <1>10 DEF Tally

\* A section of a group makes one kind of call for one owner, at most so many
\* times, and gives no list.
Section(s, k, n, op, m) ==
    /\ Calling(s) /\ Len(s) <= m
    /\ \A c \in ToSet(s) : c.op = op /\ c.owners = k /\ c.owner = n /\ ~TakesList(c)

\* A section has one kind of calls, and no more than it is long.
LEMMA SectionTally ==
    ASSUME NEW s, NEW k, NEW n, NEW op, NEW m \in Nat, Section(s, k, n, op, m), NEW other
    PROVE  /\ Tally(s, other) \in Nat
           /\ Tally(s, other) <= IF other = op THEN m ELSE 0
PROOF
<1>1. IsSeq(s) /\ Len(s) <= m /\ \A c \in ToSet(s) : c.op = op
  BY DEF Section, Calling
<1>2. /\ Len(s) \in Nat /\ Tally(s, other) \in Nat /\ Tally(s, other) <= Len(s)
      /\ (\A c \in ToSet(s) : c.op # other) => Tally(s, other) = 0
  BY <1>1, WhereFinite
<1> QED
  BY <1>1, <1>2

\* A call that is made twice is tallied twice.
LEMMA TwiceTallied ==
    ASSUME NEW s, IsSeq(s), NEW op, NEW i \in 1 .. Len(s), NEW j \in 1 .. Len(s), i # j,
           s[i].op = op, s[j].op = op
    PROVE  2 <= Tally(s, op)
PROOF
<1>1. PICK W : W = Where(s, op)
  OBVIOUS
<1>2. IsFiniteSet(W) /\ Cardinality(W) \in Nat
  BY <1>1, WhereFinite DEF Tally
<1>3. {i, j} \in SUBSET W
  BY <1>1 DEF Where
<1>4. Cardinality({i, j}) <= Cardinality(W)
  BY <1>2, <1>3, FS_Subset
<1>5. Cardinality({i, j}) = 2
  <2>1. IsFiniteSet({i}) /\ Cardinality({i}) = 1
    BY FS_Singleton
  <2>2. PICK n, m : n = Cardinality({i}) /\ m = Cardinality({i, j})
    OBVIOUS
  <2>3. {i, j} = {i} \cup {j} /\ j \notin {i}
    OBVIOUS
  <2>4. m = n + 1
    BY <2>1, <2>2, <2>3, FS_AddElement
  <2>5. n = 1
    BY <2>1, <2>2
  <2>6. m = 2
    BY <2>4, <2>5
  <2> QED
    BY <2>2, <2>6
<1> QED
  BY <1>1, <1>2, <1>4, <1>5 DEF Tally

\* The sections that the reader makes of a file.
Listing(k, op) == k = "routes" /\ op \in {"aligns", "clears", "home"}

\* A call for every name of a list is a section.
LEMMA EachOfSection ==
    ASSUME NEW k, NEW op, NEW n \in Text, NEW ns \in Seq(Text), NEW m, Len(ns) <= m,
           Takes(k, op, <<None>>), ~Listing(k, op)
    PROVE  Section(EachOf(op, k, n, ns), k, n, op, m)
PROOF
<1>1. PICK s : s = EachOf(op, k, n, ns)
  OBVIOUS
<1>2. Calling(s)
  BY <1>1, EachOfCalls
<1>3. Len(s) = Len(ns) /\ \A c \in ToSet(s) : \E x \in ToSet(ns) : c = Bind(op, k, n, x)
  BY <1>1, EachOfIs
<1>4. \A c \in ToSet(s) : c.op = op /\ c.owners = k /\ c.owner = n /\ ~TakesList(c)
  BY <1>3 DEF Bind, Call, TakesList, Listing
<1> QED
  BY <1>1, <1>2, <1>3, <1>4 DEF Section

\* One call is a section.
LEMMA OneCallSection ==
    ASSUME NEW k, NEW op, NEW n, NEW c, Calling(<<c>>), c.op = op, c.owners = k, c.owner = n, ~Listing(k, op)
    PROVE  Section(<<c>>, k, n, op, 1)
PROOF
<1>1. Len(<<c>>) = 1 /\ ToSet(<<c>>) = {c}
  BY ShortSeqs
<1> QED
  BY <1>1 DEF Section, TakesList, Listing

\* No call is a section.
LEMMA EmptySection ==
    ASSUME NEW k, NEW op, NEW n
    PROVE  Section(<<>>, k, n, op, 1)
PROOF
<1>1. PICK s : s = <<>>
  OBVIOUS
<1>2. IsSeq(s) /\ ToSet(s) = {} /\ Len(s) = 0
  BY <1>1, ShortSeqs
<1>3. Section(s, k, n, op, 1)
  BY <1>2 DEF Section, Calling
<1> QED
  BY <1>1, <1>3

\* A call that may be left out is a section.
LEMMA GivenSection ==
    ASSUME NEW k, NEW op, NEW n \in Text, NEW x \in Text, Takes(k, op, <<None>>), ~Listing(k, op)
    PROVE  Section(Given(op, k, n, x), k, n, op, 1)
PROOF
<1>1. CASE x = None
  BY <1>1, EmptySection DEF Given
<1>2. CASE x # None
  <2>1. PICK c : c = Bind(op, k, n, x)
    OBVIOUS
  <2>2. Given(op, k, n, x) = <<c>>
    BY <1>2, <2>1 DEF Given
  <2>3. Calling(<<c>>)
    BY <2>2, GivenCalls
  <2>4. c.op = op /\ c.owners = k /\ c.owner = n
    BY <2>1 DEF Bind, Call
  <2> QED
    BY <2>2, <2>3, <2>4, OneCallSection
<1> QED
  BY <1>1, <1>2

\* The H and D of an automatic signal are a section.
LEMMA ReadsSection ==
    ASSUME NEW a \in AutomaticParts
    PROVE  Section(ReadsCalls(a), "automatics", a.name, "reads", 1)
PROOF
<1>1. CASE a.h = None /\ a.d = None
  BY <1>1, EmptySection DEF ReadsCalls
<1>2. CASE ~(a.h = None /\ a.d = None)
  <2>1. PICK c : c = Call("reads", "automatics", a.name, <<a.h, a.d>>, None, 0)
    OBVIOUS
  <2>2. ReadsCalls(a) = <<c>>
    BY <1>2, <2>1 DEF ReadsCalls
  <2>3. Calling(<<c>>)
    BY <2>2, ReadsCalling
  <2>4. c.op = "reads" /\ c.owners = "automatics" /\ c.owner = a.name /\ ~Listing("automatics", "reads")
    BY <2>1 DEF Call, Listing
  <2> QED
    BY <2>2, <2>3, <2>4, OneCallSection
<1> QED
  BY <1>1, <1>2

\* The traffic of a line is a section.
LEMMA TrafficSection ==
    ASSUME NEW n \in Text, NEW x \in Text
    PROVE  Section(<<Bind("traffic", "controlPoints", n, x)>>, "controlPoints", n, "traffic", 1)
PROOF
<1>1. PICK c : c = Bind("traffic", "controlPoints", n, x)
  OBVIOUS
<1>2. c.op = "traffic" /\ c.owners = "controlPoints" /\ c.owner = n /\ ~Listing("controlPoints", "traffic")
  BY <1>1 DEF Bind, Call, Listing
<1>3. Calling(<<c>>)
  BY <1>1, TrafficCalling
<1> QED
  BY <1>1, <1>2, <1>3, OneCallSection

\* The switches of a route are a section.
LEMMA AlignsSection ==
    ASSUME NEW r \in RouteParts
    PROVE  Section(AlignCalls(r), "routes", r.name, "align", MaxRouteTerms)
PROOF
<1>1. PICK s : s = AlignCalls(r)
  OBVIOUS
<1>2. /\ Calling(s) /\ Len(s) <= MaxRouteTerms
      /\ \A c \in ToSet(s) : c.op = "align" /\ c.owners = "routes" /\ c.owner = r.name
  BY <1>1, AlignsAreCalls
<1> QED
  BY <1>1, <1>2 DEF Section, TakesList

-----------------------------------------------------------------------------
(* The group of one owner.                                                 *)

\* A route or the line of a control point is declared by the first call; every
\* other call binds the owner of the group.
Position(c, i, k, n) ==
    /\ ~TakesList(c)
    /\ IF c.owners = "" THEN i = 1 /\ k # "automatics" /\ Owns(c) = {<<k, n>>}
       ELSE c.owners = k /\ c.owner = n
Orderly(s, k, n) == Calling(s) /\ \A i \in 1 .. Len(s) : Position(s[i], i, k, n)

\* A section may stand anywhere in the group of its owner.
LEMMA SectionPosition ==
    ASSUME NEW s, NEW k \in Owners, NEW n, NEW op, NEW m, Section(s, k, n, op, m), NEW c \in ToSet(s), NEW i
    PROVE  Position(c, i, k, n)
PROOF
<1>1. k # ""
  BY DEF Owners
<1> QED
  BY <1>1 DEF Position, Section

\* A section is an orderly group.
LEMMA SectionOrderly ==
    ASSUME NEW s, NEW k \in Owners, NEW n, NEW op, NEW m, Section(s, k, n, op, m)
    PROVE  Orderly(s, k, n)
PROOF
<1>1. Calling(s)
  BY DEF Section
<1>2. \A i \in 1 .. Len(s) : s[i] \in ToSet(s)
  BY <1>1, SeqIs DEF Calling, IsSeq
<1> QED
  BY <1>1, <1>2, SectionPosition DEF Orderly

\* A section after an orderly group.
LEMMA OrderlyJoined ==
    ASSUME NEW s, NEW t, NEW k \in Owners, NEW n, NEW op, NEW m, Orderly(s, k, n), Section(t, k, n, op, m)
    PROVE  Orderly(s \o t, k, n)
PROOF
<1>1. PICK u, l : u = s \o t /\ l = Len(s)
  OBVIOUS
<1>2. Calling(s) /\ Calling(t) /\ \A i \in 1 .. l : Position(s[i], i, k, n)
  BY <1>1 DEF Orderly, Section
<1>3. Calling(u) /\ IsSeq(s) /\ IsSeq(t)
  BY <1>1, <1>2, CallingJoined DEF Calling
<1>4. /\ Len(u) = l + Len(t) /\ l \in Nat /\ Len(t) \in Nat
      /\ \A i \in 1 .. l : u[i] = s[i]
      /\ \A i \in 1 .. Len(t) : u[l + i] = t[i]
  BY <1>1, <1>3, Joined
<1>5. \A i \in 1 .. Len(t) : t[i] \in ToSet(t)
  BY <1>3, SeqIs DEF IsSeq
<1>6. ASSUME NEW j \in 1 .. Len(u)
      PROVE  Position(u[j], j, k, n)
  <2>1. CASE j <= l
    <3>1. j \in 1 .. l
      BY <1>4, <2>1
    <3> QED
      BY <1>2, <1>4, <3>1
  <2>2. CASE ~(j <= l)
    <3>1. PICK i : i = j - l
      OBVIOUS
    <3>2. i \in 1 .. Len(t) /\ l + i = j
      BY <1>4, <2>2, <3>1
    <3>3. u[j] \in ToSet(t)
      BY <1>4, <1>5, <3>2
    <3> QED
      BY <3>3, SectionPosition
  <2> QED
    BY <2>1, <2>2
<1> QED
  BY <1>1, <1>3, <1>6 DEF Orderly

\* The declaration stands at the head of its group.
LEMMA OrderlyFirst ==
    ASSUME NEW op, NEW k, NEW n \in Text,
           \/ op = "route" /\ k = "routes"
           \/ op = "addControlPointLine" /\ k = "controlPoints"
    PROVE  /\ Orderly(<<Declare(op, <<n>>)>>, k, n)
           /\ Section(<<Declare(op, <<n>>)>>, "", None, op, 1)
PROOF
<1>1. PICK names, c : names = <<n>> /\ c = Declare(op, names)
  OBVIOUS
<1>2. Calling(<<c>>)
  BY <1>1, DeclarationIs
<1>3. names[1] = n
  BY <1>1
<1>4. c.op = op /\ c.owners = "" /\ c.owner = None /\ c.names[1] = n
  BY <1>1, <1>3 DEF Declare, Call
<1>5. ~Listing("", op)
  BY DEF Listing
<1>6. Section(<<c>>, "", None, op, 1)
  BY <1>2, <1>4, <1>5, OneCallSection
<1>7. Owns(c) = {<<k, n>>}
  BY <1>4 DEF Owns
<1>8. Position(c, 1, k, n)
  BY <1>4, <1>7 DEF Position, TakesList
<1>9. Len(<<c>>) = 1 /\ <<c>>[1] = c
  BY ShortSeqs
<1>10. Orderly(<<c>>, k, n)
  BY <1>2, <1>8, <1>9 DEF Orderly
<1> QED
  BY <1>1, <1>6, <1>10

\* How often the group of an owner may make a call: what is written anew once,
\* what is made longer as often as there is room.
Allowed(op) ==
    IF op \in {"align", "clearBlock", "homeFact", "block"} THEN MaxRouteTerms
    ELSE IF op \in {"governs", "approach"} THEN MaxBlockFacts
    ELSE IF op = "leaving" THEN MaxLineMasts ELSE 1
Moderate(s) == \A op : Tally(s, op) <= Allowed(op)
Times(x, op, m) == IF x = op THEN m ELSE 0

\* The first section of a group is counted.
LEMMA GroupBegun ==
    ASSUME NEW s, NEW k, NEW n, NEW op, NEW m \in Nat, Section(s, k, n, op, m), NEW x
    PROVE  Tally(s, x) \in Nat /\ Tally(s, x) <= Times(x, op, m)
  BY SectionTally DEF Times

\* One section more is counted.
LEMMA GroupGrown ==
    ASSUME NEW s, NEW t, NEW k \in Owners, NEW n, NEW op, NEW m \in Nat, Orderly(s, k, n),
           Section(t, k, n, op, m), NEW u, u = s \o t
    PROVE  /\ Orderly(u, k, n)
           /\ \A x : /\ Tally(s, x) \in Nat /\ Tally(u, x) \in Nat
                     /\ Tally(u, x) <= Tally(s, x) + Times(x, op, m)
PROOF
<1>1. Orderly(u, k, n)
  BY OrderlyJoined
<1>2. IsSeq(s) /\ IsSeq(t) /\ IsSeq(u)
  BY <1>1 DEF Orderly, Section, Calling
<1>3. ASSUME NEW x
      PROVE  /\ Tally(s, x) \in Nat /\ Tally(u, x) \in Nat
             /\ Tally(u, x) <= Tally(s, x) + Times(x, op, m)
  <2>1. Tally(s, x) \in Nat /\ Tally(u, x) \in Nat /\ Tally(t, x) \in Nat
    BY <1>2, WhereFinite
  <2>2. Tally(u, x) <= Tally(s, x) + Tally(t, x)
    BY <1>2, TallyJoined
  <2>3. Tally(t, x) <= Times(x, op, m) /\ Times(x, op, m) \in Nat
    BY GroupBegun DEF Times
  <2> QED
    BY <2>1, <2>2, <2>3
<1> QED
  BY <1>1, <1>3

\* The sizes of the arrays are numbers.
LEMMA Sizes ==
    /\ MaxRouteTerms \in Nat /\ MaxBlockFacts \in Nat /\ MaxLineMasts \in Nat
    /\ MaxBlockFacts + 2 <= MaxRouteTerms
  BY SizesAssumption

\* The reader's calls take one name, not a list.
LEMMA NotListing ==
    /\ \A op \in {"governs", "approach", "opposing", "reads"} : ~Listing("automatics", op)
    /\ \A op \in {"home", "governs", "block", "leaving", "traffic"} : ~Listing("controlPoints", op)
    /\ \A op \in {"governedBy", "displays", "clearBlock", "homeFact", "proceed", "entrance", "approaching"} :
         ~Listing("routes", op)
  BY DEF Listing

\* The calls for an automatic signal are orderly, and no more than there is room for.
LEMMA AutomaticGroup ==
    ASSUME NEW a \in AutomaticParts, NEW s, s = AutomaticCalls(a)
    PROVE  Orderly(s, "automatics", a.name) /\ Moderate(s)
PROOF
<1>1. /\ a.name \in Text /\ a.governs \in Seq(Text) /\ a.approach \in Seq(Text)
      /\ Len(a.governs) <= MaxBlockFacts /\ Len(a.approach) <= MaxBlockFacts
      /\ a.opposing \in Text
  BY DEF AutomaticParts, Listed
<1>2. PICK k, n : k = "automatics" /\ n = a.name /\ k \in Owners
  BY DEF Owners
<1>3. PICK A, B, C, D : /\ A = EachOf("governs", k, n, a.governs)
                        /\ B = EachOf("approach", k, n, a.approach)
                        /\ C = ReadsCalls(a)
                        /\ D = Given("opposing", k, n, a.opposing)
  OBVIOUS
<1>4. /\ Section(A, k, n, "governs", MaxBlockFacts)
      /\ Section(B, k, n, "approach", MaxBlockFacts)
  BY <1>1, <1>2, <1>3, EachOfSection, OpsTaken, NotListing
<1>5. Section(C, k, n, "reads", 1)
  BY <1>2, <1>3, ReadsSection
<1>6. Section(D, k, n, "opposing", 1)
  BY <1>1, <1>2, <1>3, GivenSection, OpsTaken, NotListing
<1>7. PICK u, v, w : u = A \o B /\ v = u \o C /\ w = v \o D
  OBVIOUS
<1>8. w = s
  BY <1>2, <1>3, <1>7 DEF AutomaticCalls, ReadsCalls
<1>9. Orderly(A, k, n) /\ \A x : Tally(A, x) \in Nat /\ Tally(A, x) <= Times(x, "governs", MaxBlockFacts)
  BY <1>2, <1>4, Sizes, SectionOrderly, GroupBegun
<1>10. /\ Orderly(u, k, n)
       /\ \A x : /\ Tally(u, x) \in Nat
                 /\ Tally(u, x) <= Tally(A, x) + Times(x, "approach", MaxBlockFacts)
  BY <1>2, <1>4, <1>7, <1>9, Sizes, GroupGrown
<1>11. /\ Orderly(v, k, n)
       /\ \A x : Tally(v, x) \in Nat /\ Tally(v, x) <= Tally(u, x) + Times(x, "reads", 1)
  BY <1>2, <1>5, <1>7, <1>10, GroupGrown
<1>12. /\ Orderly(w, k, n)
       /\ \A x : Tally(w, x) \in Nat /\ Tally(w, x) <= Tally(v, x) + Times(x, "opposing", 1)
  BY <1>2, <1>6, <1>7, <1>11, GroupGrown
<1>13. ASSUME NEW x
       PROVE  Tally(w, x) <= Allowed(x)
  <2>1. PICK g, ap, r, o : /\ g = Times(x, "governs", MaxBlockFacts) /\ ap = Times(x, "approach", MaxBlockFacts)
                           /\ r = Times(x, "reads", 1) /\ o = Times(x, "opposing", 1)
    OBVIOUS
  <2>2. g \in Nat /\ ap \in Nat /\ r \in Nat /\ o \in Nat /\ g + ap + r + o <= Allowed(x)
    BY <2>1, Sizes DEF Times, Allowed
  <2>3. PICK ta, tu, tv, tw : ta = Tally(A, x) /\ tu = Tally(u, x) /\ tv = Tally(v, x) /\ tw = Tally(w, x)
    OBVIOUS
  <2>4. /\ ta \in Nat /\ tu \in Nat /\ tv \in Nat /\ tw \in Nat
        /\ ta <= g /\ tu <= ta + ap /\ tv <= tu + r /\ tw <= tv + o
    BY <1>9, <1>10, <1>11, <1>12, <2>1, <2>3
  <2>5. Allowed(x) \in Nat
    BY Sizes DEF Allowed
  <2>6. tw <= Allowed(x)
    BY <2>2, <2>4, <2>5
  <2> QED
    BY <2>3, <2>6
<1> QED
  BY <1>2, <1>8, <1>12, <1>13 DEF Moderate

\* The calls for a control point line are.
LEMMA ControlPointGroup ==
    ASSUME NEW l \in ControlPointParts, NEW s, s = ControlPointCalls(l)
    PROVE  Orderly(s, "controlPoints", l.name) /\ Moderate(s)
PROOF
<1>1. /\ l.name \in Text /\ l.home \in Text /\ l.traffic \in Text
      /\ l.governs \in Seq(Text) /\ l.block \in Seq(Text) /\ l.leaving \in Seq(Text)
      /\ Len(l.governs) <= MaxBlockFacts /\ Len(l.block) <= MaxRouteTerms
      /\ Len(l.leaving) <= MaxLineMasts
  BY DEF ControlPointParts, Listed
<1>2. PICK k, n : k = "controlPoints" /\ n = l.name /\ k \in Owners
  BY DEF Owners
<1>3. PICK S1, S2, S3, S4, S5, S6 :
        /\ S1 = <<Declare("addControlPointLine", <<n>>)>>
        /\ S2 = Given("home", k, n, l.home)
        /\ S3 = EachOf("governs", k, n, l.governs)
        /\ S4 = EachOf("block", k, n, l.block)
        /\ S5 = EachOf("leaving", k, n, l.leaving)
        /\ S6 = <<Bind("traffic", k, n, l.traffic)>>
  OBVIOUS
<1>4. Orderly(S1, k, n) /\ Section(S1, "", None, "addControlPointLine", 1)
  BY <1>1, <1>2, <1>3, OrderlyFirst
<1>5. Section(S2, k, n, "home", 1)
  BY <1>1, <1>2, <1>3, GivenSection, OpsTaken, NotListing
<1>6. Section(S3, k, n, "governs", MaxBlockFacts)
  BY <1>1, <1>2, <1>3, EachOfSection, OpsTaken, NotListing
<1>7. Section(S4, k, n, "block", MaxRouteTerms)
  BY <1>1, <1>2, <1>3, EachOfSection, OpsTaken, NotListing
<1>8. Section(S5, k, n, "leaving", MaxLineMasts)
  BY <1>1, <1>2, <1>3, EachOfSection, OpsTaken, NotListing
<1>9. Section(S6, k, n, "traffic", 1)
  BY <1>1, <1>2, <1>3, TrafficSection
<1>10. PICK u2, u3, u4, u5, u6 :
        /\ u2 = S1 \o S2
        /\ u3 = u2 \o S3
        /\ u4 = u3 \o S4
        /\ u5 = u4 \o S5
        /\ u6 = u5 \o S6
  OBVIOUS
<1>11. u6 = s
  BY <1>2, <1>3, <1>10 DEF ControlPointCalls
<1>12. \A x : Tally(S1, x) \in Nat /\ Tally(S1, x) <= Times(x, "addControlPointLine", 1)
  BY <1>4, GroupBegun
<1>13. /\ Orderly(u2, k, n)
       /\ \A x : /\ Tally(u2, x) \in Nat
                 /\ Tally(u2, x) <= Tally(S1, x) + Times(x, "home", 1)
  BY <1>2, <1>5, <1>10, <1>4, Sizes, GroupGrown
<1>14. /\ Orderly(u3, k, n)
       /\ \A x : /\ Tally(u3, x) \in Nat
                 /\ Tally(u3, x) <= Tally(u2, x) + Times(x, "governs", MaxBlockFacts)
  BY <1>2, <1>6, <1>10, <1>13, Sizes, GroupGrown
<1>15. /\ Orderly(u4, k, n)
       /\ \A x : /\ Tally(u4, x) \in Nat
                 /\ Tally(u4, x) <= Tally(u3, x) + Times(x, "block", MaxRouteTerms)
  BY <1>2, <1>7, <1>10, <1>14, Sizes, GroupGrown
<1>16. /\ Orderly(u5, k, n)
       /\ \A x : /\ Tally(u5, x) \in Nat
                 /\ Tally(u5, x) <= Tally(u4, x) + Times(x, "leaving", MaxLineMasts)
  BY <1>2, <1>8, <1>10, <1>15, Sizes, GroupGrown
<1>17. /\ Orderly(u6, k, n)
       /\ \A x : /\ Tally(u6, x) \in Nat
                 /\ Tally(u6, x) <= Tally(u5, x) + Times(x, "traffic", 1)
  BY <1>2, <1>9, <1>10, <1>16, Sizes, GroupGrown
<1>18. ASSUME NEW x
       PROVE  Tally(u6, x) <= Allowed(x)
  <2>1. PICK m1, m2, m3, m4, m5, m6 :
          /\ m1 = Times(x, "addControlPointLine", 1)
          /\ m2 = Times(x, "home", 1)
          /\ m3 = Times(x, "governs", MaxBlockFacts)
          /\ m4 = Times(x, "block", MaxRouteTerms)
          /\ m5 = Times(x, "leaving", MaxLineMasts)
          /\ m6 = Times(x, "traffic", 1)
    OBVIOUS
  <2>2. /\ m1 \in Nat /\ m2 \in Nat /\ m3 \in Nat /\ m4 \in Nat /\ m5 \in Nat /\ m6 \in Nat
        /\ m1 + m2 + m3 + m4 + m5 + m6 <= Allowed(x)
    BY <2>1, Sizes DEF Times, Allowed
  <2>3. PICK t1, t2, t3, t4, t5, t6 :
          /\ t1 = Tally(S1, x)
          /\ t2 = Tally(u2, x)
          /\ t3 = Tally(u3, x)
          /\ t4 = Tally(u4, x)
          /\ t5 = Tally(u5, x)
          /\ t6 = Tally(u6, x)
    OBVIOUS
  <2>4. /\ t1 \in Nat /\ t2 \in Nat /\ t3 \in Nat /\ t4 \in Nat /\ t5 \in Nat /\ t6 \in Nat
        /\ t1 <= m1 /\ t2 <= t1 + m2 /\ t3 <= t2 + m3 /\ t4 <= t3 + m4 /\ t5 <= t4 + m5 /\ t6 <= t5 + m6
    BY <1>12, <1>13, <1>14, <1>15, <1>16, <1>17, <2>1, <2>3
  <2>5. Allowed(x) \in Nat
    BY Sizes DEF Allowed
  <2>6. t6 <= Allowed(x)
    BY <2>2, <2>4, <2>5
  <2> QED
    BY <2>3, <2>6
<1> QED
  BY <1>2, <1>11, <1>17, <1>18 DEF Moderate

\* The calls for a route are.
LEMMA RouteGroup ==
    ASSUME NEW r \in RouteParts, NEW s, s = RouteCalls(r)
    PROVE  Orderly(s, "routes", r.name) /\ Moderate(s)
PROOF
<1>1. /\ r.name \in Text /\ r.governedBy \in Text /\ r.displays \in Text /\ r.proceed \in Text
      /\ r.entrance \in Text /\ r.approaching \in Text
      /\ r.clears \in Seq(Text) /\ r.home \in Seq(Text)
      /\ Len(r.clears) <= MaxRouteTerms /\ Len(r.home) <= MaxRouteTerms
  BY DEF RouteParts, Listed
<1>2. PICK k, n : k = "routes" /\ n = r.name /\ k \in Owners
  BY DEF Owners
<1>3. PICK S1, S2, S3, S4, S5, S6, S7, S8, S9 :
        /\ S1 = <<Declare("route", <<n>>)>>
        /\ S2 = Given("governedBy", k, n, r.governedBy)
        /\ S3 = Given("displays", k, n, r.displays)
        /\ S4 = AlignCalls(r)
        /\ S5 = EachOf("clearBlock", k, n, r.clears)
        /\ S6 = EachOf("homeFact", k, n, r.home)
        /\ S7 = Given("proceed", k, n, r.proceed)
        /\ S8 = Given("entrance", k, n, r.entrance)
        /\ S9 = Given("approaching", k, n, r.approaching)
  OBVIOUS
<1>4. Orderly(S1, k, n) /\ Section(S1, "", None, "route", 1)
  BY <1>1, <1>2, <1>3, OrderlyFirst
<1>5. Section(S2, k, n, "governedBy", 1)
  BY <1>1, <1>2, <1>3, GivenSection, OpsTaken, NotListing
<1>6. Section(S3, k, n, "displays", 1)
  BY <1>1, <1>2, <1>3, GivenSection, OpsTaken, NotListing
<1>7. Section(S4, k, n, "align", MaxRouteTerms)
  BY <1>1, <1>2, <1>3, AlignsSection
<1>8. Section(S5, k, n, "clearBlock", MaxRouteTerms)
  BY <1>1, <1>2, <1>3, EachOfSection, OpsTaken, NotListing
<1>9. Section(S6, k, n, "homeFact", MaxRouteTerms)
  BY <1>1, <1>2, <1>3, EachOfSection, OpsTaken, NotListing
<1>10. Section(S7, k, n, "proceed", 1)
  BY <1>1, <1>2, <1>3, GivenSection, OpsTaken, NotListing
<1>11. Section(S8, k, n, "entrance", 1)
  BY <1>1, <1>2, <1>3, GivenSection, OpsTaken, NotListing
<1>12. Section(S9, k, n, "approaching", 1)
  BY <1>1, <1>2, <1>3, GivenSection, OpsTaken, NotListing
<1>13. PICK u2, u3, u4, u5, u6, u7, u8, u9 :
        /\ u2 = S1 \o S2
        /\ u3 = u2 \o S3
        /\ u4 = u3 \o S4
        /\ u5 = u4 \o S5
        /\ u6 = u5 \o S6
        /\ u7 = u6 \o S7
        /\ u8 = u7 \o S8
        /\ u9 = u8 \o S9
  OBVIOUS
<1>14. u9 = s
  BY <1>2, <1>3, <1>13 DEF RouteCalls, AlignCalls
<1>15. \A x : Tally(S1, x) \in Nat /\ Tally(S1, x) <= Times(x, "route", 1)
  BY <1>4, GroupBegun
<1>16. /\ Orderly(u2, k, n)
       /\ \A x : /\ Tally(u2, x) \in Nat
                 /\ Tally(u2, x) <= Tally(S1, x) + Times(x, "governedBy", 1)
  BY <1>2, <1>5, <1>13, <1>4, Sizes, GroupGrown
<1>17. /\ Orderly(u3, k, n)
       /\ \A x : /\ Tally(u3, x) \in Nat
                 /\ Tally(u3, x) <= Tally(u2, x) + Times(x, "displays", 1)
  BY <1>2, <1>6, <1>13, <1>16, Sizes, GroupGrown
<1>18. /\ Orderly(u4, k, n)
       /\ \A x : /\ Tally(u4, x) \in Nat
                 /\ Tally(u4, x) <= Tally(u3, x) + Times(x, "align", MaxRouteTerms)
  BY <1>2, <1>7, <1>13, <1>17, Sizes, GroupGrown
<1>19. /\ Orderly(u5, k, n)
       /\ \A x : /\ Tally(u5, x) \in Nat
                 /\ Tally(u5, x) <= Tally(u4, x) + Times(x, "clearBlock", MaxRouteTerms)
  BY <1>2, <1>8, <1>13, <1>18, Sizes, GroupGrown
<1>20. /\ Orderly(u6, k, n)
       /\ \A x : /\ Tally(u6, x) \in Nat
                 /\ Tally(u6, x) <= Tally(u5, x) + Times(x, "homeFact", MaxRouteTerms)
  BY <1>2, <1>9, <1>13, <1>19, Sizes, GroupGrown
<1>21. /\ Orderly(u7, k, n)
       /\ \A x : /\ Tally(u7, x) \in Nat
                 /\ Tally(u7, x) <= Tally(u6, x) + Times(x, "proceed", 1)
  BY <1>2, <1>10, <1>13, <1>20, Sizes, GroupGrown
<1>22. /\ Orderly(u8, k, n)
       /\ \A x : /\ Tally(u8, x) \in Nat
                 /\ Tally(u8, x) <= Tally(u7, x) + Times(x, "entrance", 1)
  BY <1>2, <1>11, <1>13, <1>21, Sizes, GroupGrown
<1>23. /\ Orderly(u9, k, n)
       /\ \A x : /\ Tally(u9, x) \in Nat
                 /\ Tally(u9, x) <= Tally(u8, x) + Times(x, "approaching", 1)
  BY <1>2, <1>12, <1>13, <1>22, Sizes, GroupGrown
<1>24. ASSUME NEW x
       PROVE  Tally(u9, x) <= Allowed(x)
  <2>1. PICK m1, m2, m3, m4, m5, m6, m7, m8, m9 :
          /\ m1 = Times(x, "route", 1)
          /\ m2 = Times(x, "governedBy", 1)
          /\ m3 = Times(x, "displays", 1)
          /\ m4 = Times(x, "align", MaxRouteTerms)
          /\ m5 = Times(x, "clearBlock", MaxRouteTerms)
          /\ m6 = Times(x, "homeFact", MaxRouteTerms)
          /\ m7 = Times(x, "proceed", 1)
          /\ m8 = Times(x, "entrance", 1)
          /\ m9 = Times(x, "approaching", 1)
    OBVIOUS
  <2>2. /\ m1 \in Nat /\ m2 \in Nat /\ m3 \in Nat /\ m4 \in Nat /\ m5 \in Nat /\ m6 \in Nat /\ m7 \in Nat /\ m8 \in Nat /\ m9 \in Nat
        /\ m1 + m2 + m3 + m4 + m5 + m6 + m7 + m8 + m9 <= Allowed(x)
    BY <2>1, Sizes DEF Times, Allowed
  <2>3. PICK t1, t2, t3, t4, t5, t6, t7, t8, t9 :
          /\ t1 = Tally(S1, x)
          /\ t2 = Tally(u2, x)
          /\ t3 = Tally(u3, x)
          /\ t4 = Tally(u4, x)
          /\ t5 = Tally(u5, x)
          /\ t6 = Tally(u6, x)
          /\ t7 = Tally(u7, x)
          /\ t8 = Tally(u8, x)
          /\ t9 = Tally(u9, x)
    OBVIOUS
  <2>4. /\ t1 \in Nat /\ t2 \in Nat /\ t3 \in Nat /\ t4 \in Nat /\ t5 \in Nat /\ t6 \in Nat /\ t7 \in Nat /\ t8 \in Nat /\ t9 \in Nat
        /\ t1 <= m1 /\ t2 <= t1 + m2 /\ t3 <= t2 + m3 /\ t4 <= t3 + m4 /\ t5 <= t4 + m5 /\ t6 <= t5 + m6 /\ t7 <= t6 + m7 /\ t8 <= t7 + m8 /\ t9 <= t8 + m9
    BY <1>15, <1>16, <1>17, <1>18, <1>19, <1>20, <1>21, <1>22, <1>23, <2>1, <2>3
  <2>5. Allowed(x) \in Nat
    BY Sizes DEF Allowed
  <2>6. t9 <= Allowed(x)
    BY <2>2, <2>4, <2>5
  <2> QED
    BY <2>3, <2>6
<1> QED
  BY <1>2, <1>14, <1>23, <1>24 DEF Moderate

\* What a declaration writes is of the owner that it declares.
LEMMA DeclaredCells ==
    ASSUME NEW c, Callable(c), c.owners = "", NEW o, NEW m, NEW f, <<o, m, f>> \in Rewrites(c)
    PROVE  <<o, m>> \in Owns(c)
PROOF
<1>1. c.op \in Declarations
  BY DEF Callable, Bindings
<1>2. /\ c.op = "addAutomaticSignal" => o = "routes" /\ m = c.names[1]
      /\ c.op = "addControlPointLine" => o = "controlPoints" /\ m = c.names[1]
      /\ c.op \in {"addAutomaticSignal", "addControlPointLine"}
  BY <1>1 DEF Rewrites, Declarations
<1> QED
  BY <1>2 DEF Owns

\* Calls of one owner with different names have no field in common that one of
\* them writes anew.
LEMMA OtherField ==
    ASSUME NEW c, Callable(c), NEW d, Callable(d), NEW k \in Owners, NEW n,
           c.owners = k, c.owner = n, d.owners = k, d.owner = n, c.op # d.op,
           ~TakesList(c), ~TakesList(d), NEW x, x \in Rewrites(c)
    PROVE  x \notin Rewrites(d) \cup Lengthens(d)
PROOF
<1>1. PICK no : no = {}
  OBVIOUS
<1>2. CASE k = "routes"
  <2>1. PICK f, g : f = FieldOf(c.op) /\ g = FieldOf(d.op)
    OBVIOUS
  <2>2. /\ Rewrites(c) \subseteq {<<"routes", n, f>>}
        /\ Rewrites(d) \cup Lengthens(d) \subseteq {<<"routes", n, g>>}
    <3>1. PICK one, two : one = {<<"routes", n, f>>} /\ two = {<<"routes", n, g>>}
      OBVIOUS
    <3>2. Cells(c, no, one) \/ Cells(c, one, no)
      BY <1>1, <1>2, <2>1, <3>1, RouteCells
    <3>3. Cells(d, no, two) \/ Cells(d, two, no)
      BY <1>1, <1>2, <2>1, <3>1, RouteCells
    <3> QED
      BY <1>1, <3>1, <3>2, <3>3 DEF Cells
  <2>3. f # g
    <3>1. /\ c.op \in {"governedBy", "displays", "align", "clearBlock", "homeFact", "proceed",
                       "entrance", "approaching"}
          /\ d.op \in {"governedBy", "displays", "align", "clearBlock", "homeFact", "proceed",
                       "entrance", "approaching"}
      BY <1>2, RouteCallIs DEF TakesList
    <3> QED
      BY <2>1, <3>1 DEF FieldOf
  <2> QED
    BY <2>2, <2>3
<1>3. CASE k = "automatics"
  <2>1. PICK g, ap, h, dd, op, home, pro :
          /\ g = <<"automatics", n, "governs">> /\ ap = <<"automatics", n, "approach">>
          /\ h = <<"automatics", n, "h">> /\ dd = <<"automatics", n, "d">>
          /\ op = <<"automatics", n, "opposing">>
          /\ home = <<"routes", n, "home">> /\ pro = <<"routes", n, "proceed">>
    OBVIOUS
  <2>2. ASSUME NEW e, Callable(e), e.owners = k, e.owner = n
        PROVE  /\ e.op \in {"governs", "approach", "reads", "opposing"}
               /\ e.op = "governs" => Rewrites(e) = {} /\ Lengthens(e) = {g, home}
               /\ e.op = "approach" => Rewrites(e) = {} /\ Lengthens(e) = {ap}
               /\ e.op = "reads" => Rewrites(e) = {h, dd, pro} /\ Lengthens(e) = {home}
               /\ e.op = "opposing" => Rewrites(e) = {op} /\ Lengthens(e) = {home}
    BY <1>3, <2>1, <2>2, AutomaticCells DEF Cells
  <2>3. op \notin {g, ap, h, dd, home, pro} /\ {h, dd, pro} \cap {g, ap, home, op} = {}
    BY <2>1
  <2>4. CASE c.op = "reads"
    <3>1. x \in {h, dd, pro}
      BY <2>2, <2>4
    <3>2. Rewrites(d) \cup Lengthens(d) \subseteq {g, ap, home, op}
      BY <2>2, <2>4
    <3> QED
      BY <2>3, <3>1, <3>2
  <2>5. CASE c.op = "opposing"
    <3>1. x = op
      BY <2>2, <2>5
    <3>2. Rewrites(d) \cup Lengthens(d) \subseteq {g, ap, h, dd, home, pro}
      BY <2>2, <2>5
    <3> QED
      BY <2>3, <3>1, <3>2
  <2>6. CASE c.op \in {"governs", "approach"}
    BY <2>2, <2>6
  <2> QED
    BY <2>2, <2>4, <2>5, <2>6
<1>4. CASE k = "controlPoints"
  <2>1. ASSUME NEW e, Callable(e), e.owners = k, e.owner = n
        PROVE  /\ e.op \in {"governs", "block", "leaving", "home", "traffic"}
               /\ e.op = "home" => Rewrites(e) = {<<"controlPoints", n, "home">>} /\ Lengthens(e) = {}
               /\ e.op = "traffic" => Rewrites(e) = {} /\ Lengthens(e) = {}
               /\ \A f \in {"governs", "block", "leaving"} :
                    e.op = f => Rewrites(e) = {} /\ Lengthens(e) = {<<"controlPoints", n, f>>}
    BY <1>4, <2>1, ControlPointCells DEF Cells
  <2>2. c.op = "home" /\ x = <<"controlPoints", n, "home">>
    BY <2>1
  <2>3. d.op # "home"
    BY <2>2
  <2>4. CASE d.op = "traffic"
    BY <2>1, <2>4
  <2>5. CASE d.op \in {"governs", "block", "leaving"}
    <3>1. PICK f : f \in {"governs", "block", "leaving"} /\ f = d.op
      BY <2>5
    <3>2. Rewrites(d) = {} /\ Lengthens(d) = {<<"controlPoints", n, f>>}
      BY <2>1, <3>1
    <3> QED
      BY <2>2, <3>1, <3>2
  <2> QED
    BY <2>1, <2>3, <2>4, <2>5
<1> QED
  BY <1>2, <1>3, <1>4 DEF Owners

\* A call that may be made more than once writes nothing anew.
LEMMA ManyAllowed ==
    ASSUME NEW c, Callable(c), c.owners \in Owners, ~TakesList(c), 2 <= Allowed(c.op)
    PROVE  \A x : x \notin Rewrites(c)
PROOF
<1>1. c.op \in {"align", "clearBlock", "homeFact", "block", "governs", "approach", "leaving"}
  BY DEF Allowed
<1>2. PICK no : no = {}
  OBVIOUS
<1>3. SUFFICES Rewrites(c) = no
  BY <1>2
<1>4. CASE c.owners = "routes"
  <2>1. PICK f, L : f = FieldOf(c.op) /\ L = {<<"routes", c.owner, f>>}
    OBVIOUS
  <2>2. c.op \in {"align", "clearBlock", "homeFact"}
    BY <1>1, <1>4, RouteCallIs
  <2>3. Cells(c, no, L)
    BY <1>2, <1>4, <2>1, <2>2, RouteCells
  <2> QED
    BY <2>3 DEF Cells
<1>5. CASE c.owners = "automatics"
  <2>1. c.op \in {"governs", "approach"}
    BY <1>1, <1>5, AutomaticCells
  <2>2. \E L : Cells(c, no, L)
    BY <1>2, <1>5, <2>1, AutomaticCells
  <2> QED
    BY <2>2 DEF Cells
<1>6. CASE c.owners = "controlPoints"
  <2>1. c.op \in {"governs", "block", "leaving"}
    BY <1>1, <1>6, ControlPointCells
  <2>2. \E L : Cells(c, no, L)
    BY <1>2, <1>6, <2>1, ControlPointCells
  <2> QED
    BY <2>2 DEF Cells
<1> QED
  BY <1>4, <1>5, <1>6 DEF Owners

-----------------------------------------------------------------------------
(* In the group of one owner everything is said once.                      *)

Declares(c) == c.owners = ""

\* A call in the group of an owner: its declaration, at the head, or a binding.
LEMMA PositionIs ==
    ASSUME NEW c, NEW i, NEW k, NEW n, Position(c, i, k, n)
    PROVE  /\ ~TakesList(c)
           /\ Declares(c) => i = 1 /\ k # "automatics" /\ Owns(c) = {<<k, n>>}
           /\ ~Declares(c) => c.owners = k /\ c.owner = n
  BY DEF Position, Declares

\* The calls of an orderly group.
LEMMA OrderlyIs ==
    ASSUME NEW s, NEW k, NEW n, Orderly(s, k, n), NEW i \in 1 .. Len(s), NEW c, c = s[i]
    PROVE  /\ IsSeq(s) /\ Callable(c) /\ Position(c, i, k, n) /\ ~TakesList(c)
           /\ ~Declares(c) => c.owners = k /\ c.owner = n
PROOF
<1>1. IsSeq(s) /\ Calling(s) /\ Position(c, i, k, n)
  BY DEF Orderly, Calling
<1>2. c \in ToSet(s)
  BY <1>1, SeqIs DEF IsSeq
<1>3. Callable(c)
  BY <1>1, <1>2 DEF Calling
<1> QED
  BY <1>1, <1>3, PositionIs

\* What a call writes anew is not written by another call of the group.
LEMMA GroupApart ==
    ASSUME NEW s, NEW k \in Owners, NEW n, Orderly(s, k, n), Moderate(s),
           NEW i \in 1 .. Len(s), NEW j \in 1 .. Len(s), i # j,
           NEW c, c = s[i], NEW d, d = s[j], ~Declares(c), ~Declares(d), NEW x, x \in Rewrites(c)
    PROVE  x \notin Rewrites(d) \cup Lengthens(d)
PROOF
<1>1. Callable(c) /\ ~TakesList(c) /\ c.owners = k /\ c.owner = n /\ IsSeq(s)
  BY OrderlyIs
<1>2. Callable(d) /\ ~TakesList(d) /\ d.owners = k /\ d.owner = n
  BY OrderlyIs
<1>3. CASE c.op # d.op
  BY <1>1, <1>2, <1>3, OtherField
<1>4. CASE c.op = d.op
  <2>1. 2 <= Tally(s, c.op) /\ Tally(s, c.op) \in Nat
    BY <1>1, <1>4, TwiceTallied, WhereFinite
  <2>2. Tally(s, c.op) <= Allowed(c.op) /\ Allowed(c.op) \in Nat
    BY Sizes DEF Moderate, Allowed
  <2>3. 2 <= Allowed(c.op)
    BY <2>1, <2>2
  <2> QED
    BY <1>1, <2>3, ManyAllowed
<1> QED
  BY <1>3, <1>4

\* A call that makes an array longer, other than the home of an automatic
\* signal's route, is of a kind that is made as often as there is room.
LEMMA LengthensOne ==
    ASSUME NEW k \in Owners, NEW n, NEW c, Callable(c), c.owners = k, c.owner = n,
           NEW o, NEW f, <<o, n, f>> \in Lengthens(c), k = "automatics" => o = k
    PROVE  /\ Allowed(c.op) = Limit(o, f)
           /\ \A d : Callable(d) /\ d.owners = k /\ d.owner = n /\ <<o, n, f>> \in Lengthens(d)
                => d.op = c.op
PROOF
<1>1. PICK no, x : no = {} /\ x = <<o, n, f>>
  OBVIOUS
<1>2. CASE k = "routes"
  <2>1. ASSUME NEW d, Callable(d), d.owners = k, d.owner = n, x \in Lengthens(d)
        PROVE  d.op \in {"align", "clearBlock", "homeFact"} /\ o = "routes" /\ f = FieldOf(d.op)
    <3>1. PICK g, L : g = FieldOf(d.op) /\ L = {<<"routes", n, g>>}
      OBVIOUS
    <3>2. (Cells(d, no, L) /\ d.op \in {"align", "clearBlock", "homeFact"}) \/ Cells(d, L, no)
      BY <1>1, <1>2, <2>1, <3>1, RouteCells
    <3>3. Lengthens(d) = L /\ d.op \in {"align", "clearBlock", "homeFact"}
      BY <1>1, <2>1, <3>2 DEF Cells
    <3>4. x = <<"routes", n, g>>
      BY <2>1, <3>1, <3>3
    <3> QED
      BY <1>1, <3>1, <3>3, <3>4
  <2>2. c.op \in {"align", "clearBlock", "homeFact"} /\ o = "routes" /\ f = FieldOf(c.op)
    BY <1>1, <2>1, <1>2
  <2>3. Allowed(c.op) = Limit(o, f)
    BY <2>2 DEF Allowed, Limit, FieldOf
  <2>4. ASSUME NEW d, Callable(d), d.owners = k, d.owner = n, x \in Lengthens(d)
        PROVE  d.op = c.op
    <3>1. d.op \in {"align", "clearBlock", "homeFact"} /\ f = FieldOf(d.op)
      BY <2>1, <2>4
    <3> QED
      BY <2>2, <3>1 DEF FieldOf
  <2> QED
    BY <1>1, <2>3, <2>4
<1>3. CASE k = "automatics"
  <2>1. ASSUME NEW d, Callable(d), d.owners = k, d.owner = n, x \in Lengthens(d)
        PROVE  d.op \in {"governs", "approach"} /\ f = d.op
    <3>1. PICK g, ap, h, dd, op, home, pro :
            /\ g = <<"automatics", n, "governs">> /\ ap = <<"automatics", n, "approach">>
            /\ h = <<"automatics", n, "h">> /\ dd = <<"automatics", n, "d">>
            /\ op = <<"automatics", n, "opposing">>
            /\ home = <<"routes", n, "home">> /\ pro = <<"routes", n, "proceed">>
      OBVIOUS
    <3>2. /\ d.op \in {"governs", "approach", "reads", "opposing"}
          /\ d.op = "governs" => Lengthens(d) = {g, home}
          /\ d.op = "approach" => Lengthens(d) = {ap}
          /\ d.op = "reads" => Lengthens(d) = {home}
          /\ d.op = "opposing" => Lengthens(d) = {home}
      BY <1>3, <2>1, <3>1, AutomaticCells DEF Cells
    <3>3. x # home
      <4>1. o # "routes"
        BY <1>3
      <4> QED
        BY <1>1, <3>1, <4>1
    <3>4. (d.op = "governs" /\ x = g) \/ (d.op = "approach" /\ x = ap)
      BY <2>1, <3>2, <3>3
    <3> QED
      BY <1>1, <3>1, <3>4
  <2>2. c.op \in {"governs", "approach"} /\ f = c.op
    BY <1>1, <1>3, <2>1
  <2>3. Allowed(c.op) = Limit(o, f)
    BY <2>2 DEF Allowed, Limit
  <2>4. ASSUME NEW d, Callable(d), d.owners = k, d.owner = n, x \in Lengthens(d)
        PROVE  d.op = c.op
    BY <2>1, <2>2, <2>4
  <2> QED
    BY <1>1, <2>3, <2>4
<1>4. CASE k = "controlPoints"
  <2>1. ASSUME NEW d, Callable(d), d.owners = k, d.owner = n, x \in Lengthens(d)
        PROVE  d.op \in {"governs", "block", "leaving"} /\ o = "controlPoints" /\ f = d.op
    <3>1. /\ d.op \in {"governs", "block", "leaving", "home", "traffic"}
          /\ d.op = "home" => Lengthens(d) = no
          /\ d.op = "traffic" => Lengthens(d) = no
          /\ \A g \in {"governs", "block", "leaving"} :
               d.op = g => Lengthens(d) = {<<"controlPoints", n, g>>}
      BY <1>1, <1>4, <2>1, ControlPointCells DEF Cells
    <3>2. d.op \in {"governs", "block", "leaving"}
      BY <1>1, <2>1, <3>1
    <3>3. PICK g \in {"governs", "block", "leaving"} : d.op = g
      BY <3>2
    <3>4. x = <<"controlPoints", n, g>>
      BY <2>1, <3>1, <3>3
    <3> QED
      BY <1>1, <3>2, <3>3, <3>4
  <2>2. c.op \in {"governs", "block", "leaving"} /\ o = "controlPoints" /\ f = c.op
    BY <1>1, <1>4, <2>1
  <2>3. Allowed(c.op) = Limit(o, f)
    BY <2>2 DEF Allowed, Limit
  <2>4. ASSUME NEW d, Callable(d), d.owners = k, d.owner = n, x \in Lengthens(d)
        PROVE  d.op = c.op
    BY <2>1, <2>2, <2>4
  <2> QED
    BY <1>1, <2>3, <2>4
<1> QED
  BY <1>2, <1>3, <1>4 DEF Owners

\* The home of an automatic signal's route is made longer by what the signal
\* governs, by what it reads and by its cut.
LEMMA LengthensHome ==
    ASSUME NEW n, NEW c, Callable(c), c.owners = "automatics", c.owner = n,
           NEW o, NEW f, <<o, n, f>> \in Lengthens(c), o # "automatics"
    PROVE  c.op \in {"governs", "reads", "opposing"} /\ o = "routes" /\ f = "home"
PROOF
<1>1. PICK x, g, ap, home :
        /\ x = <<o, n, f>>
        /\ g = <<"automatics", n, "governs">> /\ ap = <<"automatics", n, "approach">>
        /\ home = <<"routes", n, "home">>
  OBVIOUS
<1>2. /\ c.op \in {"governs", "approach", "reads", "opposing"}
      /\ c.op = "governs" => Lengthens(c) = {g, home}
      /\ c.op = "approach" => Lengthens(c) = {ap}
      /\ c.op = "reads" => Lengthens(c) = {home}
      /\ c.op = "opposing" => Lengthens(c) = {home}
  BY <1>1, AutomaticCells DEF Cells
<1>3. x # g /\ x # ap
  BY <1>1
<1>4. x = home /\ c.op # "approach"
  BY <1>1, <1>2, <1>3
<1> QED
  BY <1>1, <1>2, <1>4

\* Some of the calls of a kind are no more than all of them.
LEMMA TallyWithin ==
    ASSUME NEW s, IsSeq(s), NEW op, NEW V, V \subseteq Where(s, op)
    PROVE  IsFiniteSet(V) /\ Cardinality(V) \in Nat /\ Cardinality(V) <= Tally(s, op)
PROOF
<1>1. PICK W : W = Where(s, op)
  OBVIOUS
<1>2. IsFiniteSet(W)
  BY <1>1, WhereFinite
<1>3. V \in SUBSET W
  BY <1>1
<1>4. IsFiniteSet(V) /\ Cardinality(V) <= Cardinality(W)
  BY <1>2, <1>3, FS_Subset
<1> QED
  BY <1>1, <1>4, FS_CardinalityType DEF Tally

\* A group gives no array more than it has room for.
LEMMA GroupCount ==
    ASSUME NEW s, NEW k \in Owners, NEW n, Orderly(s, k, n), Moderate(s),
           NEW i \in 1 .. Len(s), ~Declares(s[i]), NEW o, NEW f, <<o, n, f>> \in Lengthens(s[i]),
           NEW V, V = {j \in 1 .. Len(s) : ~Declares(s[j]) /\ <<o, n, f>> \in Lengthens(s[j])}
    PROVE  IsFiniteSet(V) /\ Cardinality(V) \in Nat /\ Cardinality(V) <= Limit(o, f)
PROOF
<1>1. PICK c : c = s[i]
  OBVIOUS
<1>2. Callable(c) /\ c.owners = k /\ c.owner = n /\ IsSeq(s) /\ <<o, n, f>> \in Lengthens(c)
  BY <1>1, OrderlyIs
<1>3. ASSUME NEW j \in V
      PROVE  /\ j \in 1 .. Len(s) /\ Callable(s[j]) /\ s[j].owners = k /\ s[j].owner = n
             /\ <<o, n, f>> \in Lengthens(s[j])
  <2>1. j \in 1 .. Len(s) /\ ~Declares(s[j]) /\ <<o, n, f>> \in Lengthens(s[j])
    OBVIOUS
  <2>2. PICK d : d = s[j]
    OBVIOUS
  <2>3. Callable(d) /\ d.owners = k /\ d.owner = n
    BY <2>1, <2>2, OrderlyIs
  <2> QED
    BY <2>1, <2>2, <2>3
<1>4. CASE k = "automatics" => o = k
  <2>1. V \subseteq Where(s, c.op)
    <3>1. ASSUME NEW j \in V
          PROVE  j \in 1 .. Len(s) /\ s[j].op = c.op
      <4>1. PICK d : d = s[j]
        OBVIOUS
      <4>2. d.op = c.op
        BY <1>2, <1>3, <1>4, <4>1, LengthensOne
      <4> QED
        BY <1>3, <4>1, <4>2
    <3> QED
      BY <3>1 DEF Where
  <2>2. IsFiniteSet(V) /\ Cardinality(V) \in Nat /\ Cardinality(V) <= Tally(s, c.op)
    BY <1>2, <2>1, TallyWithin
  <2>3. Tally(s, c.op) \in Nat /\ Tally(s, c.op) <= Allowed(c.op) /\ Allowed(c.op) \in Nat
    BY <1>2, WhereFinite, Sizes DEF Moderate, Allowed
  <2>4. Allowed(c.op) = Limit(o, f)
    BY <1>2, <1>4, LengthensOne
  <2>5. Cardinality(V) <= Allowed(c.op)
    BY <2>2, <2>3
  <2> QED
    BY <2>2, <2>4, <2>5
<1>5. CASE k = "automatics" /\ o # k
  <2>1. PICK A, B, C : /\ A = Where(s, "governs") /\ B = Where(s, "reads") /\ C = Where(s, "opposing")
    OBVIOUS
  <2>2. V \subseteq (A \cup B) \cup C
    <3>1. ASSUME NEW j \in V
          PROVE  j \in (A \cup B) \cup C
      <4>1. PICK d : d = s[j]
        OBVIOUS
      <4>2. d.op \in {"governs", "reads", "opposing"} /\ j \in 1 .. Len(s)
        BY <1>3, <1>5, <4>1, LengthensHome
      <4> QED
        BY <2>1, <4>1, <4>2 DEF Where
    <3> QED
      BY <3>1
  <2>3. IsFiniteSet(A) /\ IsFiniteSet(B) /\ IsFiniteSet(C)
    BY <1>2, <2>1, WhereFinite
  <2>4. /\ IsFiniteSet(A \cup B)
        /\ Cardinality(A \cup B) = Cardinality(A) + Cardinality(B) - Cardinality(A \cap B)
    BY <2>3, FS_Union
  <2>5. PICK X : X = A \cup B
    OBVIOUS
  <2>6. /\ IsFiniteSet(X \cup C)
        /\ Cardinality(X \cup C) = Cardinality(X) + Cardinality(C) - Cardinality(X \cap C)
    BY <2>3, <2>4, <2>5, FS_Union
  <2>7. IsFiniteSet(A \cap B) /\ IsFiniteSet(X \cap C)
    <3>1. (A \cap B) \in SUBSET A /\ (X \cap C) \in SUBSET C
      OBVIOUS
    <3> QED
      BY <2>3, <3>1, FS_Subset
  <2>8. IsFiniteSet(V) /\ Cardinality(V) <= Cardinality(X \cup C)
    <3>1. V \in SUBSET (X \cup C)
      BY <2>2, <2>5
    <3> QED
      BY <2>6, <3>1, FS_Subset
  <2>9. /\ Cardinality(A) \in Nat /\ Cardinality(A) <= Allowed("governs")
        /\ Cardinality(B) \in Nat /\ Cardinality(B) <= Allowed("reads")
        /\ Cardinality(C) \in Nat /\ Cardinality(C) <= Allowed("opposing")
    BY <1>2, <2>1, WhereFinite DEF Moderate, Tally
  <2>10. Allowed("governs") = MaxBlockFacts /\ Allowed("reads") = 1 /\ Allowed("opposing") = 1
    BY DEF Allowed
  <2>11. Limit(o, f) = MaxRouteTerms
    <3>1. o = "routes" /\ f = "home"
      BY <1>2, <1>5, LengthensHome
    <3> QED
      BY <3>1 DEF Limit
  <2>12. PICK a, b, e, x, v, w, y, z :
           /\ a = Cardinality(A) /\ b = Cardinality(B) /\ e = Cardinality(C) /\ x = Cardinality(X)
           /\ v = Cardinality(V) /\ w = Cardinality(X \cup C)
           /\ y = Cardinality(A \cap B) /\ z = Cardinality(X \cap C)
    OBVIOUS
  <2>13. a \in Nat /\ b \in Nat /\ e \in Nat /\ x \in Nat /\ v \in Nat /\ w \in Nat /\ y \in Nat /\ z \in Nat
    BY <2>4, <2>5, <2>6, <2>7, <2>8, <2>9, <2>12, FS_CardinalityType
  <2>14. v <= w /\ w = x + e - z /\ x = a + b - y
    BY <2>4, <2>5, <2>6, <2>8, <2>12
  <2>15. a <= MaxBlockFacts /\ b <= 1 /\ e <= 1
    BY <2>9, <2>10, <2>12
  <2>16. v <= MaxRouteTerms
    BY <2>13, <2>14, <2>15, Sizes
  <2> QED
    BY <2>8, <2>11, <2>12, <2>13, <2>16
<1> QED
  BY <1>4, <1>5

-----------------------------------------------------------------------------
(* Declarations and then one group for every owner: a program that says    *)
(* everything once, and declares an owner before it binds it.              *)

\* The declarations bring automatic signals of these names, each once.
Heading(s, names) ==
    /\ Calling(s)
    /\ \A i \in 1 .. Len(s) :
         /\ Declares(s[i]) /\ ~TakesList(s[i])
         /\ \A o, n : <<o, n>> \in Owns(s[i]) => n \in names /\ o # "controlPoints"
    /\ \A i, j \in 1 .. Len(s) : i # j
         => \A o, n : ~(<<o, n>> \in Owns(s[i]) /\ <<o, n>> \in Owns(s[j]))
    /\ \A n \in names : \E i \in 1 .. Len(s) : <<"automatics", n>> \in Owns(s[i])

\* Nothing is reached from both of two owners.
Apart(k, n, l, m) == \A o : ~(n = m /\ Reaches(k, o) /\ Reaches(l, o))
Leads(s, k, n, names) ==
    /\ k \in Owners /\ Orderly(s, k, n) /\ Moderate(s)
    /\ k = "automatics" => n \in names
    /\ k = "routes" => n \notin names
Arranged(groups, kind, name, names) ==
    /\ IsSeq(groups) /\ 1 <= Len(groups) /\ Heading(groups[1], names)
    /\ \A g \in 2 .. Len(groups) : Leads(groups[g], kind[g], name[g], names)
    /\ \A g, h \in 2 .. Len(groups) : g # h => Apart(kind[g], name[g], kind[h], name[h])

\* Arranged groups are groups of calls.
LEMMA ArrangedGrouped ==
    ASSUME NEW groups, NEW kind, NEW name, NEW names, Arranged(groups, kind, name, names)
    PROVE  Grouped(groups) /\ Len(groups) \in Nat
PROOF
<1>1. IsSeq(groups) /\ Len(groups) \in Nat
  BY SeqIs DEF Arranged, IsSeq
<1>2. ASSUME NEW g \in 1 .. Len(groups), NEW s, s = groups[g]
      PROVE  Calling(s)
  <2>1. CASE g = 1
    BY <1>2, <2>1 DEF Arranged, Heading
  <2>2. CASE g # 1
    <3>1. g \in 2 .. Len(groups)
      BY <1>1, <2>2
    <3> QED
      BY <1>2, <3>1 DEF Arranged, Leads, Orderly
  <2> QED
    BY <2>1, <2>2
<1> QED
  BY <1>1, <1>2 DEF Grouped

\* The call at a place is one of the declarations or one of a group.
Led(c, i, s, k, n, names) ==
    /\ Leads(s, k, n, names) /\ i \in 1 .. Len(s) /\ c = s[i]
Headed(c, i, s, names) == Heading(s, names) /\ i \in 1 .. Len(s) /\ c = s[i]

\* The call at a place: a declaration at the head, or one of an owner's group.
LEMMA ArrangedPlace ==
    ASSUME NEW groups, NEW kind, NEW name, NEW names, Arranged(groups, kind, name, names),
           NEW x \in Places(groups), NEW g, g = x[1], NEW i, i = x[2], NEW c, c = Family(groups)[x],
           NEW s, s = groups[g]
    PROVE  /\ g \in 1 .. Len(groups) /\ i \in 1 .. Len(s) /\ x = <<g, i>> /\ Callable(c) /\ ~TakesList(c)
           /\ g = 1 => Headed(c, i, s, names)
           /\ g # 1 => g \in 2 .. Len(groups) /\ Led(c, i, s, kind[g], name[g], names)
PROOF
<1>1. Grouped(groups) /\ Len(groups) \in Nat
  BY ArrangedGrouped
<1>2. g \in 1 .. Len(groups) /\ i \in 1 .. Len(s) /\ x = <<g, i>> /\ c = s[i] /\ Callable(c)
  BY <1>1, PlacesAre
<1>3. CASE g = 1
  <2>1. Headed(c, i, s, names)
    BY <1>2, <1>3 DEF Headed, Arranged
  <2>2. ~TakesList(c)
    BY <2>1 DEF Headed, Heading
  <2> QED
    BY <1>2, <1>3, <2>1, <2>2
<1>4. CASE g # 1
  <2>1. g \in 2 .. Len(groups)
    BY <1>1, <1>2, <1>4
  <2>2. PICK k, n : k = kind[g] /\ n = name[g]
    OBVIOUS
  <2>3. Led(c, i, s, k, n, names)
    BY <1>2, <2>1, <2>2 DEF Led, Arranged
  <2>4. ~TakesList(c)
    BY <2>3, OrderlyIs DEF Led, Leads
  <2> QED
    BY <1>2, <1>4, <2>1, <2>2, <2>3, <2>4
<1> QED
  BY <1>3, <1>4

\* What a call of a group declares, binds and changes is the owner of the group
\* or reached from it.
LEMMA LedIs ==
    ASSUME NEW c, NEW i, NEW s, NEW k, NEW n, NEW names, Led(c, i, s, k, n, names)
    PROVE  /\ Callable(c) /\ k \in Owners
           /\ \A o, m : <<o, m>> \in Owns(c) => Declares(c) /\ i = 1 /\ k # "automatics" /\ o = k /\ m = n
           /\ \A o, m : Binds(c, o, m) => ~Declares(c) /\ m = n /\ Reaches(k, o)
           /\ ~Declares(c) => c.owners = k /\ c.owner = n /\ \A x \in Rewrites(c) \cup Lengthens(c) : OfOwner(x, k, n)
           /\ Declares(c) => \A x : x \notin Lengthens(c)
PROOF
<1>1. Callable(c) /\ Position(c, i, k, n) /\ k \in Owners
  BY OrderlyIs DEF Led, Leads
<1>2. CASE Declares(c)
  <2>1. PICK no : no = {}
    OBVIOUS
  <2>2. Lengthens(c) = no
    BY <1>1, <1>2, <2>1, DeclaringIs DEF Declares
  <2>3. i = 1 /\ k # "automatics" /\ Owns(c) = {<<k, n>>}
    BY <1>1, <1>2, PositionIs
  <2>4. ASSUME NEW o, NEW m, <<o, m>> \in Owns(c)
        PROVE  o = k /\ m = n
    BY <2>3, <2>4
  <2>5. \A o, m : ~Binds(c, o, m)
    BY <1>2 DEF Binds, Declares
  <2> QED
    BY <1>1, <1>2, <2>1, <2>2, <2>3, <2>4, <2>5
<1>3. CASE ~Declares(c)
  <2>1. PICK no : no = {}
    OBVIOUS
  <2>2. Owns(c) = no /\ \A x \in Rewrites(c) \cup Lengthens(c) : OfOwner(x, c.owners, c.owner)
    BY <1>1, <1>3, <2>1, BindingIs DEF Declares
  <2>3. c.owners = k /\ c.owner = n
    BY <1>1, <1>3, PositionIs
  <2>4. \A o, m : Binds(c, o, m) => m = n /\ Reaches(k, o)
    BY <2>3 DEF Binds
  <2>5. \A x \in Rewrites(c) \cup Lengthens(c) : OfOwner(x, k, n)
    BY <2>2, <2>3
  <2>6. \A o, m : <<o, m>> \notin Owns(c)
    BY <2>1, <2>2
  <2> QED
    BY <1>1, <1>3, <2>3, <2>4, <2>5, <2>6
<1> QED
  BY <1>2, <1>3

\* A call of the first group declares, and binds nothing.
LEMMA HeadedIs ==
    ASSUME NEW c, NEW i, NEW s, NEW names, Headed(c, i, s, names)
    PROVE  /\ Declares(c) /\ \A o, m : ~Binds(c, o, m)
           /\ \A o, m : <<o, m>> \in Owns(c) => m \in names /\ o # "controlPoints"
PROOF
<1>1. Declares(c) /\ \A o, m : <<o, m>> \in Owns(c) => m \in names /\ o # "controlPoints"
  BY DEF Headed, Heading
<1>2. \A o, m : ~Binds(c, o, m)
  BY <1>1 DEF Binds, Declares
<1> QED
  BY <1>1, <1>2

\* Two calls do not declare the same owner.
LEMMA ArrangedOwns ==
    ASSUME NEW groups, NEW kind, NEW name, NEW names, Arranged(groups, kind, name, names),
           NEW x \in Places(groups), NEW y \in Places(groups), x # y,
           NEW c, c = Family(groups)[x], NEW d, d = Family(groups)[y], NEW o, NEW n,
           <<o, n>> \in Owns(c), <<o, n>> \in Owns(d)
    PROVE  FALSE
PROOF
<1>1. PICK g, i, s : g = x[1] /\ i = x[2] /\ s = groups[g]
  OBVIOUS
<1>2. PICK h, j, t : h = y[1] /\ j = y[2] /\ t = groups[h]
  OBVIOUS
<1>3. /\ x = <<g, i>>
      /\ g = 1 => Headed(c, i, s, names)
      /\ g # 1 => g \in 2 .. Len(groups) /\ Led(c, i, s, kind[g], name[g], names)
  BY <1>1, ArrangedPlace
<1>4. /\ y = <<h, j>>
      /\ h = 1 => Headed(d, j, t, names)
      /\ h # 1 => h \in 2 .. Len(groups) /\ Led(d, j, t, kind[h], name[h], names)
  BY <1>2, ArrangedPlace
<1>5. g # h \/ i # j
  BY <1>3, <1>4
<1>6. PICK k, m : k = kind[g] /\ m = name[g]
  OBVIOUS
<1>7. PICK l, w : l = kind[h] /\ w = name[h]
  OBVIOUS
<1>8. CASE g = 1 /\ h = 1
  <2>1. s = t /\ i # j
    BY <1>1, <1>2, <1>5, <1>8
  <2>2. Headed(c, i, s, names) /\ Headed(d, j, s, names)
    BY <1>3, <1>4, <1>8, <2>1
  <2> QED
    BY <2>1, <2>2 DEF Headed, Heading
<1>9. CASE g = 1 /\ h # 1
  <2>1. n \in names /\ o # "controlPoints"
    BY <1>3, <1>9, HeadedIs
  <2>2. Led(d, j, t, l, w, names)
    BY <1>4, <1>7, <1>9
  <2>3. l # "automatics" /\ o = l /\ n = w /\ l \in Owners
    BY <2>2, LedIs
  <2>4. l = "routes" => w \notin names
    BY <2>2 DEF Led, Leads
  <2> QED
    BY <2>1, <2>3, <2>4 DEF Owners
<1>10. CASE g # 1 /\ h = 1
  <2>1. n \in names /\ o # "controlPoints"
    BY <1>4, <1>10, HeadedIs
  <2>2. Led(c, i, s, k, m, names)
    BY <1>3, <1>6, <1>10
  <2>3. k # "automatics" /\ o = k /\ n = m /\ k \in Owners
    BY <2>2, LedIs
  <2>4. k = "routes" => m \notin names
    BY <2>2 DEF Led, Leads
  <2> QED
    BY <2>1, <2>3, <2>4 DEF Owners
<1>11. CASE g # 1 /\ h # 1
  <2>1. Led(c, i, s, k, m, names) /\ Led(d, j, t, l, w, names)
    BY <1>3, <1>4, <1>6, <1>7, <1>11
  <2>2. i = 1 /\ o = k /\ n = m /\ j = 1 /\ o = l /\ n = w
    BY <2>1, LedIs
  <2>3. g # h
    BY <1>5, <2>2
  <2>4. Apart(k, m, l, w)
    BY <1>3, <1>4, <1>6, <1>7, <1>11, <2>3 DEF Arranged
  <2> QED
    BY <2>2, <2>4 DEF Apart, Reaches
<1> QED
  BY <1>8, <1>9, <1>10, <1>11

\* An owner is not declared after it was bound.
LEMMA ArrangedOrder ==
    ASSUME NEW groups, NEW kind, NEW name, NEW names, Arranged(groups, kind, name, names),
           NEW x \in Places(groups), NEW y \in Places(groups), Earlier(x, y),
           NEW c, c = Family(groups)[x], NEW d, d = Family(groups)[y], NEW o, NEW n, Binds(c, o, n)
    PROVE  <<o, n>> \notin Owns(d)
PROOF
<1>1. PICK g, i, s : g = x[1] /\ i = x[2] /\ s = groups[g]
  OBVIOUS
<1>2. PICK h, j, t : h = y[1] /\ j = y[2] /\ t = groups[h]
  OBVIOUS
<1>3. /\ g \in 1 .. Len(groups) /\ i \in 1 .. Len(s)
      /\ g = 1 => Headed(c, i, s, names)
      /\ g # 1 => g \in 2 .. Len(groups) /\ Led(c, i, s, kind[g], name[g], names)
  BY <1>1, ArrangedPlace
<1>4. /\ h \in 1 .. Len(groups)
      /\ h # 1 => h \in 2 .. Len(groups) /\ Led(d, j, t, kind[h], name[h], names)
  BY <1>2, ArrangedPlace
<1>5. Grouped(groups) /\ Len(groups) \in Nat
  BY ArrangedGrouped
<1>6. Len(s) \in Nat
  BY <1>1, <1>3, <1>5, GroupIs
<1>7. PICK k, m, l, w : k = kind[g] /\ m = name[g] /\ l = kind[h] /\ w = name[h]
  OBVIOUS
<1>8. g # 1
  BY <1>3, HeadedIs
<1>9. Led(c, i, s, k, m, names)
  BY <1>3, <1>7, <1>8
<1>10. n = m /\ Reaches(k, o)
  BY <1>9, LedIs
<1>11. SUFFICES ASSUME <<o, n>> \in Owns(d)
                PROVE  FALSE
  OBVIOUS
<1>12. g < h \/ (g = h /\ i < j)
  BY <1>1, <1>2 DEF Earlier
<1>13. h # 1
  BY <1>3, <1>4, <1>5, <1>8, <1>12
<1>14. Led(d, j, t, l, w, names)
  BY <1>4, <1>7, <1>13
<1>15. j = 1 /\ o = l /\ n = w
  BY <1>11, <1>14, LedIs
<1>16. g # h
  BY <1>3, <1>6, <1>12, <1>15
<1>17. Apart(k, m, l, w)
  BY <1>3, <1>4, <1>7, <1>8, <1>13, <1>16 DEF Arranged
<1> QED
  BY <1>10, <1>15, <1>17 DEF Apart, Reaches

\* In arranged groups an owner is declared before it is bound.
LEMMA ArrangedSequenced ==
    ASSUME NEW groups, NEW kind, NEW name, NEW names, Arranged(groups, kind, name, names)
    PROVE  Sequenced(groups)
PROOF
<1>1. PICK call : call = Family(groups)
  OBVIOUS
<1>2. ASSUME NEW x \in Places(groups), NEW y \in Places(groups), Earlier(x, y), NEW o, NEW n,
             Binds(call[x], o, n)
      PROVE  <<o, n>> \notin Owns(call[y])
  <2>1. PICK c, d : c = call[x] /\ d = call[y]
    OBVIOUS
  <2> QED
    BY <1>1, <1>2, <2>1, ArrangedOrder
<1>3. ASSUME NEW x \in Places(groups), call[x].owners = "automatics"
      PROVE  \E d \in Places(groups) :
               Earlier(d, x) /\ <<"automatics", call[x].owner>> \in Owns(call[d])
  <2>1. PICK c, g, i, s : c = call[x] /\ g = x[1] /\ i = x[2] /\ s = groups[g]
    OBVIOUS
  <2>2. /\ g \in 1 .. Len(groups) /\ i \in 1 .. Len(s)
        /\ g = 1 => Headed(c, i, s, names)
        /\ g # 1 => g \in 2 .. Len(groups) /\ Led(c, i, s, kind[g], name[g], names)
    BY <1>1, <2>1, ArrangedPlace
  <2>3. ~Declares(c)
    BY <1>3, <2>1 DEF Declares
  <2>4. g # 1
    BY <2>2, <2>3, HeadedIs
  <2>5. PICK k, n : k = kind[g] /\ n = name[g]
    OBVIOUS
  <2>6. Led(c, i, s, k, n, names)
    BY <2>2, <2>4, <2>5
  <2>7. k = "automatics" /\ c.owner = n
    BY <1>3, <2>1, <2>3, <2>6, LedIs
  <2>8. n \in names
    BY <2>6, <2>7 DEF Led, Leads
  <2>9. PICK t : t = groups[1]
    OBVIOUS
  <2>10. Heading(t, names) /\ Len(groups) \in Nat /\ Grouped(groups)
    BY <2>9, ArrangedGrouped DEF Arranged
  <2>11. PICK j \in 1 .. Len(t) : <<"automatics", n>> \in Owns(t[j])
    BY <2>8, <2>10 DEF Heading
  <2>12. PICK d : d = <<1, j>>
    OBVIOUS
  <2>13. 1 \in 1 .. Len(groups) /\ 1 < g
    BY <2>2, <2>4, <2>10
  <2>14. d \in Places(groups) /\ call[d] = groups[1][j] /\ d[1] = 1
    BY <1>1, <2>9, <2>10, <2>12, <2>13, PlaceIs
  <2>15. Earlier(d, x)
    BY <2>1, <2>13, <2>14 DEF Earlier
  <2> QED
    BY <2>1, <2>7, <2>9, <2>11, <2>14, <2>15
<1> QED
  BY <1>1, <1>2, <1>3 DEF Sequenced

\* What a call writes anew is written by another call only where one of the
\* two declares the owner.
LEMMA ArrangedApart ==
    ASSUME NEW groups, NEW kind, NEW name, NEW names, Arranged(groups, kind, name, names),
           NEW x \in Places(groups), NEW y \in Places(groups), x # y,
           NEW c, c = Family(groups)[x], NEW d, d = Family(groups)[y], NEW o, NEW n, NEW f,
           <<o, n, f>> \in Rewrites(c), <<o, n, f>> \in Rewrites(d) \cup Lengthens(d)
    PROVE  <<o, n>> \in Owns(c) \cup Owns(d)
PROOF
<1>1. PICK g, i, s : g = x[1] /\ i = x[2] /\ s = groups[g]
  OBVIOUS
<1>2. PICK h, j, t : h = y[1] /\ j = y[2] /\ t = groups[h]
  OBVIOUS
<1>3. /\ x = <<g, i>> /\ Callable(c)
      /\ g = 1 => Headed(c, i, s, names)
      /\ g # 1 => g \in 2 .. Len(groups) /\ Led(c, i, s, kind[g], name[g], names)
  BY <1>1, ArrangedPlace
<1>4. /\ y = <<h, j>> /\ Callable(d)
      /\ h = 1 => Headed(d, j, t, names)
      /\ h # 1 => h \in 2 .. Len(groups) /\ Led(d, j, t, kind[h], name[h], names)
  BY <1>2, ArrangedPlace
<1>5. PICK k, m, l, w, z : k = kind[g] /\ m = name[g] /\ l = kind[h] /\ w = name[h] /\ z = <<o, n, f>>
  OBVIOUS
<1>6. CASE Declares(c)
  <2>1. c.owners = ""
    BY <1>6 DEF Declares
  <2>2. <<o, n>> \in Owns(c)
    BY <1>3, <2>1, DeclaredCells
  <2> QED
    BY <2>2
<1>7. CASE Declares(d)
  <2>1. d.owners = ""
    BY <1>7 DEF Declares
  <2>2. PICK no : no = {}
    OBVIOUS
  <2>3. Lengthens(d) = no
    BY <1>4, <2>1, <2>2, DeclaringIs
  <2>4. <<o, n, f>> \in Rewrites(d)
    BY <2>2, <2>3
  <2>5. <<o, n>> \in Owns(d)
    BY <1>4, <2>1, <2>4, DeclaredCells
  <2> QED
    BY <2>5
<1>8. CASE ~Declares(c) /\ ~Declares(d)
  <2>1. g # 1 /\ h # 1
    BY <1>3, <1>4, <1>8, HeadedIs
  <2>2. Led(c, i, s, k, m, names) /\ Led(d, j, t, l, w, names)
    BY <1>3, <1>4, <1>5, <2>1
  <2>3. CASE g = h
    <3>1. i # j /\ t = s
      BY <1>1, <1>2, <1>3, <1>4, <2>3
    <3>2. k \in Owners /\ Orderly(s, k, m) /\ Moderate(s) /\ i \in 1 .. Len(s) /\ j \in 1 .. Len(s)
      BY <2>2, <3>1 DEF Led, Leads
    <3>3. c = s[i] /\ d = s[j]
      BY <2>2, <3>1 DEF Led
    <3>4. z \notin Rewrites(d) \cup Lengthens(d)
      BY <1>5, <1>8, <3>1, <3>2, <3>3, GroupApart
    <3> QED
      BY <1>5, <3>4
  <2>4. CASE g # h
    <3>1. Apart(k, m, l, w)
      BY <1>3, <1>4, <1>5, <2>1, <2>4 DEF Arranged
    <3>2. OfOwner(z, k, m) /\ OfOwner(z, l, w)
      BY <1>5, <1>8, <2>2, LedIs
    <3>3. PICK u, v : z = <<u, m, v>> /\ Reaches(k, u)
      BY <3>2 DEF OfOwner
    <3>4. PICK u2, v2 : z = <<u2, w, v2>> /\ Reaches(l, u2)
      BY <3>2 DEF OfOwner
    <3>5. u = u2 /\ m = w
      BY <3>3, <3>4
    <3> QED
      BY <3>1, <3>3, <3>4, <3>5 DEF Apart
  <2> QED
    BY <2>3, <2>4
<1> QED
  BY <1>6, <1>7, <1>8

\* No array is given more than it has room for.
LEMMA ArrangedCount ==
    ASSUME NEW groups, NEW kind, NEW name, NEW names, Arranged(groups, kind, name, names),
           NEW call, call = Family(groups),
           NEW x \in Places(groups), NEW o, NEW n, NEW f, <<o, n, f>> \in Lengthens(call[x]),
           NEW W, W = {y \in Places(groups) : <<o, n, f>> \in Lengthens(call[y])}
    PROVE  Cardinality(W) <= Limit(o, f)
PROOF
<1>1. PICK c, g, i, s, z : c = call[x] /\ g = x[1] /\ i = x[2] /\ s = groups[g] /\ z = <<o, n, f>>
  OBVIOUS
<1>2. /\ Callable(c) /\ g \in 1 .. Len(groups)
      /\ g = 1 => Headed(c, i, s, names)
      /\ g # 1 => g \in 2 .. Len(groups) /\ Led(c, i, s, kind[g], name[g], names)
  BY <1>1, ArrangedPlace
<1>3. PICK k, m : k = kind[g] /\ m = name[g]
  OBVIOUS
<1>4. ASSUME NEW d, Callable(d), z \in Lengthens(d)
      PROVE  ~Declares(d)
  <2>1. SUFFICES ASSUME d.owners = ""
                 PROVE  FALSE
    BY DEF Declares
  <2>2. PICK no : no = {}
    OBVIOUS
  <2>3. Lengthens(d) = no
    BY <1>4, <2>1, <2>2, DeclaringIs
  <2> QED
    BY <1>4, <2>2, <2>3
<1>5. ~Declares(c)
  BY <1>1, <1>2, <1>4
<1>6. g # 1
  BY <1>2, <1>5, HeadedIs
<1>7. Led(c, i, s, k, m, names)
  BY <1>2, <1>3, <1>6
<1>8. OfOwner(z, k, m)
  BY <1>1, <1>5, <1>7, LedIs
<1>9. n = m
  BY <1>1, <1>8 DEF OfOwner
<1>10. PICK V : V = {j \in 1 .. Len(s) : ~Declares(s[j]) /\ <<o, n, f>> \in Lengthens(s[j])}
  OBVIOUS
<1>11. IsFiniteSet(V) /\ Cardinality(V) \in Nat /\ Cardinality(V) <= Limit(o, f)
  <2>1. k \in Owners /\ Orderly(s, k, n) /\ Moderate(s) /\ i \in 1 .. Len(s) /\ c = s[i]
    BY <1>7, <1>9 DEF Led, Leads
  <2>2. ~Declares(s[i]) /\ <<o, n, f>> \in Lengthens(s[i])
    BY <1>1, <1>5, <2>1
  <2> QED
    BY <1>10, <2>1, <2>2, GroupCount
<1> DEFINE B == {<<g, j>> : j \in V}
           at == [j \in V |-> <<g, j>>]
<1>12. IsFiniteSet(B) /\ Cardinality(B) <= Cardinality(V)
  <2>1. at \in Surjection(V, B)
    BY DEF Surjection
  <2> QED
    BY <1>11, <2>1, FS_Surjection
<1>13. W \subseteq B
  <2>1. ASSUME NEW y \in W
        PROVE  y \in B
    <3>1. PICK d, h, j, t : d = call[y] /\ h = y[1] /\ j = y[2] /\ t = groups[h]
      OBVIOUS
    <3>2. y \in Places(groups) /\ z \in Lengthens(d)
      BY <1>1, <3>1
    <3>3. /\ Callable(d) /\ y = <<h, j>>
          /\ h = 1 => Headed(d, j, t, names)
          /\ h # 1 => h \in 2 .. Len(groups) /\ Led(d, j, t, kind[h], name[h], names)
      BY <3>1, <3>2, ArrangedPlace
    <3>4. ~Declares(d)
      BY <1>4, <3>2, <3>3
    <3>5. h # 1
      BY <3>3, <3>4, HeadedIs
    <3>6. PICK l, w : l = kind[h] /\ w = name[h]
      OBVIOUS
    <3>7. Led(d, j, t, l, w, names)
      BY <3>3, <3>5, <3>6
    <3>8. OfOwner(z, l, w)
      BY <3>2, <3>4, <3>7, LedIs
    <3>9. h = g
      <4>1. SUFFICES ASSUME h # g
                     PROVE  FALSE
        OBVIOUS
      <4>2. Apart(k, m, l, w)
        BY <1>2, <1>3, <1>6, <3>3, <3>5, <3>6, <4>1 DEF Arranged
      <4>3. PICK u, v : z = <<u, m, v>> /\ Reaches(k, u)
        BY <1>8 DEF OfOwner
      <4>4. PICK u2, v2 : z = <<u2, w, v2>> /\ Reaches(l, u2)
        BY <3>8 DEF OfOwner
      <4>5. u = u2 /\ m = w
        BY <4>3, <4>4
      <4> QED
        BY <4>2, <4>3, <4>4, <4>5 DEF Apart
    <3>10. t = s /\ j \in 1 .. Len(s) /\ d = s[j]
      BY <1>1, <3>1, <3>7, <3>9 DEF Led
    <3>11. j \in V
      BY <1>1, <1>10, <3>2, <3>4, <3>10
    <3> QED
      BY <3>3, <3>9, <3>11
  <2> QED
    BY <2>1
<1> HIDE DEF B
<1>14. IsFiniteSet(W) /\ Cardinality(W) <= Cardinality(B)
  BY <1>12, <1>13, FS_Subset
<1>15. Cardinality(W) \in Nat /\ Cardinality(B) \in Nat
  BY <1>12, <1>14, FS_CardinalityType
<1>16. Limit(o, f) \in Nat
  <2>1. o \in Owners /\ f \in TermFields(o)
    BY <1>1, <1>8 DEF OfOwner
  <2> QED
    BY <2>1, Limits
<1>17. PICK a, b, v, l : a = Cardinality(W) /\ b = Cardinality(B) /\ v = Cardinality(V) /\ l = Limit(o, f)
  OBVIOUS
<1>18. a \in Nat /\ b \in Nat /\ v \in Nat /\ l \in Nat /\ a <= b /\ b <= v /\ v <= l
  BY <1>11, <1>12, <1>14, <1>15, <1>16, <1>17
<1>19. a <= l
  BY <1>18
<1> QED
  BY <1>17, <1>19

\* Arranged groups are a program that says everything once.
LEMMA ArrangedProgram ==
    ASSUME NEW groups, NEW kind, NEW name, NEW names, Arranged(groups, kind, name, names),
           NEW call, call = Family(groups)
    PROVE  Program(call)
PROOF
<1>1. Grouped(groups)
  BY ArrangedGrouped
<1>2. DOMAIN call = Places(groups) /\ IsFiniteSet(Places(groups))
  BY <1>1, PlacesFinite DEF Family
<1>3. ASSUME NEW x \in Places(groups), NEW c, c = call[x]
      PROVE  Callable(c) /\ ~TakesList(c)
  <2>1. PICK g, i, s : g = x[1] /\ i = x[2] /\ s = groups[g]
    OBVIOUS
  <2> QED
    BY <1>3, <2>1, ArrangedPlace
<1>4. ASSUME NEW x \in Places(groups), NEW y \in Places(groups), x # y
      PROVE  /\ Owns(call[x]) \cap Owns(call[y]) = {}
             /\ \A z \in Rewrites(call[x]) \cap (Rewrites(call[y]) \cup Lengthens(call[y])) :
                  <<z[1], z[2]>> \in Owns(call[x]) \cup Owns(call[y])
  <2>1. PICK c, d : c = call[x] /\ d = call[y]
    OBVIOUS
  <2>2. Callable(c) /\ Callable(d)
    BY <1>3, <2>1
  <2>3. ASSUME NEW z, z \in Owns(c), z \in Owns(d)
        PROVE  FALSE
    <3>1. \E o, n : z = <<o, n>>
      BY <2>3 DEF Owns
    <3> QED
      BY <1>4, <2>1, <2>3, <3>1, ArrangedOwns
  <2>4. ASSUME NEW z, z \in Rewrites(c), z \in Rewrites(d) \cup Lengthens(d)
        PROVE  <<z[1], z[2]>> \in Owns(c) \cup Owns(d)
    <3>1. \E o, n, f : z = <<o, n, f>>
      BY <2>4 DEF Rewrites
    <3>2. PICK o, n, f : z = <<o, n, f>>
      BY <3>1
    <3>3. <<o, n>> \in Owns(c) \cup Owns(d)
      BY <1>4, <2>1, <2>4, <3>2, ArrangedApart
    <3>4. z[1] = o /\ z[2] = n
      BY <3>2
    <3> QED
      BY <3>3, <3>4
  <2> QED
    BY <2>1, <2>3, <2>4
<1>5. ASSUME NEW x \in Places(groups), NEW z, z \in Lengthens(call[x]),
             NEW W, W = {y \in Places(groups) : z \in Lengthens(call[y])}
      PROVE  Cardinality(W) <= Limit(z[1], z[3])
  <2>1. \E o, n, f : z = <<o, n, f>>
    BY <1>5 DEF Lengthens
  <2>2. PICK o, n, f : z = <<o, n, f>>
    BY <2>1
  <2>3. z[1] = o /\ z[3] = f
    BY <2>2
  <2> QED
    BY <1>5, <2>2, <2>3, ArrangedCount
<1>6. \A x \in Places(groups) : Callable(call[x]) /\ ~TakesList(call[x])
  BY <1>3
<1>7. SaysOnce(call)
  BY <1>2, <1>4, <1>5, <1>6 DEF SaysOnce
<1> QED
  BY <1>2, <1>6, <1>7 DEF Program

-----------------------------------------------------------------------------
(* The calls that a file makes are such a program.                         *)

\* The owners of a file have different names, and no route is one that an
\* automatic signal brings.
FileOnce(f) ==
    /\ \A i, j \in 1 .. Len(f.automatics) : f.automatics[i].name = f.automatics[j].name => i = j
    /\ \A i, j \in 1 .. Len(f.controlPoints) : f.controlPoints[i].name = f.controlPoints[j].name => i = j
    /\ \A i, j \in 1 .. Len(f.routes) : f.routes[i].name = f.routes[j].name => i = j
    /\ \A i \in 1 .. Len(f.routes) : \A j \in 1 .. Len(f.automatics) :
         f.routes[i].name # f.automatics[j].name

\* The declaration of an appliance declares no owner.
LEMMA QuietOwns ==
    ASSUME NEW c, QuietCall(c)
    PROVE  Declares(c) /\ ~TakesList(c) /\ \A x : x \notin Owns(c)
PROOF
<1>1. PICK no : no = {}
  OBVIOUS
<1>2. Owns(c) = no
  BY <1>1 DEF QuietCall, Owns
<1>3. Declares(c) /\ ~TakesList(c)
  BY DEF QuietCall, Declares, TakesList
<1> QED
  BY <1>1, <1>2, <1>3

\* The declaration of an automatic signal.
LEMMA SignalOwns ==
    ASSUME NEW n, NEW c, c = Declare("addAutomaticSignal", <<n>>)
    PROVE  /\ Declares(c) /\ ~TakesList(c)
           /\ \A o, m : <<o, m>> \in Owns(c) => m = n /\ o # "controlPoints"
           /\ <<"automatics", n>> \in Owns(c)
PROOF
<1>1. PICK names : names = <<n>>
  OBVIOUS
<1>2. names[1] = n
  BY <1>1
<1>3. c.op = "addAutomaticSignal" /\ c.names[1] = n
  BY <1>1, <1>2 DEF Declare, Call
<1>4. Declares(c) /\ ~TakesList(c)
  BY DEF Declare, Call, Declares, TakesList
<1>5. Owns(c) = {<<"routes", n>>, <<"automatics", n>>}
  BY <1>3 DEF Owns
<1>6. ASSUME NEW o, NEW m, <<o, m>> \in Owns(c)
      PROVE  m = n /\ o # "controlPoints"
  BY <1>5, <1>6
<1> QED
  BY <1>4, <1>5, <1>6

\* The first group of a file declares its automatic signals, each once.
LEMMA FileHeading ==
    ASSUME NEW f, IsFile(f), FileOnce(f),
           NEW names, names = {f.automatics[i].name : i \in 1 .. Len(f.automatics)}
    PROVE  Heading(DeclarationsOf(f), names)
PROOF
<1>1. PICK s, u, t, a, m : /\ s = DeclarationsOf(f) /\ u = AppliancesOf(f) /\ t = AutomaticsOf(f)
                           /\ a = f.automatics /\ m = Len(u)
  OBVIOUS
<1>2. /\ Calling(s) /\ s = u \o t /\ IsSeq(t) /\ Len(t) = Len(a) /\ Len(a) \in Nat
      /\ \A i \in 1 .. Len(a) : t[i] = Declare("addAutomaticSignal", <<a[i].name>>)
  BY <1>1, DeclarationCalls DEF Calling
<1>3. Quiet(u) /\ IsSeq(u)
  BY <1>1, ApplianceCalls DEF Quiet
<1>4. /\ Len(s) = m + Len(t) /\ m \in Nat
      /\ \A i \in 1 .. m : s[i] = u[i]
      /\ \A i \in 1 .. Len(t) : s[m + i] = t[i]
  <2>1. s = u \o t /\ IsSeq(t) /\ IsSeq(u)
    BY <1>2, <1>3
  <2>2. m = Len(u)
    BY <1>1
  <2> QED
    BY <2>1, <2>2, Joined
<1>5. \A i \in 1 .. m : u[i] \in ToSet(u)
  BY <1>1, <1>3, SeqIs DEF IsSeq
<1>6. ASSUME NEW i \in 1 .. Len(s)
      PROVE  \/ QuietCall(s[i])
             \/ \E j \in 1 .. Len(a) : i = m + j /\ s[i] = Declare("addAutomaticSignal", <<a[j].name>>)
  <2>1. CASE i <= m
    <3>1. i \in 1 .. m
      BY <1>4, <2>1
    <3> QED
      BY <1>3, <1>4, <1>5, <3>1 DEF Quiet
  <2>2. CASE ~(i <= m)
    <3>1. PICK j : j = i - m
      OBVIOUS
    <3>2. j \in 1 .. Len(a) /\ i = m + j
      BY <1>2, <1>4, <2>2, <3>1
    <3> QED
      BY <1>2, <1>4, <3>2
  <2> QED
    BY <2>1, <2>2
<1>7. ASSUME NEW i \in 1 .. Len(s)
      PROVE  /\ Declares(s[i]) /\ ~TakesList(s[i])
             /\ \A o, n : <<o, n>> \in Owns(s[i])
                  => /\ n \in names /\ o # "controlPoints"
                     /\ \E j \in 1 .. Len(a) : i = m + j /\ a[j].name = n
  <2>1. PICK c : c = s[i]
    OBVIOUS
  <2>2. CASE QuietCall(c)
    BY <2>1, <2>2, QuietOwns
  <2>3. CASE \E j \in 1 .. Len(a) : i = m + j /\ c = Declare("addAutomaticSignal", <<a[j].name>>)
    <3>1. PICK j \in 1 .. Len(a) : i = m + j /\ c = Declare("addAutomaticSignal", <<a[j].name>>)
      BY <2>3
    <3>2. PICK w : w = a[j].name
      OBVIOUS
    <3>3. /\ Declares(c) /\ ~TakesList(c)
          /\ \A o, n : <<o, n>> \in Owns(c) => n = w /\ o # "controlPoints"
      <4>1. c = Declare("addAutomaticSignal", <<w>>)
        BY <3>1, <3>2
      <4> QED
        BY <4>1, SignalOwns
    <3>4. w \in names
      BY <1>1, <3>2
    <3> QED
      BY <2>1, <3>1, <3>2, <3>3, <3>4
  <2> QED
    BY <1>6, <2>1, <2>2, <2>3
<1>8. ASSUME NEW i \in 1 .. Len(s), NEW j \in 1 .. Len(s), i # j, NEW o, NEW n,
             <<o, n>> \in Owns(s[i]), <<o, n>> \in Owns(s[j])
      PROVE  FALSE
  <2>1. PICK k \in 1 .. Len(a) : i = m + k /\ a[k].name = n
    BY <1>7, <1>8
  <2>2. PICK l \in 1 .. Len(a) : j = m + l /\ a[l].name = n
    BY <1>7, <1>8
  <2>3. k = l
    BY <1>1, <2>1, <2>2 DEF FileOnce
  <2> QED
    BY <1>8, <2>1, <2>2, <2>3
<1>9. ASSUME NEW n \in names
      PROVE  \E i \in 1 .. Len(s) : <<"automatics", n>> \in Owns(s[i])
  <2>1. PICK j \in 1 .. Len(a) : a[j].name = n
    BY <1>1
  <2>2. PICK i, c : i = m + j /\ c = s[i]
    OBVIOUS
  <2>3. i \in 1 .. Len(s)
    BY <1>2, <1>4, <2>2
  <2>4. c = Declare("addAutomaticSignal", <<n>>)
    BY <1>2, <1>4, <2>1, <2>2
  <2>5. <<"automatics", n>> \in Owns(c)
    BY <2>4, SignalOwns
  <2> QED
    BY <2>2, <2>3, <2>5
<1>10. Heading(s, names)
  <2>1. Calling(s)
    BY <1>2
  <2>2. \A i \in 1 .. Len(s) :
          /\ Declares(s[i]) /\ ~TakesList(s[i])
          /\ \A o, n : <<o, n>> \in Owns(s[i]) => n \in names /\ o # "controlPoints"
    BY <1>7
  <2>3. \A i, j \in 1 .. Len(s) : i # j
          => \A o, n : ~(<<o, n>> \in Owns(s[i]) /\ <<o, n>> \in Owns(s[j]))
    BY <1>8
  <2> QED
    BY <1>9, <2>1, <2>2, <2>3 DEF Heading
<1> QED
  BY <1>1, <1>10

\* Where the calls for an owner are among the groups.
FileGroups(f, groups, a, l, r) ==
    /\ IsSeq(groups) /\ groups[1] = DeclarationsOf(f)
    /\ Len(a) \in Nat /\ Len(l) \in Nat /\ Len(r) \in Nat
    /\ Len(groups) = 1 + Len(a) + Len(l) + Len(r)
    /\ \A i \in 1 .. Len(a) : a[i] \in AutomaticParts /\ groups[1 + i] = AutomaticCalls(a[i])
    /\ \A i \in 1 .. Len(l) : l[i] \in ControlPointParts /\ groups[1 + Len(a) + i] = ControlPointCalls(l[i])
    /\ \A i \in 1 .. Len(r) : r[i] \in RouteParts /\ groups[1 + Len(a) + Len(l) + i] = RouteCalls(r[i])

\* The groups of a file: the declarations, then owner by owner.
LEMMA GroupsAre ==
    ASSUME NEW f, IsFile(f), NEW groups, groups = CallsOf(f),
           NEW a, a = f.automatics, NEW l, l = f.controlPoints, NEW r, r = f.routes
    PROVE  FileGroups(f, groups, a, l, r)
PROOF
<1>1. PICK x, A, B, C : /\ x = DeclarationsOf(f)
                        /\ A = Each(f.automatics, AutomaticCalls)
                        /\ B = Each(f.controlPoints, ControlPointCalls)
                        /\ C = Each(f.routes, RouteCalls)
  OBVIOUS
<1>2. a \in Seq(AutomaticParts) /\ l \in Seq(ControlPointParts) /\ r \in Seq(RouteParts)
  BY DEF IsFile
<1>3. /\ Len(a) \in Nat /\ DOMAIN a = 1 .. Len(a) /\ \A i \in 1 .. Len(a) : a[i] \in AutomaticParts
      /\ Len(l) \in Nat /\ DOMAIN l = 1 .. Len(l) /\ \A i \in 1 .. Len(l) : l[i] \in ControlPointParts
      /\ Len(r) \in Nat /\ DOMAIN r = 1 .. Len(r) /\ \A i \in 1 .. Len(r) : r[i] \in RouteParts
  BY <1>2, LenProperties, ElementOfSeq
<1>4. /\ A = [i \in DOMAIN a |-> AutomaticCalls(a[i])]
      /\ B = [i \in DOMAIN l |-> ControlPointCalls(l[i])]
      /\ C = [i \in DOMAIN r |-> RouteCalls(r[i])]
  BY <1>1 DEF Each
<1>5. IsSeq(A) /\ Len(A) = Len(a) /\ \A i \in 1 .. Len(a) : A[i] = AutomaticCalls(a[i])
  <2>1. PICK Y : Y = {AutomaticCalls(a[i]) : i \in 1 .. Len(a)}
    OBVIOUS
  <2>2. Mapped(A, a, Y)
    BY <1>3, <1>4, <2>1 DEF Mapped
  <2>3. A \in Seq(Y) /\ Len(A) = Len(a)
    BY <1>2, <2>2, EachMade
  <2> QED
    BY <1>3, <1>4, <2>3, SeqIs
<1>6. IsSeq(B) /\ Len(B) = Len(l) /\ \A i \in 1 .. Len(l) : B[i] = ControlPointCalls(l[i])
  <2>1. PICK Y : Y = {ControlPointCalls(l[i]) : i \in 1 .. Len(l)}
    OBVIOUS
  <2>2. Mapped(B, l, Y)
    BY <1>3, <1>4, <2>1 DEF Mapped
  <2>3. B \in Seq(Y) /\ Len(B) = Len(l)
    BY <1>2, <2>2, EachMade
  <2> QED
    BY <1>3, <1>4, <2>3, SeqIs
<1>7. IsSeq(C) /\ Len(C) = Len(r) /\ \A i \in 1 .. Len(r) : C[i] = RouteCalls(r[i])
  <2>1. PICK Y : Y = {RouteCalls(r[i]) : i \in 1 .. Len(r)}
    OBVIOUS
  <2>2. Mapped(C, r, Y)
    BY <1>3, <1>4, <2>1 DEF Mapped
  <2>3. C \in Seq(Y) /\ Len(C) = Len(r)
    BY <1>2, <2>2, EachMade
  <2> QED
    BY <1>3, <1>4, <2>3, SeqIs
<1>8. PICK z, s, t, ka, kl, kr :
        /\ z = <<x>> /\ s = z \o A /\ t = s \o B
        /\ ka = Len(a) /\ kl = Len(l) /\ kr = Len(r)
  OBVIOUS
<1>9. IsSeq(z) /\ Len(z) = 1 /\ z[1] = x
  BY <1>8, ShortSeqs
<1>10. groups = t \o C
  BY <1>1, <1>8, CallsAre
<1>11. /\ IsSeq(s) /\ Len(s) = 1 + ka /\ s[1] = x
       /\ \A i \in 1 .. ka : s[1 + i] = A[i]
  <2>1. Joins(s, z, A, 1, ka)
    BY <1>5, <1>8, <1>9 DEF Joins
  <2>2. /\ IsSeq(s) /\ Len(s) = 1 + ka
        /\ \A i \in 1 .. 1 : s[i] = z[i]
        /\ \A i \in 1 .. ka : s[1 + i] = A[i]
    BY <2>1, JoinedAs
  <2> QED
    BY <1>9, <2>2
<1>12. /\ IsSeq(t) /\ Len(t) = 1 + ka + kl
       /\ \A i \in 1 .. 1 + ka : t[i] = s[i]
       /\ \A i \in 1 .. kl : t[1 + ka + i] = B[i]
  <2>1. PICK m : m = 1 + ka
    OBVIOUS
  <2>2. Joins(t, s, B, m, kl)
    BY <1>6, <1>8, <1>11, <2>1 DEF Joins
  <2>3. /\ IsSeq(t) /\ Len(t) = m + kl
        /\ \A i \in 1 .. m : t[i] = s[i]
        /\ \A i \in 1 .. kl : t[m + i] = B[i]
    BY <2>2, JoinedAs
  <2> QED
    BY <2>1, <2>3
<1>13. /\ IsSeq(groups) /\ Len(groups) = 1 + ka + kl + kr
       /\ \A i \in 1 .. 1 + ka + kl : groups[i] = t[i]
       /\ \A i \in 1 .. kr : groups[1 + ka + kl + i] = C[i]
  <2>1. PICK m : m = 1 + ka + kl
    OBVIOUS
  <2>2. Joins(groups, t, C, m, kr)
    BY <1>7, <1>8, <1>10, <1>12, <2>1 DEF Joins
  <2>3. /\ IsSeq(groups) /\ Len(groups) = m + kr
        /\ \A i \in 1 .. m : groups[i] = t[i]
        /\ \A i \in 1 .. kr : groups[m + i] = C[i]
    BY <2>2, JoinedAs
  <2> QED
    BY <2>1, <2>3
<1>14. ka \in Nat /\ kl \in Nat /\ kr \in Nat
  BY <1>3, <1>8
<1>15. groups[1] = x
  <2>1. 1 \in 1 .. 1 + ka /\ 1 \in 1 .. 1 + ka + kl
    BY <1>14
  <2> QED
    BY <1>11, <1>12, <1>13, <2>1
<1>16. ASSUME NEW i \in 1 .. ka
       PROVE  groups[1 + i] = AutomaticCalls(a[i])
  <2>1. PICK j : j = 1 + i
    OBVIOUS
  <2>2. j \in 1 .. 1 + ka /\ j \in 1 .. 1 + ka + kl
    BY <1>14, <2>1
  <2>3. groups[j] = t[j] /\ t[j] = s[j] /\ s[j] = A[i]
    BY <1>11, <1>12, <1>13, <2>1, <2>2
  <2> QED
    BY <1>5, <1>8, <2>1, <2>3
<1>17. ASSUME NEW i \in 1 .. kl
       PROVE  groups[1 + ka + i] = ControlPointCalls(l[i])
  <2>1. PICK j : j = 1 + ka + i
    OBVIOUS
  <2>2. j \in 1 .. 1 + ka + kl
    BY <1>14, <2>1
  <2>3. groups[j] = t[j] /\ t[j] = B[i]
    BY <1>12, <1>13, <2>1, <2>2
  <2> QED
    BY <1>6, <1>8, <2>1, <2>3
<1>18. ASSUME NEW i \in 1 .. kr
       PROVE  groups[1 + ka + kl + i] = RouteCalls(r[i])
  <2>1. groups[1 + ka + kl + i] = C[i]
    BY <1>13
  <2>2. kr = Len(r)
    BY <1>8
  <2> QED
    BY <1>7, <2>1, <2>2
<1> QED
  BY <1>1, <1>3, <1>8, <1>13, <1>15, <1>16, <1>17, <1>18 DEF FileGroups

\* The group at a place of the file: whose calls they are.
LEMMA FileArranged ==
    ASSUME NEW f, IsFile(f), FileOnce(f), NEW groups, groups = CallsOf(f)
    PROVE  \E kind, name, names : Arranged(groups, kind, name, names)
PROOF
<1>1. PICK a, l, r, ka, kl, kr :
        /\ a = f.automatics /\ l = f.controlPoints /\ r = f.routes
        /\ ka = Len(a) /\ kl = Len(l) /\ kr = Len(r)
  OBVIOUS
<1>2. /\ IsSeq(groups) /\ groups[1] = DeclarationsOf(f)
      /\ ka \in Nat /\ kl \in Nat /\ kr \in Nat
      /\ Len(groups) = 1 + ka + kl + kr
      /\ \A i \in 1 .. ka : a[i] \in AutomaticParts /\ groups[1 + i] = AutomaticCalls(a[i])
      /\ \A i \in 1 .. kl : l[i] \in ControlPointParts /\ groups[1 + ka + i] = ControlPointCalls(l[i])
      /\ \A i \in 1 .. kr : r[i] \in RouteParts /\ groups[1 + ka + kl + i] = RouteCalls(r[i])
  <2>1. a = f.automatics /\ l = f.controlPoints /\ r = f.routes
    BY <1>1
  <2>2. FileGroups(f, groups, a, l, r)
    BY <2>1, GroupsAre
  <2> QED
    BY <1>1, <2>2 DEF FileGroups
<1> DEFINE kind == [g \in 2 .. Len(groups) |->
                      IF g <= 1 + ka THEN "automatics"
                      ELSE IF g <= 1 + ka + kl THEN "controlPoints" ELSE "routes"]
           name == [g \in 2 .. Len(groups) |->
                      IF g <= 1 + ka THEN a[g - 1].name
                      ELSE IF g <= 1 + ka + kl THEN l[g - 1 - ka].name ELSE r[g - 1 - ka - kl].name]
           names == {f.automatics[i].name : i \in 1 .. Len(f.automatics)}
           Place(g, i) == \/ g = 1 + i /\ i \in 1 .. ka /\ kind[g] = "automatics" /\ name[g] = a[i].name
                          \/ /\ g = 1 + ka + i /\ i \in 1 .. kl /\ kind[g] = "controlPoints"
                             /\ name[g] = l[i].name
                          \/ /\ g = 1 + ka + kl + i /\ i \in 1 .. kr /\ kind[g] = "routes"
                             /\ name[g] = r[i].name
<1>3. names = {a[i].name : i \in 1 .. ka}
  BY <1>1
<1>4. ASSUME NEW g \in 2 .. Len(groups)
      PROVE  \E i : Place(g, i)
  <2>1. g \in Nat /\ g >= 2 /\ g <= 1 + ka + kl + kr
    BY <1>2
  <2>2. CASE g <= 1 + ka
    <3>1. PICK i : i = g - 1
      OBVIOUS
    <3>2. i \in 1 .. ka /\ g = 1 + i
      BY <1>2, <2>1, <2>2, <3>1
    <3>3. kind[g] = "automatics" /\ name[g] = a[i].name
      BY <2>2, <3>1
    <3> QED
      BY <3>2, <3>3
  <2>3. CASE ~(g <= 1 + ka) /\ g <= 1 + ka + kl
    <3>1. PICK i : i = g - 1 - ka
      OBVIOUS
    <3>2. i \in 1 .. kl /\ g = 1 + ka + i
      BY <1>2, <2>1, <2>3, <3>1
    <3>3. kind[g] = "controlPoints" /\ name[g] = l[i].name
      BY <2>3, <3>1
    <3> QED
      BY <3>2, <3>3
  <2>4. CASE ~(g <= 1 + ka) /\ ~(g <= 1 + ka + kl)
    <3>1. PICK i : i = g - 1 - ka - kl
      OBVIOUS
    <3>2. i \in 1 .. kr /\ g = 1 + ka + kl + i
      BY <1>2, <2>1, <2>4, <3>1
    <3>3. kind[g] = "routes" /\ name[g] = r[i].name
      BY <2>4, <3>1
    <3> QED
      BY <3>2, <3>3
  <2> QED
    BY <2>2, <2>3, <2>4
<1> HIDE DEF kind, name
<1>5. ASSUME NEW g \in 2 .. Len(groups), NEW k, k = kind[g], NEW n, n = name[g], NEW s, s = groups[g]
      PROVE  Leads(s, k, n, names)
  <2>1. PICK i : Place(g, i)
    BY <1>4
  <2>2. CASE g = 1 + i /\ i \in 1 .. ka /\ k = "automatics" /\ n = a[i].name
    <3>1. PICK x : x = a[i]
      OBVIOUS
    <3>2. x \in AutomaticParts /\ s = AutomaticCalls(x) /\ n = x.name
      BY <1>2, <1>5, <2>2, <3>1
    <3>3. Orderly(s, "automatics", x.name) /\ Moderate(s)
      BY <3>2, AutomaticGroup
    <3>4. n \in names
      BY <1>3, <2>2
    <3> QED
      BY <2>2, <3>2, <3>3, <3>4 DEF Leads, Owners
  <2>3. CASE g = 1 + ka + i /\ i \in 1 .. kl /\ k = "controlPoints" /\ n = l[i].name
    <3>1. PICK x : x = l[i]
      OBVIOUS
    <3>2. x \in ControlPointParts /\ s = ControlPointCalls(x) /\ n = x.name
      BY <1>2, <1>5, <2>3, <3>1
    <3>3. Orderly(s, "controlPoints", x.name) /\ Moderate(s)
      BY <3>2, ControlPointGroup
    <3> QED
      BY <2>3, <3>2, <3>3 DEF Leads, Owners
  <2>4. CASE g = 1 + ka + kl + i /\ i \in 1 .. kr /\ k = "routes" /\ n = r[i].name
    <3>1. PICK x : x = r[i]
      OBVIOUS
    <3>2. x \in RouteParts /\ s = RouteCalls(x) /\ n = x.name
      BY <1>2, <1>5, <2>4, <3>1
    <3>3. Orderly(s, "routes", x.name) /\ Moderate(s)
      BY <3>2, RouteGroup
    <3>4. n \notin names
      BY <1>1, <1>3, <2>4 DEF FileOnce
    <3> QED
      BY <2>4, <3>2, <3>3, <3>4 DEF Leads, Owners
  <2> QED
    BY <1>5, <2>1, <2>2, <2>3, <2>4
<1>6. ASSUME NEW g \in 2 .. Len(groups), NEW h \in 2 .. Len(groups), g # h,
             NEW k, k = kind[g], NEW n, n = name[g], NEW m, m = kind[h], NEW w, w = name[h],
             NEW o, n = w, Reaches(k, o), Reaches(m, o)
      PROVE  FALSE
  <2>1. PICK i : Place(g, i)
    BY <1>4
  <2>2. PICK j : Place(h, j)
    BY <1>4
  <2>3. /\ \A x, y \in 1 .. ka : a[x].name = a[y].name => x = y
        /\ \A x, y \in 1 .. kl : l[x].name = l[y].name => x = y
        /\ \A x, y \in 1 .. kr : r[x].name = r[y].name => x = y
        /\ \A x \in 1 .. kr : \A y \in 1 .. ka : r[x].name # a[y].name
    BY <1>1 DEF FileOnce
  <2>4. k \in {"automatics", "controlPoints", "routes"} /\ m \in {"automatics", "controlPoints", "routes"}
    BY <1>6, <2>1, <2>2
  <2>5. k = m \/ (k = "automatics" /\ m = "routes") \/ (k = "routes" /\ m = "automatics")
    BY <1>6, <2>4 DEF Reaches
  <2>6. CASE k = "automatics" /\ m = "automatics"
    <3>1. g = 1 + i /\ i \in 1 .. ka /\ n = a[i].name
      BY <1>6, <2>1, <2>6
    <3>2. h = 1 + j /\ j \in 1 .. ka /\ w = a[j].name
      BY <1>6, <2>2, <2>6
    <3>3. i = j
      BY <1>6, <2>3, <3>1, <3>2
    <3> QED
      BY <1>6, <3>1, <3>2, <3>3
  <2>7. CASE k = "controlPoints" /\ m = "controlPoints"
    <3>1. g = 1 + ka + i /\ i \in 1 .. kl /\ n = l[i].name
      BY <1>6, <2>1, <2>7
    <3>2. h = 1 + ka + j /\ j \in 1 .. kl /\ w = l[j].name
      BY <1>6, <2>2, <2>7
    <3>3. i = j
      BY <1>6, <2>3, <3>1, <3>2
    <3> QED
      BY <1>6, <3>1, <3>2, <3>3
  <2>8. CASE k = "routes" /\ m = "routes"
    <3>1. g = 1 + ka + kl + i /\ i \in 1 .. kr /\ n = r[i].name
      BY <1>6, <2>1, <2>8
    <3>2. h = 1 + ka + kl + j /\ j \in 1 .. kr /\ w = r[j].name
      BY <1>6, <2>2, <2>8
    <3>3. i = j
      BY <1>6, <2>3, <3>1, <3>2
    <3> QED
      BY <1>6, <3>1, <3>2, <3>3
  <2>9. CASE k = "automatics" /\ m = "routes"
    <3>1. i \in 1 .. ka /\ n = a[i].name
      BY <1>6, <2>1, <2>9
    <3>2. j \in 1 .. kr /\ w = r[j].name
      BY <1>6, <2>2, <2>9
    <3> QED
      BY <1>6, <2>3, <3>1, <3>2
  <2>10. CASE k = "routes" /\ m = "automatics"
    <3>1. i \in 1 .. kr /\ n = r[i].name
      BY <1>6, <2>1, <2>10
    <3>2. j \in 1 .. ka /\ w = a[j].name
      BY <1>6, <2>2, <2>10
    <3> QED
      BY <1>6, <2>3, <3>1, <3>2
  <2> QED
    BY <2>4, <2>5, <2>6, <2>7, <2>8, <2>9, <2>10
<1>7. \A g, h \in 2 .. Len(groups) : g # h => Apart(kind[g], name[g], kind[h], name[h])
  <2>1. ASSUME NEW g \in 2 .. Len(groups), NEW h \in 2 .. Len(groups), g # h
        PROVE  Apart(kind[g], name[g], kind[h], name[h])
    <3>1. PICK k, n, m, w : k = kind[g] /\ n = name[g] /\ m = kind[h] /\ w = name[h]
      OBVIOUS
    <3>2. Apart(k, n, m, w)
      BY <1>6, <2>1, <3>1 DEF Apart
    <3> QED
      BY <3>1, <3>2
  <2> QED
    BY <2>1
<1>8. PICK t : t = groups[1]
  OBVIOUS
<1>9. Heading(t, names)
  BY <1>2, <1>8, FileHeading
<1>10. 1 <= Len(groups)
  BY <1>2
<1> HIDE DEF names
<1>11. \A g \in 2 .. Len(groups) : Leads(groups[g], kind[g], name[g], names)
  <2>1. ASSUME NEW g \in 2 .. Len(groups)
        PROVE  Leads(groups[g], kind[g], name[g], names)
    <3>1. PICK k, n, s : k = kind[g] /\ n = name[g] /\ s = groups[g]
      OBVIOUS
    <3>2. Leads(s, k, n, names)
      BY <1>5, <3>1
    <3> QED
      BY <3>1, <3>2
  <2> QED
    BY <2>1
<1>12. Arranged(groups, kind, name, names)
  BY <1>2, <1>7, <1>8, <1>9, <1>10, <1>11 DEF Arranged
<1> QED
  BY <1>12

\* A unit that starts from a file lays down everything that the file says.
THEOREM FileLaid ==
    ASSUME NEW f, IsFile(f), FileOnce(f), NEW p, IsPlant(p), Empty(p), NEW q, q = Deserialized(p, f)
    PROVE  /\ IsSeq(CallsOf(f)) /\ \A group \in ToSet(CallsOf(f)) : IsSeq(group)
           /\ IsPlant(q) /\ \A group \in ToSet(CallsOf(f)) : \A c \in ToSet(group) : Meets(q, c)
PROOF
<1>1. PICK groups, call : groups = CallsOf(f) /\ call = Family(groups)
  OBVIOUS
<1>2. PICK kind, name, names : Arranged(groups, kind, name, names)
  BY <1>1, FileArranged
<1>3. Grouped(groups) /\ Sequenced(groups) /\ Program(call)
  BY <1>1, <1>2, ArrangedGrouped, ArrangedSequenced, ArrangedProgram
<1>4. f.default \in Nat
  BY DEF IsFile
<1>5. Laid(q, call, Places(groups))
  BY <1>1, <1>3, <1>4, DeserializedLaid
<1>6. IsPlant(q) /\ \A x \in Places(groups) : Meets(q, call[x])
  BY <1>5 DEF Laid, Met
<1>7. IsSeq(groups) /\ \A group \in ToSet(groups) : Calling(group)
  BY <1>1, CallsAre
<1>8. ASSUME NEW group \in ToSet(groups), NEW c \in ToSet(group)
      PROVE  Meets(q, c)
  <2>1. Calling(group) /\ IsSeq(group)
    BY <1>7 DEF Calling
  <2>2. DOMAIN groups = 1 .. Len(groups) /\ DOMAIN group = 1 .. Len(group)
    BY <1>7, <2>1, SeqIs DEF IsSeq
  <2>3. PICK k \in 1 .. Len(groups) : group = groups[k]
    BY <2>2 DEF ToSet
  <2>4. PICK i \in 1 .. Len(groups[k]) : c = group[i]
    BY <2>2, <2>3 DEF ToSet
  <2>5. PICK x : x = <<k, i>>
    OBVIOUS
  <2>6. x \in Places(groups) /\ call[x] = c
    BY <1>1, <1>3, <2>3, <2>4, <2>5, PlaceIs
  <2> QED
    BY <1>6, <2>6
<1> QED
  BY <1>1, <1>6, <1>7, <1>8 DEF Calling

-----------------------------------------------------------------------------
(* A plant that was laid down is written to a file whose owners have       *)
(* different names.                                                        *)

\* The owners that are in the file.
LEMMA WrittenOwners ==
    ASSUME NEW p, IsPlant(p), NEW f, f = Serialized(p)
    PROVE  /\ Len(f.automatics) = Len(p.automatics) /\ Len(p.automatics) \in Nat
           /\ \A i \in 1 .. Len(p.automatics) : f.automatics[i].name = p.automatics[i].name
           /\ Len(f.controlPoints) = Len(p.controlPoints) /\ Len(p.controlPoints) \in Nat
           /\ \A i \in 1 .. Len(p.controlPoints) : f.controlPoints[i].name = p.controlPoints[i].name
           /\ Len(f.routes) = Len(OwnRoutes(p)) /\ Len(OwnRoutes(p)) \in Nat
           /\ \A i \in 1 .. Len(OwnRoutes(p)) : f.routes[i].name = OwnRoutes(p)[i].name
PROOF
<1>1. IsFile(f)
  BY SerializedIs
<1>2. PICK a, l, r : a = p.automatics /\ l = p.controlPoints /\ r = OwnRoutes(p)
  OBVIOUS
<1>3. /\ a \in Seq(OwnerEntries("automatics")) /\ l \in Seq(OwnerEntries("controlPoints"))
      /\ r \in Seq(OwnerEntries("routes"))
  BY <1>2, PlantTypes, PickedType DEF OwnRoutes
<1>4. /\ Len(a) \in Nat /\ DOMAIN a = 1 .. Len(a)
      /\ Len(l) \in Nat /\ DOMAIN l = 1 .. Len(l)
      /\ Len(r) \in Nat /\ DOMAIN r = 1 .. Len(r)
  BY <1>3, LenProperties
<1>5. PICK fa, fl, fr : fa = f.automatics /\ fl = f.controlPoints /\ fr = f.routes
  OBVIOUS
<1>6. /\ fa = [i \in DOMAIN a |-> WrittenAutomatic(a[i])]
      /\ fl = [i \in DOMAIN l |-> WrittenControlPoint(l[i])]
      /\ fr = [i \in DOMAIN r |-> WrittenRoute(r[i])]
  BY <1>2, <1>5 DEF Serialized, Each
<1>7. fa \in Seq(AutomaticParts) /\ fl \in Seq(ControlPointParts) /\ fr \in Seq(RouteParts)
  BY <1>1, <1>5 DEF IsFile
<1>8. /\ Len(fa) \in Nat /\ DOMAIN fa = 1 .. Len(fa)
      /\ Len(fl) \in Nat /\ DOMAIN fl = 1 .. Len(fl)
      /\ Len(fr) \in Nat /\ DOMAIN fr = 1 .. Len(fr)
  BY <1>7, LenProperties
<1>9. Len(fa) = Len(a) /\ \A i \in 1 .. Len(a) : fa[i].name = a[i].name
  <2>1. \A i \in 1 .. Len(a) : fa[i].name = a[i].name
    BY <1>4, <1>6 DEF WrittenAutomatic
  <2>2. PICK Y : Y = {WrittenAutomatic(a[i]) : i \in 1 .. Len(a)}
    OBVIOUS
  <2>3. Mapped(fa, a, Y)
    BY <1>4, <1>6, <2>2 DEF Mapped
  <2>4. Len(fa) = Len(a)
    BY <1>3, <2>3, EachMade
  <2> QED
    BY <2>1, <2>4
<1>10. Len(fl) = Len(l) /\ \A i \in 1 .. Len(l) : fl[i].name = l[i].name
  <2>1. \A i \in 1 .. Len(l) : fl[i].name = l[i].name
    BY <1>4, <1>6 DEF WrittenControlPoint
  <2>2. PICK Y : Y = {WrittenControlPoint(l[i]) : i \in 1 .. Len(l)}
    OBVIOUS
  <2>3. Mapped(fl, l, Y)
    BY <1>4, <1>6, <2>2 DEF Mapped
  <2>4. Len(fl) = Len(l)
    BY <1>3, <2>3, EachMade
  <2> QED
    BY <2>1, <2>4
<1>11. Len(fr) = Len(r) /\ \A i \in 1 .. Len(r) : fr[i].name = r[i].name
  <2>1. \A i \in 1 .. Len(r) : fr[i].name = r[i].name
    BY <1>4, <1>6 DEF WrittenRoute
  <2>2. PICK Y : Y = {WrittenRoute(r[i]) : i \in 1 .. Len(r)}
    OBVIOUS
  <2>3. Mapped(fr, r, Y)
    BY <1>4, <1>6, <2>2 DEF Mapped
  <2>4. Len(fr) = Len(r)
    BY <1>3, <2>3, EachMade
  <2> QED
    BY <2>1, <2>4
<1> QED
  BY <1>2, <1>4, <1>5, <1>9, <1>10, <1>11

\* The file of a program that says everything once names every owner once.
THEOREM LaidFileOnce ==
    ASSUME NEW p, NEW call, NEW D, Laid(p, call, D), NEW f, f = Serialized(p)
    PROVE  FileOnce(f)
PROOF
<1>1. IsPlant(p) /\ Founded(p, call, D) /\ Once(p) /\ Signalled(p, call, D)
  BY DEF Laid
<1>2. PICK a, l, r, t : a = p.automatics /\ l = p.controlPoints /\ r = OwnRoutes(p) /\ t = p.routes
  OBVIOUS
<1>3. PICK fa, fl, fr : fa = f.automatics /\ fl = f.controlPoints /\ fr = f.routes
  OBVIOUS
<1>4. /\ Len(fa) = Len(a) /\ Len(a) \in Nat /\ \A i \in 1 .. Len(a) : fa[i].name = a[i].name
      /\ Len(fl) = Len(l) /\ Len(l) \in Nat /\ \A i \in 1 .. Len(l) : fl[i].name = l[i].name
      /\ Len(fr) = Len(r) /\ Len(r) \in Nat /\ \A i \in 1 .. Len(r) : fr[i].name = r[i].name
  BY <1>1, <1>2, <1>3, WrittenOwners
<1>5. /\ \A i, j \in 1 .. Len(a) : a[i].name = a[j].name => i = j
      /\ \A i, j \in 1 .. Len(l) : l[i].name = l[j].name => i = j
      /\ \A i, j \in 1 .. Len(t) : t[i].name = t[j].name => i = j
  <2>1. "automatics" \in Owners /\ "controlPoints" \in Owners /\ "routes" \in Owners
    BY DEF Owners
  <2>2. a = p["automatics"] /\ l = p["controlPoints"] /\ t = p["routes"]
    BY <1>2
  <2> QED
    BY <1>1, <2>1, <2>2 DEF Once
<1>6. PICK places : places = {i \in DOMAIN t : ~t[i].automatic}
  OBVIOUS
<1>7. PickedFrom(r, t, places, Len(t))
  <2>1. t \in Seq(OwnerEntries("routes")) /\ r = Picked(t, places)
    BY <1>1, <1>2, <1>6, PlantTypes DEF OwnRoutes
  <2> QED
    BY <2>1, PickedIs
<1>8. PICK at \in [1 .. Len(r) -> 1 .. Len(t)] :
        /\ \A k \in 1 .. Len(r) : at[k] \in places /\ r[k] = t[at[k]]
        /\ \A k, m \in 1 .. Len(r) : k < m => at[k] < at[m]
  BY <1>7 DEF PickedFrom
<1>9. t \in Seq(OwnerEntries("routes")) /\ Len(t) \in Nat /\ DOMAIN t = 1 .. Len(t)
  BY <1>1, <1>2, PlantTypes, LenProperties
<1>10. ASSUME NEW i \in 1 .. Len(r), NEW j \in 1 .. Len(r), r[i].name = r[j].name
       PROVE  i = j
  <2>1. at[i] \in 1 .. Len(t) /\ at[j] \in 1 .. Len(t) /\ t[at[i]].name = t[at[j]].name
    BY <1>8, <1>10
  <2>2. at[i] = at[j]
    BY <1>5, <2>1
  <2>3. ~(i < j) /\ ~(j < i)
    BY <1>8, <1>9, <2>1, <2>2
  <2> QED
    BY <1>4, <2>3
<1>11. ASSUME NEW i \in 1 .. Len(r), NEW j \in 1 .. Len(a), r[i].name = a[j].name
       PROVE  FALSE
  <2>1. PICK n, k : n = a[j].name /\ k = at[i]
    OBVIOUS
  <2>2. k \in 1 .. Len(t) /\ t[k].name = n /\ ~t[k].automatic
    BY <1>6, <1>8, <1>11, <2>1
  <2>3. DOMAIN a = 1 .. Len(a)
    <3>1. a \in Seq(OwnerEntries("automatics"))
      BY <1>1, <1>2, PlantTypes
    <3> QED
      BY <3>1, LenProperties
  <2>4. Has(p["automatics"], n)
    BY <1>2, <2>1, <2>3 DEF Has, Named
  <2>5. Has(p["routes"], n)
    BY <1>2, <1>9, <2>2 DEF Has, Named
  <2>6. PICK d \in D : <<"automatics", n>> \in Owns(call[d])
    BY <1>1, <2>4 DEF Founded, Owners
  <2>7. Flagged(p, n)
    BY <1>1, <2>5, <2>6 DEF Signalled
  <2>8. Has(t, n)
    BY <1>2, <2>5
  <2>9. At(t, n) \in 1 .. Len(t) /\ t[At(t, n)].name = n
    BY <1>9, <2>8, AtIs
  <2>10. At(t, n) = k
    BY <1>5, <2>2, <2>9
  <2>11. Held(p, "routes", n, "automatic") = t[k].automatic
    BY <1>2, <2>10 DEF Held, Entry
  <2> QED
    BY <2>2, <2>7, <2>11 DEF Flagged
<1>12. /\ \A i, j \in 1 .. Len(fa) : fa[i].name = fa[j].name => i = j
       /\ \A i, j \in 1 .. Len(fl) : fl[i].name = fl[j].name => i = j
  BY <1>4, <1>5
<1>13. \A i, j \in 1 .. Len(fr) : fr[i].name = fr[j].name => i = j
  BY <1>4, <1>10
<1>14. \A i \in 1 .. Len(fr) : \A j \in 1 .. Len(fa) : fr[i].name # fa[j].name
  BY <1>4, <1>11
<1> QED
  BY <1>3, <1>12, <1>13, <1>14 DEF FileOnce

-----------------------------------------------------------------------------
(* No term is lost.                                                        *)

\* The calls of an author as a program: in whatever order it makes them.
AsProgram(build) == [c \in build.calls |-> c]
MadeBy(build, left) == build.calls \ left
AskedFor(call, D) == UNION {TermsOf(call[c]) : c \in D}
AllStand(p, terms) == \A t \in terms : Stands(p, t)
AllMet(p, groups) == \A calls \in groups : \A c \in ToSet(calls) : Meets(p, c)
AskedOf(groups) == UNION {AskedBy(calls) : calls \in groups}

\* While the author configures, its plant and the plant that it saved hold what
\* it said so far; what a unit has started from stands in the unit.
Told ==
    /\ Typed
    /\ origin = "author" \/ file # <<>>
    /\ origin = "author" =>
         /\ Laid(plant, AsProgram(author), MadeBy(author, todo))
         /\ asked \subseteq AskedFor(AsProgram(author), MadeBy(author, todo))
    /\ file # <<>> => Laid(saved, AsProgram(author), MadeBy(author, todo))
    /\ origin # "reload" => AllStand(plant, asked)

\* The calls of an author are a program: each can be made, and none says what
\* another one said.
LEMMA AuthorProgram ==
    ASSUME NEW build \in Authors, NEW call, call = AsProgram(build)
    PROVE  /\ Program(call) /\ DOMAIN call = build.calls
           /\ \A c \in build.calls : call[c] = c
PROOF
<1>1. DOMAIN call = build.calls /\ \A c \in build.calls : call[c] = c
  BY DEF AsProgram
<1>2. IsFiniteSet(build.calls) /\ \A c \in build.calls : Callable(c)
  BY AuthorsAssumption, AuthorIs
<1>3. SaysOnce(call)
  BY OrderAssumption DEF AsProgram
<1> QED
  BY <1>1, <1>2, <1>3 DEF Program

\* That a term stands is that it is placed.
LEMMA StandsIs ==
    ASSUME NEW p, NEW t
    PROVE  Stands(p, t) <=> Placed(p, t.owners, t.owner, t.field, t.name)
  BY DEF Stands, Placed, Held, Terms

\* What a program asked for is what its calls are to be met in.
LEMMA MetStands ==
    ASSUME NEW p, NEW call, NEW D, Met(p, call, D), NEW terms, terms \subseteq AskedFor(call, D)
    PROVE  AllStand(p, terms)
PROOF
<1>1. ASSUME NEW t \in terms
      PROVE  Stands(p, t)
  <2>1. PICK d \in D : t \in TermsOf(call[d])
    BY DEF AskedFor
  <2>2. Meets(p, call[d])
    BY DEF Met
  <2> QED
    BY <2>1, <2>2, StandsIs DEF Meets
<1> QED
  BY <1>1 DEF AllStand

\* What the groups of a file ask for stands when their calls are met.
LEMMA GroupsStand ==
    ASSUME NEW p, NEW groups, AllMet(p, groups)
    PROVE  AllStand(p, AskedOf(groups))
PROOF
<1>1. ASSUME NEW t \in AskedOf(groups)
      PROVE  Stands(p, t)
  <2>1. PICK calls \in groups : t \in AskedBy(calls)
    BY DEF AskedOf
  <2>2. PICK c \in ToSet(calls) : t \in TermsOf(c)
    BY <2>1 DEF AskedBy
  <2>3. Meets(p, c)
    BY DEF AllMet
  <2> QED
    BY <2>2, <2>3, StandsIs DEF Meets
<1> QED
  BY <1>1 DEF AllStand

\* The owner that a call binds is there: the calls that declare it were made.
LEMMA OwnerDeclared ==
    ASSUME NEW call, Program(call), NEW D, D \subseteq DOMAIN call, NEW p, Laid(p, call, D),
           NEW i \in DOMAIN call \ D, NEW c, c = call[i], ~Declares(c) => Has(p[c.owners], c.owner),
           NEW j \in DOMAIN call \ (D \cup {i}), NEW o, NEW n, Binds(c, o, n)
    PROVE  <<o, n>> \notin Owns(call[j])
PROOF
<1>1. PICK k, e : k = c.owners /\ e = call[j]
  OBVIOUS
<1>2. ~Declares(c) /\ c.owner = n /\ Reaches(k, o)
  BY <1>1 DEF Binds, Declares
<1>3. Callable(c) /\ Callable(e)
  BY <1>1 DEF Program
<1>4. k \in Owners
  <2>1. k \in DOMAIN Bindings
    BY <1>1, <1>2, <1>3 DEF Callable, Declares
  <2> QED
    BY <2>1 DEF Bindings, Owners
<1>5. Has(p[k], n)
  BY <1>1, <1>2
<1>6. PICK d \in D : <<k, n>> \in Owns(call[d])
  BY <1>4, <1>5 DEF Laid, Founded
<1>7. <<o, n>> \in Owns(call[d])
  <2>1. CASE o = k
    BY <1>6, <2>1
  <2>2. CASE o = "routes" /\ k = "automatics"
    <3>1. PICK x : x = call[d]
      OBVIOUS
    <3>2. Callable(x) /\ <<"automatics", n>> \in Owns(x)
      BY <1>6, <2>2, <3>1 DEF Program
    <3>3. <<"routes", n>> \in Owns(x)
      BY <3>2, DeclaringIs, BindingIs
    <3> QED
      BY <2>2, <3>1, <3>3
  <2> QED
    BY <1>2, <2>1, <2>2 DEF Reaches
<1>8. d # j /\ d \in DOMAIN call
  OBVIOUS
<1> QED
  BY <1>7, <1>8, TwoCalls

\* An author that has made no call has an empty plant.
LEMMA ToldInit == Init => Told
PROOF
<1> SUFFICES ASSUME Init
             PROVE  Told
  OBVIOUS
<1>1. /\ author \in Authors /\ todo = author.calls /\ saved = plant /\ origin = "author"
      /\ plant = BlankPlant(author.slots, author.default)
  BY DEF Init
<1>2. IsPlant(plant) /\ Empty(plant)
  BY <1>1, AuthorIs, BlankIs
<1>3. Clean(plant)
  BY <1>2, EmptyLinked
<1>4. \A o \in Owners : Len(plant[o]) = 0
  BY <1>2 DEF Empty, Owners, OwnerTables
<1>5. MadeBy(author, todo) = {}
  BY <1>1 DEF MadeBy
<1>6. PICK call, D : call = AsProgram(author) /\ D = MadeBy(author, todo)
  OBVIOUS
<1>7. Laid(plant, call, D)
  BY <1>2, <1>3, <1>4, <1>5, <1>6, LaidFirst
<1>8. asked = {}
  BY DEF Init
<1>9. asked \subseteq AskedFor(call, D) /\ AllStand(plant, asked)
  BY <1>8 DEF AllStand
<1>10. Typed
  BY TypedInit
<1> QED
  BY <1>1, <1>6, <1>7, <1>9, <1>10 DEF Told

\* One more call of the author: its terms stand, and those before it still do.
LEMMA ConfigureTold ==
    ASSUME Told, Configure
    PROVE  Told'
PROOF
<1>1. /\ Typed /\ Typed' /\ origin = "author" /\ file = <<>>
      /\ author' = author /\ file' = file /\ saved' = saved /\ origin' = origin
  BY TypedStep DEF Told, Configure, Next
<1>2. PICK call, D : call = AsProgram(author) /\ D = MadeBy(author, todo)
  OBVIOUS
<1>3. Laid(plant, call, D) /\ asked \subseteq AskedFor(call, D)
  BY <1>1, <1>2 DEF Told
<1>4. PICK c \in todo : /\ ~Declares(c) => Has(plant[c.owners], c.owner)
                        /\ todo' = todo \ {c}
                        /\ plant' = Configured(plant, c)
                        /\ asked' = asked \cup TermsOf(c)
  BY DEF Configure, Declares
<1>5. author \in Authors /\ todo \subseteq author.calls /\ c \in author.calls
  BY <1>1, <1>4 DEF Typed
<1>6. Program(call) /\ DOMAIN call = author.calls /\ call[c] = c
  BY <1>2, <1>5, AuthorProgram
<1>7. /\ D \subseteq DOMAIN call /\ c \in DOMAIN call \ D
      /\ MadeBy(author', todo') = D \cup {c} /\ AsProgram(author') = call
  BY <1>1, <1>2, <1>4, <1>5, <1>6 DEF MadeBy
<1>8. ASSUME NEW j \in DOMAIN call \ (D \cup {c}), NEW o, NEW n, Binds(call[c], o, n)
      PROVE  <<o, n>> \notin Owns(call[j])
  BY <1>3, <1>4, <1>6, <1>7, <1>8, OwnerDeclared
<1>9. ASSUME NEW o, NEW n, Binds(call[c], o, n), ~Has(plant[call[c].owners], n)
      PROVE  FALSE
  BY <1>4, <1>6, <1>9 DEF Binds, Declares
<1>10. Step(plant, call, D, c, plant')
  BY <1>3, <1>4, <1>6, <1>7, <1>8, <1>9 DEF Step
<1>11. Laid(plant', call, D \cup {c})
  BY <1>10, LaidStep
<1>12. asked' \subseteq AskedFor(call, D \cup {c})
  BY <1>3, <1>4, <1>6 DEF AskedFor
<1>13. AllStand(plant', asked')
  BY <1>11, <1>12, MetStands DEF Laid
<1> QED
  BY <1>1, <1>7, <1>11, <1>12, <1>13 DEF Told

\* Saving the plant: what was saved is what was configured.
LEMMA SerializeTold ==
    ASSUME Told, Serialize
    PROVE  Told'
PROOF
<1>1. /\ Typed /\ Typed' /\ file = <<>> /\ saved' = plant
      /\ author' = author /\ todo' = todo /\ plant' = plant /\ asked' = asked /\ origin' = origin
  BY TypedStep DEF Told, Serialize, Next
<1>2. origin = "author"
  BY <1>1 DEF Told
<1> QED
  BY <1>1, <1>2 DEF Told

\* A unit that starts from the file: everything that the file says stands.
LEMMA BootTold ==
    ASSUME Told, Boot
    PROVE  Told'
PROOF
<1>1. /\ Typed /\ Typed' /\ file # <<>> /\ origin' = "boot"
      /\ author' = author /\ todo' = todo /\ file' = file /\ saved' = saved
      /\ plant' = Deserialized(BlankPlant(author.slots, LibraryDefault), file)
      /\ asked' = AskedOf(ToSet(CallsOf(file)))
  BY TypedStep DEF Told, Boot, Loaded, Next, AskedOf
<1>2. PICK call, D, p, f, q : /\ call = AsProgram(author) /\ D = MadeBy(author, todo)
                              /\ p = BlankPlant(author.slots, LibraryDefault)
                              /\ f = file /\ q = plant'
  OBVIOUS
<1>3. Laid(saved, call, D)
  BY <1>1, <1>2 DEF Told
<1>4. f = Serialized(saved) /\ IsFile(f)
  BY <1>1, <1>2, FileTyped DEF Typed
<1>5. FileOnce(f)
  BY <1>3, <1>4, LaidFileOnce
<1>6. author \in Authors
  BY <1>1 DEF Typed
<1>7. IsPlant(p) /\ Empty(p)
  BY <1>2, <1>6, AuthorIs, BlankIs
<1>8. q = Deserialized(p, f)
  BY <1>1, <1>2
<1>9. \A calls \in ToSet(CallsOf(f)) : \A c \in ToSet(calls) : Meets(q, c)
  BY <1>4, <1>5, <1>7, <1>8, FileLaid
<1>10. AllStand(q, AskedOf(ToSet(CallsOf(f))))
  BY <1>9, GroupsStand DEF AllMet
<1>11. AllStand(plant', asked')
  BY <1>1, <1>2, <1>10
<1> QED
  BY <1>1, <1>2, <1>3, <1>11 DEF Told

\* Every step keeps it.
LEMMA ToldStep == Told /\ [Next]_vars => Told'
PROOF
<1> SUFFICES ASSUME Told, [Next]_vars
             PROVE  Told'
  OBVIOUS
<1>1. CASE Configure
  BY <1>1, ConfigureTold
<1>2. CASE Serialize
  BY <1>2, SerializeTold
<1>3. CASE Boot
  BY <1>3, BootTold
<1>4. CASE Reload
  <2>1. /\ Typed' /\ file # <<>> /\ origin' = "reload"
        /\ author' = author /\ todo' = todo /\ file' = file /\ saved' = saved
    BY <1>4, TypedStep DEF Told, Reload, Loaded, Next
  <2> QED
    BY <2>1 DEF Told
<1>5. CASE UNCHANGED vars
  <2>1. Typed'
    BY TypedStep DEF Told
  <2> QED
    BY <1>5, <2>1 DEF vars, Told
<1>6. CASE Undefined
  BY <1>5, <1>6 DEF Undefined
<1> QED
  BY <1>1, <1>2, <1>3, <1>4, <1>5, <1>6 DEF Next

\* Whatever an author asks for, in whatever order, and whatever the file names
\* that a unit starts from: a term that was asked for is among the terms of its
\* owner, or reads released for want of a slot, or its owner stays at Stop.  No
\* name without a source makes an equation shorter (resolveFact(), noteMissing()
\* and markIncomplete(), and the order of the calls in deserialize()).
THEOREM NothingLost == Spec => []NoTermLost
PROOF
<1>1. Spec => []Told
  BY ToldInit, ToldStep, PTL DEF Spec
<1>2. Told => NoTermLost
  BY DEF Told, AllStand, NoTermLost
<1> QED
  BY <1>1, <1>2, PTL
=============================================================================
