-------------------------- MODULE WireCodec_proofs --------------------------
(***************************************************************************)
(* What the codecs guarantee whatever the schema is: no part of a control  *)
(* text or of a frame is taken for the whole, with the one exception of a  *)
(* lost last parenthesis; a decoded transaction asserts what was heard,    *)
(* whatever numbers the two ends give the appliances; a frame is unpacked  *)
(* as it was packed; and either way an indication tells the state of every *)
(* appliance that it names.                                                *)
(*                                                                         *)
(* Facts about sequences put together one by one (FlattenSeq, StartBit) are *)
(* shown by the least number at which they would fail.                     *)
(***************************************************************************)
EXTENDS WireCodec, FiniteSetTheorems, SequenceTheorems, WellFoundedInduction, TLAPS

-----------------------------------------------------------------------------
(* Sequences of sequences, one after the other.                            *)

\* A set of numbers that is not empty has a least one.
LEMMA LeastNumber ==
    ASSUME NEW T, T \subseteq Nat, T # {}
    PROVE  \E x \in T : \A y \in T : x <= y
PROOF
<1>1. PICK x \in T : \A y \in T : ~ (<<y, x>> \in OpToRel(<, Nat))
  BY NatLessThanWellFounded, WFMin
<1>2. \A y \in T : ~ (y < x)
  BY <1>1, Zenon DEF OpToRel
<1> QED
  BY <1>2

\* g flattens the first n of the sequences q, step by step.
Flattens(g, q, n) ==
    g = [i \in 1 .. n |-> IF i = 1 THEN q[i] ELSE g[i - 1] \o q[i]]

\* The recursion of FlattenSeq has a solution.
LEMMA FlattensExists ==
    ASSUME NEW q, NEW n \in Nat \ {0}
    PROVE  \E g : Flattens(g, q, n)
PROOF
<1> DEFINE T == {m \in Nat \ {0} : ~ \E g : Flattens(g, q, m)}
<1>1. SUFFICES ASSUME T # {}
               PROVE  FALSE
  OBVIOUS
<1>2. PICK m \in T : \A k \in T : m <= k
  BY <1>1, LeastNumber
<1>3. CASE m = 1
  <2> DEFINE g == [i \in 1 .. 1 |-> q[i]]
  <2>1. Flattens(g, q, 1)
    BY DEF Flattens
  <2> QED
    BY <1>2, <1>3, <2>1
<1>4. CASE m # 1
  <2>1. m - 1 \in Nat \ {0} /\ m - 1 \notin T
    BY <1>2, <1>4
  <2>2. PICK h : Flattens(h, q, m - 1)
    BY <2>1
  <2> DEFINE g == [i \in 1 .. m |-> IF i = 1 THEN q[i] ELSE h[i - 1] \o q[i]]
  <2>3. ASSUME NEW i \in 1 .. m - 1
        PROVE  g[i] = h[i]
    <3>1. h[i] = IF i = 1 THEN q[i] ELSE h[i - 1] \o q[i]
      BY <2>2 DEF Flattens
    <3>2. i \in 1 .. m
      BY <2>1
    <3> QED
      BY <3>1, <3>2
  <2>4. ASSUME NEW i \in 1 .. m, i # 1
        PROVE  h[i - 1] = g[i - 1]
    <3>1. i - 1 \in 1 .. m - 1
      BY <2>1, <2>4
    <3> QED
      BY <2>3, <3>1
  <2>5. \A i \in 1 .. m : g[i] = IF i = 1 THEN q[i] ELSE g[i - 1] \o q[i]
    BY <2>4
  <2>6. g = [i \in 1 .. m |-> g[i]]
    OBVIOUS
  <2> HIDE DEF g
  <2>7. Flattens(g, q, m)
    BY <2>5, <2>6 DEF Flattens
  <2> QED
    BY <1>2, <2>7
<1> QED
  BY <1>3, <1>4

\* FlattenSeq is such a function, at the last of the sequences.
LEMMA FlattenIs ==
    ASSUME NEW q, Len(q) \in Nat \ {0}
    PROVE  \E g : Flattens(g, q, Len(q)) /\ FlattenSeq(q) = g[Len(q)]
PROOF
<1> DEFINE F == CHOOSE g : Flattens(g, q, Len(q))
<1>1. Flattens(F, q, Len(q))
  BY FlattensExists
<1>2. FlattenSeq(q) = F[Len(q)]
  BY DEF FlattenSeq, Flattens
<1> QED
  BY <1>1, <1>2

\* A function on the first n numbers is a sequence of what it takes.
LEMMA MadeSeq ==
    ASSUME NEW f, NEW n \in Nat, NEW X, f = [i \in 1 .. n |-> f[i]],
           \A i \in 1 .. n : f[i] \in X
    PROVE  f \in Seq(X) /\ Len(f) = n
  BY IsASeq

\* Two sequences, one after the other, hold the elements of both.
LEMMA ConcatElements ==
    ASSUME NEW X, NEW s \in Seq(X), NEW t \in Seq(X)
    PROVE  s \o t \in Seq(X) /\ Range(s \o t) = Range(s) \cup Range(t)
PROOF
<1> DEFINE c == s \o t
<1>1. /\ Len(s) \in Nat /\ DOMAIN s = 1 .. Len(s)
      /\ Len(t) \in Nat /\ DOMAIN t = 1 .. Len(t)
  BY LenProperties
<1>2. /\ c \in Seq(X) /\ Len(c) = Len(s) + Len(t) /\ DOMAIN c = 1 .. Len(c)
      /\ \A i \in 1 .. Len(s) + Len(t) : c[i] = IF i <= Len(s) THEN s[i] ELSE t[i - Len(s)]
  BY ConcatProperties, LenProperties
<1> HIDE DEF c
<1>3. ASSUME NEW n \in DOMAIN c
      PROVE  c[n] \in Range(s) \cup Range(t)
  <2>1. CASE n <= Len(s)
    BY <1>1, <1>2, <2>1 DEF Range
  <2>2. CASE n > Len(s)
    <3>1. n - Len(s) \in DOMAIN t /\ c[n] = t[n - Len(s)]
      BY <1>1, <1>2, <2>2
    <3> QED
      BY <3>1 DEF Range
  <2> QED
    BY <1>1, <1>2, <2>1, <2>2
<1>4. ASSUME NEW n \in DOMAIN s
      PROVE  s[n] \in Range(c)
  <2>1. n \in DOMAIN c /\ c[n] = s[n]
    BY <1>1, <1>2
  <2> QED
    BY <2>1 DEF Range
<1>5. ASSUME NEW n \in DOMAIN t
      PROVE  t[n] \in Range(c)
  <2>1. Len(s) + n \in DOMAIN c /\ c[Len(s) + n] = t[n]
    BY <1>1, <1>2
  <2> QED
    BY <2>1 DEF Range
<1>6. Range(c) = Range(s) \cup Range(t)
  BY <1>3, <1>4, <1>5 DEF Range
<1> QED
  BY <1>2, <1>6 DEF c

\* Flattening keeps the elements of the sequences, and adds none.
LEMMA FlattenElements ==
    ASSUME NEW X, NEW q \in Seq(Seq(X))
    PROVE  /\ FlattenSeq(q) \in Seq(X)
           /\ Range(FlattenSeq(q)) = UNION {Range(q[i]) : i \in DOMAIN q}
PROOF
<1>1. /\ Len(q) \in Nat /\ DOMAIN q = 1 .. Len(q)
      /\ \A i \in 1 .. Len(q) : q[i] \in Seq(X)
  BY LenProperties, ElementOfSeq
<1>2. CASE Len(q) = 0
  <2>1. q = <<>> /\ FlattenSeq(q) = <<>> /\ DOMAIN q = {}
    BY <1>1, <1>2, EmptySeq DEF FlattenSeq
  <2>2. Range(<<>>) = {} /\ <<>> \in Seq(X)
    BY EmptySeq DEF Range
  <2>3. UNION {Range(q[i]) : i \in DOMAIN q} = {}
    BY <2>1
  <2> QED
    BY <2>1, <2>2, <2>3
<1>3. CASE Len(q) # 0
  <2>1. PICK g : Flattens(g, q, Len(q)) /\ FlattenSeq(q) = g[Len(q)]
    BY <1>1, <1>3, FlattenIs
  <2> DEFINE upto(m) == UNION {Range(q[i]) : i \in 1 .. m}
             Good(m) == g[m] \in Seq(X) /\ Range(g[m]) = upto(m)
             T == {m \in 1 .. Len(q) : ~Good(m)}
  <2>2. upto(1) = Range(q[1])
    <3>1. 1 .. 1 = {1}
      OBVIOUS
    <3> QED
      BY <3>1
  <2>3. ASSUME NEW m \in 1 .. Len(q), m # 1
        PROVE  upto(m) = upto(m - 1) \cup Range(q[m])
    <3>1. 1 .. m = (1 .. m - 1) \cup {m}
      BY <1>1, <2>3
    <3> QED
      BY <3>1
  <2> HIDE DEF upto
  <2>4. Good(1)
    <3>1. g[1] = q[1] /\ q[1] \in Seq(X)
      BY <1>1, <1>3, <2>1 DEF Flattens
    <3> QED
      BY <2>2, <3>1
  <2>5. ASSUME NEW m \in 1 .. Len(q), m # 1, Good(m - 1)
        PROVE  Good(m)
    <3>1. g[m] = g[m - 1] \o q[m] /\ q[m] \in Seq(X)
      BY <1>1, <2>1, <2>5 DEF Flattens
    <3>2. g[m] \in Seq(X) /\ Range(g[m]) = Range(g[m - 1]) \cup Range(q[m])
      BY <2>5, <3>1, ConcatElements
    <3> QED
      BY <2>3, <2>5, <3>2
  <2> HIDE DEF Good
  <2>6. T = {}
    <3> SUFFICES ASSUME T # {}
                 PROVE  FALSE
      OBVIOUS
    <3>1. T \subseteq Nat
      BY <1>1
    <3>2. PICK m \in T : \A k \in T : m <= k
      BY <3>1, LeastNumber
    <3>3. m \in 1 .. Len(q) /\ m # 1 /\ ~Good(m)
      BY <2>4, <3>2
    <3>4. m - 1 \in 1 .. Len(q) /\ m - 1 \notin T
      BY <1>1, <3>2, <3>3
    <3> QED
      BY <2>5, <3>3, <3>4
  <2>7. Good(Len(q))
    BY <1>1, <1>3, <2>6
  <2>8. upto(Len(q)) = UNION {Range(q[i]) : i \in DOMAIN q}
    BY <1>1 DEF upto
  <2> QED
    BY <2>1, <2>7, <2>8 DEF Good
<1> QED
  BY <1>1, <1>2, <1>3

\* A sequence cut short, and what is put behind the cut.
LEMMA CutAt ==
    ASSUME NEW X, NEW s \in Seq(X), NEW n \in 0 .. Len(s), NEW x \in X
    PROVE  /\ DOMAIN SubSeq(s, 1, n) = 1 .. n
           /\ \A i \in 1 .. n : SubSeq(s, 1, n)[i] = s[i]
           /\ DOMAIN Append(SubSeq(s, 1, n), x) = 1 .. n + 1
           /\ \A i \in 1 .. n : Append(SubSeq(s, 1, n), x)[i] = s[i]
           /\ Append(SubSeq(s, 1, n), x)[n + 1] = x
PROOF
<1>1. Len(s) \in Nat /\ n \in Nat /\ \A i \in 1 .. n : s[i] \in X
  BY LenProperties, ElementOfSeq
<1>2. PICK c : c = SubSeq(s, 1, n)
  OBVIOUS
<1>3. c \in Seq(X) /\ Len(c) = n /\ \A i \in 1 .. n : c[i] = s[i]
  BY <1>1, <1>2, SubSeqProperties
<1>4. DOMAIN c = 1 .. n
  BY <1>3, LenProperties
<1>5. /\ Append(c, x) \in Seq(X) /\ Len(Append(c, x)) = n + 1
      /\ \A i \in 1 .. n : Append(c, x)[i] = c[i]
      /\ Append(c, x)[n + 1] = x
  BY <1>1, <1>3, AppendProperties
<1>6. DOMAIN Append(c, x) = 1 .. n + 1
  BY <1>5, LenProperties
<1> QED
  BY <1>2, <1>3, <1>4, <1>5, <1>6

-----------------------------------------------------------------------------
(* The functions of a schema.                                              *)

RolesOf(schema, roles, i) == Range(roles[schema[i].type])

\* The wire carries every function of every entry, and no others.
LEMMA TermsElements ==
    ASSUME NEW schema, NEW roles, IsSchema(schema, roles)
    PROVE  LET terms == Terms(schema, roles)
           IN /\ Len(terms) \in Nat /\ DOMAIN terms = 1 .. Len(terms)
              /\ \A n \in DOMAIN terms :
                    /\ terms[n].entry \in DOMAIN schema
                    /\ terms[n].role \in RolesOf(schema, roles, terms[n].entry)
              /\ \A i \in DOMAIN schema : \A r \in RolesOf(schema, roles, i) :
                    \E n \in DOMAIN terms : terms[n].entry = i /\ terms[n].role = r
PROOF
<1> DEFINE run(i) == [k \in DOMAIN roles[schema[i].type] |->
                         [entry |-> i, role |-> roles[schema[i].type][k]]]
           q == [i \in DOMAIN schema |-> run(i)]
           X == [entry : DOMAIN schema, role : STRING]
<1>1. PICK terms : terms = Terms(schema, roles)
  OBVIOUS
<1>2. terms = FlattenSeq(q)
  BY <1>1 DEF Terms
<1>3. \A i \in DOMAIN schema : run(i) \in Seq(X)
  <2> TAKE i \in DOMAIN schema
  <2>1. PICK names \in Seq(STRING) : names = roles[schema[i].type]
    BY DEF IsSchema
  <2>2. Len(names) \in Nat /\ DOMAIN names = 1 .. Len(names)
        /\ \A k \in 1 .. Len(names) : names[k] \in STRING
    BY LenProperties, ElementOfSeq
  <2>3. run(i) = [k \in 1 .. Len(names) |-> [entry |-> i, role |-> names[k]]]
    BY <2>1, <2>2
  <2>4. \A k \in 1 .. Len(names) : [entry |-> i, role |-> names[k]] \in X
    BY <2>2
  <2>5. PICK r : r = run(i)
    OBVIOUS
  <2>6. r = [k \in 1 .. Len(names) |-> r[k]] /\ \A k \in 1 .. Len(names) : r[k] \in X
    BY <2>3, <2>4, <2>5
  <2>7. r \in Seq(X)
    BY <2>2, <2>6, MadeSeq
  <2> QED
    BY <2>5, <2>7
<1>4. \A i \in DOMAIN schema : \A y :
          y \in Range(run(i))
              <=> \E r \in RolesOf(schema, roles, i) : y = [entry |-> i, role |-> r]
  BY DEF Range, RolesOf
<1> HIDE DEF run
<1>5. q \in Seq(Seq(X))
  <2>1. Len(schema) \in Nat /\ DOMAIN schema = 1 .. Len(schema)
    BY DEF IsSchema
  <2>2. q = [i \in 1 .. Len(schema) |-> q[i]] /\ \A i \in 1 .. Len(schema) : q[i] \in Seq(X)
    BY <1>3, <2>1
  <2> HIDE DEF q
  <2>3. PICK runs : runs = Seq(X)
    OBVIOUS
  <2>4. PICK n \in Nat : n = Len(schema)
    BY <2>1
  <2>5. q \in Seq(runs)
    BY <2>2, <2>3, <2>4, MadeSeq
  <2> QED
    BY <2>3, <2>5
<1>6. DOMAIN q = DOMAIN schema /\ \A i \in DOMAIN schema : q[i] = run(i)
  OBVIOUS
<1> HIDE DEF q
<1>7. terms \in Seq(X) /\ Range(terms) = UNION {Range(q[i]) : i \in DOMAIN q}
  BY <1>2, <1>5, FlattenElements
<1>8. Len(terms) \in Nat /\ DOMAIN terms = 1 .. Len(terms)
  BY <1>7, LenProperties
<1>9. ASSUME NEW n \in DOMAIN terms
      PROVE  /\ terms[n].entry \in DOMAIN schema
             /\ terms[n].role \in RolesOf(schema, roles, terms[n].entry)
  <2>1. terms[n] \in Range(terms)
    BY DEF Range
  <2>2. PICK i \in DOMAIN schema : terms[n] \in Range(run(i))
    BY <1>6, <1>7, <2>1
  <2>3. PICK r \in RolesOf(schema, roles, i) : terms[n] = [entry |-> i, role |-> r]
    BY <1>4, <2>2
  <2> QED
    BY <2>3
<1>10. ASSUME NEW i \in DOMAIN schema, NEW r \in RolesOf(schema, roles, i)
       PROVE  \E n \in DOMAIN terms : terms[n].entry = i /\ terms[n].role = r
  <2>1. [entry |-> i, role |-> r] \in Range(run(i))
    BY <1>4
  <2>2. [entry |-> i, role |-> r] \in Range(terms)
    BY <1>6, <1>7, <2>1
  <2>3. PICK n \in DOMAIN terms : terms[n] = [entry |-> i, role |-> r]
    BY <2>2 DEF Range
  <2> QED
    BY <2>3
<1> QED
  BY <1>1, <1>8, <1>9, <1>10

\* Both ends of a line that declare the same put the same functions on the wire.
LEMMA SameTerms ==
    ASSUME NEW a, NEW b, NEW roles, SameWire(a, b)
    PROVE  Terms(a, roles) = Terms(b, roles)
  BY DEF SameWire, Terms

-----------------------------------------------------------------------------
(* What is left of a text whose end is lost.                               *)

\* The last function of a schema, which a text may seem to assert when it has
\* lost no more than its last parenthesis.
LastOf(schema, roles) == Terms(schema, roles)[Len(Terms(schema, roles))]

\* Per entry, some of its functions.
OfSchema(schema, roles, asserted) ==
    \A i \in DOMAIN schema : \A r \in asserted[i] : r \in RolesOf(schema, roles, i)

\* The text asserts these functions and no others.
Asserts(schema, roles, text, asserted) ==
    \A i \in DOMAIN schema : HeardRoles(schema, roles, text, i) = asserted[i]

\* It asserts these and the last function of the schema, which was not among them.
AssertsLastToo(schema, roles, text, asserted) ==
    LET last == LastOf(schema, roles) IN
    /\ last.entry \in DOMAIN schema /\ last.role \in RolesOf(schema, roles, last.entry)
    /\ last.role \notin asserted[last.entry]
    /\ \A i \in DOMAIN schema :
          HeardRoles(schema, roles, text, i) =
              asserted[i] \cup (IF i = last.entry THEN {last.role} ELSE {})

\* A text that is accepted has every token of the schema in its place.
LEMMA AcceptedInStep ==
    ASSUME NEW schema, NEW roles, IsSchema(schema, roles), NEW suffix, NEW text,
           Accepted(schema, roles, suffix, text)
    PROVE  /\ \A n \in DOMAIN Terms(schema, roles) : InStep(schema, roles, suffix, text, n)
           /\ \A i \in DOMAIN schema :
                 /\ Consistent(schema[i].type, HeardRoles(schema, roles, text, i))
                 /\ Decoded(schema, roles, suffix, text, i)
PROOF
<1>1. PICK terms : terms = Terms(schema, roles)
  OBVIOUS
<1>2. /\ Len(schema) \in Nat /\ DOMAIN schema = 1 .. Len(schema)
      /\ \A n \in DOMAIN terms : terms[n].entry \in DOMAIN schema
  BY <1>1, TermsElements DEF IsSchema
<1>3. CASE schema = <<>>
  BY <1>1, <1>2, <1>3
<1>4. CASE schema # <<>>
  <2>1. /\ \A n \in DOMAIN terms : terms[n].entry <= Len(schema)
                                       => InStep(schema, roles, suffix, text, n)
        /\ \A j \in 1 .. Len(schema) :
              Consistent(schema[j].type, HeardRoles(schema, roles, text, j))
    BY <1>1, <1>4 DEF Accepted, Decoded
  <2>2. \A n \in DOMAIN terms : InStep(schema, roles, suffix, text, n)
    BY <1>2, <2>1
  <2>3. ASSUME NEW i \in DOMAIN schema
        PROVE  Decoded(schema, roles, suffix, text, i)
    <3>1. \A j \in 1 .. i : Consistent(schema[j].type, HeardRoles(schema, roles, text, j))
      BY <1>2, <2>1
    <3> QED
      BY <1>1, <2>2, <3>1 DEF Decoded
  <2> QED
    BY <1>1, <1>2, <2>1, <2>2, <2>3
<1> QED
  BY <1>3, <1>4

\* A text that is whole asserts what was written.
LEMMA WholeAsserts ==
    ASSUME NEW written, NEW schema, NEW roles, SameWire(written, schema),
           IsSchema(schema, roles), NEW suffix,
           NEW asserted, OfSchema(schema, roles, asserted),
           NEW text, text = WriteTokens(written, roles, suffix, asserted)
    PROVE  Asserts(schema, roles, text, asserted)
PROOF
<1>1. PICK terms : terms = Terms(schema, roles)
  OBVIOUS
<1>2. /\ Len(terms) \in Nat /\ DOMAIN terms = 1 .. Len(terms)
      /\ \A n \in DOMAIN terms :
            /\ terms[n].entry \in DOMAIN schema
            /\ terms[n].role \in RolesOf(schema, roles, terms[n].entry)
      /\ \A i \in DOMAIN schema : \A r \in RolesOf(schema, roles, i) :
            \E n \in DOMAIN terms : terms[n].entry = i /\ terms[n].role = r
  BY <1>1, TermsElements
<1>3. PICK N \in Nat : N = Len(terms) /\ DOMAIN terms = 1 .. N
  BY <1>2
<1>4. Terms(written, roles) = terms
  BY <1>1, SameTerms
<1> DEFINE form(n) == IF terms[n].role \in asserted[terms[n].entry] THEN "plain" ELSE "dropped"
           token(n) == Token(written[terms[n].entry], terms[n].role, suffix, form(n))
<1>5. text = [n \in 1 .. N |-> token(n)]
  BY <1>2, <1>3, <1>4 DEF WriteTokens
<1>6. DOMAIN text = 1 .. N /\ \A n \in 1 .. N : text[n].form = form(n)
  BY <1>5 DEF Token
<1>7. ASSUME NEW i \in DOMAIN schema
      PROVE  HeardRoles(schema, roles, text, i) = asserted[i]
  <2>1. ASSUME NEW n \in 1 .. N, terms[n].entry = i, text[n].form # "dropped"
        PROVE  terms[n].role \in asserted[i]
    BY <1>6, <2>1
  <2>2. ASSUME NEW r \in asserted[i]
        PROVE  \E n \in 1 .. N : terms[n].entry = i /\ terms[n].role = r
                                 /\ text[n].form # "dropped"
    <3>1. PICK n \in 1 .. N : terms[n].entry = i /\ terms[n].role = r
      BY <1>2, <1>3 DEF OfSchema
    <3>2. text[n].form = "plain"
      BY <1>6, <3>1
    <3> QED
      BY <3>1, <3>2
  <2>3. DOMAIN terms \cap DOMAIN text = 1 .. N
    BY <1>2, <1>3, <1>6
  <2>4. HeardRoles(schema, roles, text, i) =
            {terms[n].role : n \in {m \in 1 .. N : terms[m].entry = i
                                                   /\ text[m].form # "dropped"}}
    BY <1>1, <2>3 DEF HeardRoles
  <2> HIDE DEF form
  <2>5. \A r : r \in HeardRoles(schema, roles, text, i) <=> r \in asserted[i]
    BY <2>1, <2>2, <2>4
  <2> QED
    BY <2>5
<1> QED
  BY <1>7 DEF Asserts

\* A text that is whole is accepted, when no entry of it asserts two functions
\* that exclude each other.
LEMMA WholeAccepted ==
    ASSUME NEW written, NEW schema, NEW roles, SameWire(written, schema),
           IsSchema(schema, roles), NEW suffix,
           NEW asserted, OfSchema(schema, roles, asserted),
           \A i \in DOMAIN schema : Consistent(schema[i].type, asserted[i]),
           NEW text, text = WriteTokens(written, roles, suffix, asserted)
    PROVE  Accepted(schema, roles, suffix, text)
PROOF
<1>1. PICK terms : terms = Terms(schema, roles)
  OBVIOUS
<1>2. /\ Len(terms) \in Nat /\ DOMAIN terms = 1 .. Len(terms)
      /\ \A n \in DOMAIN terms : terms[n].entry \in DOMAIN schema
  BY <1>1, TermsElements
<1>3. Terms(written, roles) = terms
  BY <1>1, SameTerms
<1> DEFINE form(n) == IF terms[n].role \in asserted[terms[n].entry] THEN "plain" ELSE "dropped"
           token(n) == Token(written[terms[n].entry], terms[n].role, suffix, form(n))
<1>4. text = [n \in DOMAIN terms |-> token(n)]
  BY <1>3 DEF WriteTokens
<1> HIDE DEF form
<1>5. ASSUME NEW n \in DOMAIN terms
      PROVE  InStep(schema, roles, suffix, text, n)
  <2>1. text[n].fn = <<written[terms[n].entry].name, terms[n].role, suffix>>
    BY <1>4 DEF Token
  <2>2. written[terms[n].entry].name = schema[terms[n].entry].name
    BY <1>2 DEF SameWire
  <2> QED
    BY <1>1, <1>4, <2>1, <2>2 DEF InStep
<1> HIDE DEF token
<1>6. Asserts(schema, roles, text, asserted)
  BY WholeAsserts
<1>7. Decoded(schema, roles, suffix, text, Len(schema))
  <2>1. \A j \in 1 .. Len(schema) :
            Consistent(schema[j].type, HeardRoles(schema, roles, text, j))
    BY <1>6 DEF Asserts, IsSchema
  <2> QED
    BY <1>1, <1>5, <2>1 DEF Decoded
<1>8. ~Trailing(schema, roles, suffix, text)
  <2>1. Len(terms) + 1 \notin DOMAIN text
    BY <1>2, <1>4
  <2> QED
    BY <1>1, <2>1 DEF Trailing
<1> QED
  BY <1>7, <1>8 DEF Accepted

\* The text codec never takes a part of a text for the whole: what is left of a
\* text that was cut anywhere is refused, or it asserts what was written, or in
\* addition the last function of the schema, whose parenthesis is lost.
THEOREM CutTexts ==
    ASSUME NEW written, NEW schema, NEW roles, SameWire(written, schema),
           IsSchema(schema, roles), NEW suffix \in {"S", "K"},
           NEW asserted, OfSchema(schema, roles, asserted),
           NEW whole, whole = WriteTokens(written, roles, suffix, asserted),
           NEW text \in {whole} \cup CutShort(whole),
           Accepted(schema, roles, suffix, text)
    PROVE  \/ Asserts(schema, roles, text, asserted)
           \/ AssertsLastToo(schema, roles, text, asserted)
PROOF
<1>1. PICK terms : terms = Terms(schema, roles)
  OBVIOUS
<1>2. /\ Len(terms) \in Nat /\ DOMAIN terms = 1 .. Len(terms)
      /\ \A n \in DOMAIN terms :
            /\ terms[n].entry \in DOMAIN schema
            /\ terms[n].role \in RolesOf(schema, roles, terms[n].entry)
      /\ \A i \in DOMAIN schema : \A r \in RolesOf(schema, roles, i) :
            \E n \in DOMAIN terms : terms[n].entry = i /\ terms[n].role = r
  BY <1>1, TermsElements
<1>3. PICK N \in Nat : N = Len(terms) /\ DOMAIN terms = 1 .. N
  BY <1>2
<1>4. Terms(written, roles) = terms
  BY <1>1, SameTerms
<1> DEFINE form(n) == IF terms[n].role \in asserted[terms[n].entry] THEN "plain" ELSE "dropped"
           token(n) == Token(written[terms[n].entry], terms[n].role, suffix, form(n))
<1>5. whole = [n \in 1 .. N |-> token(n)]
  BY <1>2, <1>3, <1>4 DEF WriteTokens
<1>6. DOMAIN whole = 1 .. N /\ \A n \in 1 .. N : whole[n].form = form(n)
  BY <1>5 DEF Token
<1> HIDE DEF token
<1>7. PICK X : whole \in Seq(X) /\ Len(whole) = N /\ Junk \in X
               /\ \A n \in 1 .. N : [whole[n] EXCEPT !.form = "open"] \in X
  <2> DEFINE X == {whole[n] : n \in 1 .. N} \cup {Junk}
                  \cup {[whole[n] EXCEPT !.form = "open"] : n \in 1 .. N}
  <2>1. whole = [n \in 1 .. N |-> whole[n]] /\ \A n \in 1 .. N : whole[n] \in X
    BY <1>5
  <2>2. whole \in Seq(X) /\ Len(whole) = N
    BY <2>1, MadeSeq
  <2>3. Junk \in X /\ \A n \in 1 .. N : [whole[n] EXCEPT !.form = "open"] \in X
    OBVIOUS
  <2> HIDE DEF X
  <2> QED
    BY <2>2, <2>3
<1>8. \A n \in 1 .. N : n \in DOMAIN text /\ text[n].fn[3] = suffix
  <2>1. \A n \in 1 .. N : InStep(schema, roles, suffix, text, n)
    BY <1>1, <1>2, <1>3, AcceptedInStep
  <2> QED
    BY <2>1 DEF InStep
<1>9. \A i : HeardRoles(schema, roles, text, i) =
          {terms[n].role : n \in {m \in DOMAIN terms \cap DOMAIN text :
                                      terms[m].entry = i /\ text[m].form # "dropped"}}
  BY <1>1 DEF HeardRoles
<1>10. CASE text = whole
  BY <1>10, WholeAsserts
<1>11. ASSUME NEW n \in 0 .. N - 1, text = SubSeq(whole, 1, n)
       PROVE  FALSE
  <2>1. DOMAIN text = 1 .. n
    BY <1>7, <1>11, CutAt
  <2> QED
    BY <1>8, <2>1
<1>12. ASSUME NEW n \in 0 .. N - 1, text = Append(SubSeq(whole, 1, n), Junk)
       PROVE  FALSE
  <2>1. text[n + 1] = Junk /\ n + 1 \in 1 .. N
    BY <1>7, <1>12, CutAt
  <2> QED
    BY <1>8, <2>1 DEF Junk
<1>13. ASSUME NEW n \in 1 .. N, whole[n].form = "dropped",
              text = Append(SubSeq(whole, 1, n - 1), [whole[n] EXCEPT !.form = "open"])
       PROVE  AssertsLastToo(schema, roles, text, asserted)
  <2>1. /\ DOMAIN text = 1 .. n
        /\ \A m \in 1 .. n - 1 : text[m] = whole[m]
        /\ text[n] = [whole[n] EXCEPT !.form = "open"]
    <3>1. n - 1 \in 0 .. Len(whole) /\ n - 1 + 1 = n
      BY <1>7
    <3>2. /\ DOMAIN text = 1 .. (n - 1) + 1
          /\ \A m \in 1 .. n - 1 : text[m] = whole[m]
          /\ text[(n - 1) + 1] = [whole[n] EXCEPT !.form = "open"]
      BY <1>7, <1>13, <3>1, CutAt
    <3> QED
      BY <3>1, <3>2
  <2>2. n = N
    BY <1>8, <2>1
  <2>3. text[N].form = "open"
    <3>1. whole[n] = Token(written[terms[n].entry], terms[n].role, suffix, form(n))
      BY <1>5 DEF token
    <3> QED
      BY <2>1, <2>2, <3>1 DEF Token
  <2>4. PICK last : last = LastOf(schema, roles) /\ last = terms[N]
    BY <1>1, <1>2, <1>3 DEF LastOf
  <2>5. /\ last.entry \in DOMAIN schema /\ last.role \in RolesOf(schema, roles, last.entry)
        /\ last.role \notin asserted[last.entry]
    BY <1>2, <1>3, <1>6, <1>13, <2>2, <2>4
  <2>6. ASSUME NEW i \in DOMAIN schema
        PROVE  HeardRoles(schema, roles, text, i) =
                   asserted[i] \cup (IF i = last.entry THEN {last.role} ELSE {})
    <3> DEFINE more == IF i = last.entry THEN {last.role} ELSE {}
    <3>1. DOMAIN terms \cap DOMAIN text = 1 .. N
      BY <1>2, <1>3, <2>1, <2>2
    <3>2. ASSUME NEW m \in 1 .. N, terms[m].entry = i, text[m].form # "dropped"
          PROVE  terms[m].role \in asserted[i] \cup more
      <4>1. CASE m = N
        BY <2>4, <3>2, <4>1
      <4>2. CASE m # N
        <5>1. text[m].form = form(m)
          BY <1>6, <2>1, <2>2, <4>2
        <5> QED
          BY <3>2, <5>1
      <4> QED
        BY <4>1, <4>2
    <3>3. ASSUME NEW r \in asserted[i] \cup more
          PROVE  \E m \in 1 .. N : terms[m].entry = i /\ terms[m].role = r
                                   /\ text[m].form # "dropped"
      <4>1. CASE r \in asserted[i]
        <5>1. PICK m \in 1 .. N : terms[m].entry = i /\ terms[m].role = r
          BY <1>2, <1>3, <4>1 DEF OfSchema
        <5>2. m # N
          BY <2>4, <2>5, <4>1, <5>1
        <5>3. text[m].form = "plain"
          BY <1>6, <2>1, <2>2, <4>1, <5>1, <5>2
        <5> QED
          BY <5>1, <5>3
      <4>2. CASE r \in more
        BY <2>2, <2>3, <2>4, <4>2
      <4> QED
        BY <4>1, <4>2
    <3> HIDE DEF more
    <3>4. HeardRoles(schema, roles, text, i) = asserted[i] \cup more
      BY <1>9, <3>1, <3>2, <3>3
    <3> QED
      BY <3>4 DEF more
  <2> QED
    BY <2>4, <2>5, <2>6 DEF AssertsLastToo
<1> QED
  BY <1>6, <1>7, <1>10, <1>11, <1>12, <1>13 DEF CutShort

-----------------------------------------------------------------------------
(* Schemas whose entries are appliances of their own.                      *)

\* A list of roles: it is not empty, and no role is twice on it.
RoleList(q) ==
    /\ Len(q) \in Nat \ {0} /\ DOMAIN q = 1 .. Len(q) /\ q # <<>>
    /\ \A a, b \in DOMAIN q : q[a] = q[b] => a = b

\* Every entry has roles, and no other entry has its type and index.
Wired(schema, roles) ==
    /\ IsSchema(schema, roles)
    /\ \A i \in DOMAIN schema : /\ schema[i].type \notin {"PAD_TO_BYTE", "SKIP_BITS", "MAST"}
                                /\ RoleList(roles[schema[i].type])
    /\ \A i, j \in DOMAIN schema :
          schema[i].type = schema[j].type /\ schema[i].index = schema[j].index => i = j

ControlTypes == {"SWITCH", "SIGNAL", "ELECTRIC_LOCK", "MAINTAINER"}
IndicationTypes == {"SWITCH", "TRACK", "SIGNAL", "ELECTRIC_LOCK", "MAINTAINER"}

\* The lists of roles of both directions.
LEMMA RoleLists ==
    /\ \A type \in ControlTypes : RoleList(ControlRoles[type])
    /\ \A type \in IndicationTypes : RoleList(IndicationRoles[type])
PROOF
<1>1. \A a : RoleList(<<a>>)
  <2> TAKE a
  <2>1. Len(<<a>>) = 1 /\ DOMAIN <<a>> = 1 .. 1 /\ <<a>> # <<>>
    OBVIOUS
  <2> QED
    BY <2>1 DEF RoleList
<1>2. \A a, b : a # b => RoleList(<<a, b>>)
  <2> SUFFICES ASSUME NEW a, NEW b, a # b
               PROVE  RoleList(<<a, b>>)
    OBVIOUS
  <2>1. /\ Len(<<a, b>>) = 2 /\ DOMAIN <<a, b>> = 1 .. 2 /\ <<a, b>> # <<>>
        /\ <<a, b>>[1] = a /\ <<a, b>>[2] = b
    OBVIOUS
  <2> QED
    BY <2>1 DEF RoleList
<1>3. \A a, b, c : a # b /\ a # c /\ b # c => RoleList(<<a, b, c>>)
  <2> SUFFICES ASSUME NEW a, NEW b, NEW c, a # b, a # c, b # c
               PROVE  RoleList(<<a, b, c>>)
    OBVIOUS
  <2>1. /\ Len(<<a, b, c>>) = 3 /\ DOMAIN <<a, b, c>> = 1 .. 3 /\ <<a, b, c>> # <<>>
        /\ <<a, b, c>>[1] = a /\ <<a, b, c>>[2] = b /\ <<a, b, c>>[3] = c
    OBVIOUS
  <2> QED
    BY <2>1 DEF RoleList
<1>4. /\ RoleList(<<"NW", "RW">>) /\ RoleList(<<"SG", "NG", "H">>)
      /\ RoleList(<<"SG", "NG", "TE">>) /\ RoleList(<<"WL">>) /\ RoleList(<<Sole>>)
  BY <1>1, <1>2, <1>3
<1>5. /\ ControlRoles.SWITCH = <<"NW", "RW">>
      /\ ControlRoles.SIGNAL = <<"SG", "NG", "H">>
      /\ ControlRoles.ELECTRIC_LOCK = <<"WL">>
      /\ ControlRoles.MAINTAINER = <<Sole>>
  BY DEF ControlRoles
<1>6. /\ IndicationRoles.SWITCH = <<"NW", "RW">>
      /\ IndicationRoles.TRACK = <<Sole>>
      /\ IndicationRoles.SIGNAL = <<"SG", "NG", "TE">>
      /\ IndicationRoles.ELECTRIC_LOCK = <<"WL">>
      /\ IndicationRoles.MAINTAINER = <<Sole>>
  BY DEF IndicationRoles
<1> QED
  BY <1>4, <1>5, <1>6 DEF ControlTypes, IndicationTypes

\* A schema of controls, or of indications, is wired.
LEMMA SchemasWired ==
    ASSUME NEW schema
    PROVE  /\ Controllable(schema) => Wired(schema, ControlRoles)
           /\ Indicable(schema) => Wired(schema, IndicationRoles)
  BY RoleLists DEF Controllable, Indicable, Wired, ControlTypes, IndicationTypes

-----------------------------------------------------------------------------
(* From a text that is accepted to the control transaction.                *)

\* A set of one element at most has no two.
LEMMA AtMostOne ==
    ASSUME NEW T, IsFiniteSet(T), Cardinality(T) <= 1, NEW x \in T, NEW y \in T
    PROVE  x = y
PROOF
<1> SUFFICES ASSUME x # y
             PROVE  FALSE
  OBVIOUS
<1>1. /\ IsFiniteSet({x} \cup {y}) /\ Cardinality({x} \cup {y}) = 2
  <2>1. IsFiniteSet({x}) /\ Cardinality({x}) = 1 /\ y \notin {x}
    BY FS_Singleton
  <2> QED
    BY <2>1, FS_AddElement
<1>2. Cardinality({x} \cup {y}) <= Cardinality(T) /\ Cardinality(T) \in Nat
  BY FS_Subset, FS_CardinalityType
<1> QED
  BY <1>1, <1>2

\* The functions of an appliance that some of its roles stand for.
LEMMA RoleFacts ==
    /\ Range(ControlRoles.SWITCH) = {"NW", "RW"}
    /\ Range(ControlRoles.SIGNAL) = {"SG", "NG", "H"}
    /\ Range(ControlRoles.ELECTRIC_LOCK) = {"WL"}
    /\ Range(ControlRoles.MAINTAINER) = {Sole}
PROOF
<1>1. \A a : Range(<<a>>) = {a}
  <2> TAKE a
  <2>1. DOMAIN <<a>> = {1} /\ <<a>>[1] = a
    OBVIOUS
  <2> QED
    BY <2>1 DEF Range
<1>2. \A a, b : Range(<<a, b>>) = {a, b}
  <2> TAKE a, b
  <2>1. DOMAIN <<a, b>> = {1, 2} /\ <<a, b>>[1] = a /\ <<a, b>>[2] = b
    OBVIOUS
  <2> QED
    BY <2>1 DEF Range
<1>3. \A a, b, c : Range(<<a, b, c>>) = {a, b, c}
  <2> TAKE a, b, c
  <2>1. /\ DOMAIN <<a, b, c>> = {1, 2, 3}
        /\ <<a, b, c>>[1] = a /\ <<a, b, c>>[2] = b /\ <<a, b, c>>[3] = c
    OBVIOUS
  <2> QED
    BY <2>1 DEF Range
<1> QED
  BY <1>1, <1>2, <1>3 DEF ControlRoles

\* What is heard for an appliance is what its one entry was heard to assert, as
\* no other entry has its type and index.
LEMMA HeardForEntry ==
    ASSUME NEW schema, NEW roles, Wired(schema, roles), NEW suffix, NEW text,
           Accepted(schema, roles, suffix, text), NEW i \in DOMAIN schema
    PROVE  LET h == HeardRoles(schema, roles, text, i)
           IN /\ HeardFor(schema, roles, suffix, text, schema[i].type, schema[i].index) = h
              /\ h \subseteq RolesOf(schema, roles, i)
              /\ Consistent(schema[i].type, h)
PROOF
<1> DEFINE h == HeardRoles(schema, roles, text, i)
           declared == {j \in DOMAIN schema : /\ schema[j].type = schema[i].type
                                              /\ schema[j].index = schema[i].index}
           hits == {j \in declared : Decoded(schema, roles, suffix, text, j)}
<1>1. IsSchema(schema, roles)
  BY DEF Wired
<1>2. Decoded(schema, roles, suffix, text, i) /\ Consistent(schema[i].type, h)
  BY <1>1, AcceptedInStep
<1>3. declared = {i}
  BY DEF Wired
<1>4. hits = {i}
  BY <1>2, <1>3
<1>5. Max(hits) = i
  <2>1. i \in Nat
    BY <1>1 DEF IsSchema
  <2> QED
    BY <1>4, <2>1 DEF Max
<1>6. HeardFor(schema, roles, suffix, text, schema[i].type, schema[i].index) =
          IF hits = {} THEN Undeclared ELSE HeardRoles(schema, roles, text, Max(hits))
  BY DEF HeardFor
<1> HIDE DEF hits
<1>7. h \subseteq RolesOf(schema, roles, i)
  <2>1. PICK terms : terms = Terms(schema, roles)
    OBVIOUS
  <2>2. \A n \in DOMAIN terms :
            terms[n].role \in RolesOf(schema, roles, terms[n].entry)
    BY <1>1, <2>1, TermsElements
  <2> QED
    BY <2>1, <2>2 DEF HeardRoles
<1> QED
  BY <1>2, <1>4, <1>5, <1>6, <1>7

\* What an appliance asserts, type by type.
LEMMA AssertedFor ==
    ASSUME NEW e, NEW ctl
    PROVE  /\ e.type = "SWITCH" => AssertedControls(e, ctl) = SwitchWire[ctl.switch[e.index]]
           /\ e.type = "SIGNAL" => AssertedControls(e, ctl) = SignalWire[ctl.signal[e.index]]
           /\ e.type = "ELECTRIC_LOCK" => AssertedControls(e, ctl) =
                  (IF ctl.lock[e.index] = "UNLOCK" THEN {"WL"} ELSE {})
           /\ e.type = "MAINTAINER" => AssertedControls(e, ctl) =
                  (IF ctl.maintainer[e.index] THEN {Sole} ELSE {})
  BY DEF AssertedControls

\* The transaction has what these roles of the appliance e stand for.
TakenFor(ctl, e, h) ==
    /\ e.type = "SWITCH" => ctl.switch[e.index] = DemandOf(SwitchWire, h)
    /\ e.type = "SIGNAL" => ctl.signal[e.index] = DemandOf(SignalWire, h)
    /\ e.type = "ELECTRIC_LOCK" => ctl.lock[e.index] = IF h = {} THEN "LOCK" ELSE "UNLOCK"
    /\ e.type = "MAINTAINER" => ctl.maintainer[e.index] = (h # {})

\* Roles of an appliance are never taken for those of one that nobody declared.
LEMMA RolesDeclared ==
    ASSUME NEW type \in ControlTypes, NEW h, h \subseteq Range(ControlRoles[type])
    PROVE  h # Undeclared
PROOF
<1>1. "undeclared" \notin h
  BY RoleFacts DEF ControlTypes, Sole
<1> QED
  BY <1>1 DEF Undeclared

\* A transaction that was taken for some roles of an appliance asserts these.
LEMMA AssertsTaken ==
    ASSUME NEW e, e.type \in ControlTypes, NEW h, h \subseteq Range(ControlRoles[e.type]),
           Consistent(e.type, h), NEW ctl, TakenFor(ctl, e, h)
    PROVE  AssertedControls(e, ctl) = h
PROOF
<1>1. ASSUME NEW E, IsFiniteSet(E), h \subseteq E, Cardinality(h \cap E) <= 1,
             NEW x \in h
      PROVE  h = {x}
  <2>1. h \cap E = h /\ IsFiniteSet(h)
    BY <1>1, FS_Subset
  <2>2. \A y \in h : y = x
    BY <1>1, <2>1, AtMostOne
  <2> QED
    BY <1>1, <2>2
<1>2. IsFiniteSet({"NW", "RW"}) /\ IsFiniteSet({"SG", "NG", "H"})
  <2>1. IsFiniteSet({"NW"} \cup {"RW"}) /\ IsFiniteSet({"SG"} \cup {"NG"} \cup {"H"})
    BY FS_Singleton, FS_Union
  <2>2. {"NW"} \cup {"RW"} = {"NW", "RW"} /\ {"SG"} \cup {"NG"} \cup {"H"} = {"SG", "NG", "H"}
    OBVIOUS
  <2> QED
    BY <2>1, <2>2
<1>3. CASE e.type = "SWITCH"
  <2>1. h \subseteq {"NW", "RW"} /\ Cardinality(h \cap {"NW", "RW"}) <= 1
    BY <1>3, RoleFacts DEF Consistent, Exclusive
  <2>2. h = {} \/ h = {"NW"} \/ h = {"RW"}
    BY <1>1, <1>2, <2>1
  <2>3. \E d \in DOMAIN SwitchWire : SwitchWire[d] = h
    BY <2>2 DEF SwitchWire
  <2>4. SwitchWire[DemandOf(SwitchWire, h)] = h
    BY <2>3 DEF DemandOf
  <2> QED
    BY <1>3, <2>4, AssertedFor DEF TakenFor
<1>4. CASE e.type = "SIGNAL"
  <2>1. h \subseteq {"SG", "NG", "H"} /\ Cardinality(h \cap {"SG", "NG", "H"}) <= 1
    BY <1>4, RoleFacts DEF Consistent, Exclusive
  <2>2. h = {} \/ h = {"SG"} \/ h = {"NG"} \/ h = {"H"}
    BY <1>1, <1>2, <2>1
  <2>3. \E d \in DOMAIN SignalWire : SignalWire[d] = h
    BY <2>2 DEF SignalWire
  <2>4. SignalWire[DemandOf(SignalWire, h)] = h
    BY <2>3 DEF DemandOf
  <2> QED
    BY <1>4, <2>4, AssertedFor DEF TakenFor
<1>5. CASE e.type = "ELECTRIC_LOCK"
  <2>1. h \subseteq {"WL"}
    BY <1>5, RoleFacts
  <2> QED
    BY <1>5, <2>1, AssertedFor DEF TakenFor
<1>6. CASE e.type = "MAINTAINER"
  <2>1. h \subseteq {Sole}
    BY <1>6, RoleFacts
  <2> QED
    BY <1>6, <2>1, AssertedFor DEF TakenFor
<1> QED
  BY <1>3, <1>4, <1>5, <1>6 DEF ControlTypes

\* A transaction has, at the index of an appliance, what its text was heard to
\* assert for it.
LEMMA TextTransaction ==
    ASSUME NEW schema, NEW text, NEW e, e.index \in Indices, NEW h, h # Undeclared,
           HeardFor(schema, ControlRoles, "S", text, e.type, e.index) = h
    PROVE  TakenFor(DecodeControls(schema, text), e, h)
PROOF
<1> DEFINE i == e.index
           heard(type) == HeardFor(schema, ControlRoles, "S", text, type, i)
           ctl == DecodeControls(schema, text)
<1>1. /\ ctl.switch[i] = IF heard("SWITCH") = Undeclared THEN "NO_CHANGE"
                         ELSE DemandOf(SwitchWire, heard("SWITCH"))
      /\ ctl.signal[i] = IF heard("SIGNAL") = Undeclared THEN "NO_CHANGE"
                         ELSE DemandOf(SignalWire, heard("SIGNAL"))
      /\ ctl.lock[i] = IF heard("ELECTRIC_LOCK") = Undeclared THEN "NO_CHANGE"
                       ELSE IF heard("ELECTRIC_LOCK") = {} THEN "LOCK" ELSE "UNLOCK"
      /\ ctl.maintainer[i] = IF heard("MAINTAINER") = Undeclared THEN FALSE
                             ELSE heard("MAINTAINER") # {}
  BY DEF DecodeControls, ControlsHeard
<1>2. heard(e.type) = h
  OBVIOUS
<1> HIDE DEF heard, ctl
<1>3. /\ e.type = "SWITCH" => ctl.switch[i] = DemandOf(SwitchWire, h)
      /\ e.type = "SIGNAL" => ctl.signal[i] = DemandOf(SignalWire, h)
      /\ e.type = "ELECTRIC_LOCK" => ctl.lock[i] = IF h = {} THEN "LOCK" ELSE "UNLOCK"
  BY <1>1, <1>2
<1>4. e.type = "MAINTAINER" => ctl.maintainer[i] = (h # {})
  BY <1>1, <1>2
<1> QED
  BY <1>3, <1>4 DEF TakenFor, ctl

\* A transaction asserts what its text was heard to assert, appliance by
\* appliance, whatever number each end gives it.
LEMMA DecodedAsHeard ==
    ASSUME NEW schema, Controllable(schema), NEW text,
           Accepted(schema, ControlRoles, "S", text), NEW i \in DOMAIN schema
    PROVE  AssertedControls(schema[i], DecodeControls(schema, text))
               = HeardRoles(schema, ControlRoles, text, i)
PROOF
<1>1. PICK h : h = HeardRoles(schema, ControlRoles, text, i)
  OBVIOUS
<1>2. PICK e : e = schema[i]
  OBVIOUS
<1>3. /\ HeardFor(schema, ControlRoles, "S", text, e.type, e.index) = h
      /\ h \subseteq Range(ControlRoles[e.type])
      /\ Consistent(e.type, h)
  BY <1>1, <1>2, SchemasWired, HeardForEntry DEF RolesOf
<1>4. e.index \in Indices /\ e.type \in ControlTypes
  BY <1>2 DEF Controllable, ControlTypes
<1>5. h # Undeclared
  BY <1>3, <1>4, RolesDeclared
<1>6. TakenFor(DecodeControls(schema, text), e, h)
  BY <1>3, <1>4, <1>5, TextTransaction
<1>7. AssertedControls(e, DecodeControls(schema, text)) = h
  BY <1>3, <1>4, <1>6, AssertsTaken
<1> QED
  BY <1>1, <1>2, <1>7

-----------------------------------------------------------------------------
(* The bit-packed codec.                                                   *)

\* The bit at which the entry after e starts when e starts at bit b.
NextStart(e, roles, b) ==
    CASE e.type = "PAD_TO_BYTE" -> ((b + 7) \div 8) * 8
      [] e.type = "SKIP_BITS" -> b + e.skip
      [] OTHER -> b + Len(BitsOf(e, roles))

Starts(g, entries, roles, n) ==
    g = [i \in 1 .. n |-> IF i = 1 THEN 0 ELSE NextStart(entries[i - 1], roles, g[i - 1])]

\* Start bits can be counted up to any entry.
LEMMA StartsExist ==
    ASSUME NEW entries, NEW roles, NEW n \in Nat \ {0}
    PROVE  \E g : Starts(g, entries, roles, n)
PROOF
<1> DEFINE T == {m \in Nat \ {0} : ~ \E g : Starts(g, entries, roles, m)}
<1>1. SUFFICES ASSUME T # {}
               PROVE  FALSE
  OBVIOUS
<1>2. PICK m \in T : \A k \in T : m <= k
  BY <1>1, LeastNumber
<1>3. CASE m = 1
  <2> DEFINE g == [i \in 1 .. 1 |-> 0]
  <2>1. Starts(g, entries, roles, 1)
    BY DEF Starts
  <2> QED
    BY <1>2, <1>3, <2>1
<1>4. CASE m # 1
  <2>1. m - 1 \in Nat \ {0} /\ m - 1 \notin T
    BY <1>2, <1>4
  <2>2. PICK h : Starts(h, entries, roles, m - 1)
    BY <2>1
  <2> DEFINE g == [i \in 1 .. m |->
                      IF i = 1 THEN 0 ELSE NextStart(entries[i - 1], roles, h[i - 1])]
  <2>3. ASSUME NEW i \in 1 .. m - 1
        PROVE  g[i] = h[i]
    <3>1. h[i] = IF i = 1 THEN 0 ELSE NextStart(entries[i - 1], roles, h[i - 1])
      BY <2>2 DEF Starts
    <3>2. i \in 1 .. m
      BY <2>1
    <3> QED
      BY <3>1, <3>2
  <2>4. ASSUME NEW i \in 1 .. m, i # 1
        PROVE  h[i - 1] = g[i - 1]
    <3>1. i - 1 \in 1 .. m - 1
      BY <2>1, <2>4
    <3> QED
      BY <2>3, <3>1
  <2>5. \A i \in 1 .. m :
            g[i] = IF i = 1 THEN 0 ELSE NextStart(entries[i - 1], roles, g[i - 1])
    BY <2>4
  <2>6. g = [i \in 1 .. m |-> g[i]]
    OBVIOUS
  <2> HIDE DEF g
  <2>7. Starts(g, entries, roles, m)
    BY <2>5, <2>6 DEF Starts
  <2> QED
    BY <1>2, <2>7
<1> QED
  BY <1>3, <1>4

\* Every entry of a schema starts at a bit, behind the one before it, and so does
\* the end of its frame.
LEMMA StartBits ==
    ASSUME NEW entries, NEW roles, IsSchema(entries, roles),
           \A i \in DOMAIN entries : entries[i].skip \in Nat
    PROVE  LET start == StartBit(entries, roles)
           IN /\ \A i \in 1 .. Len(entries) + 1 : start[i] \in Nat
              /\ \A i \in DOMAIN entries : start[i + 1] = NextStart(entries[i], roles, start[i])
PROOF
<1> DEFINE n == Len(entries) + 1
           F == CHOOSE g : Starts(g, entries, roles, n)
<1>1. Len(entries) \in Nat /\ DOMAIN entries = 1 .. Len(entries)
  BY DEF IsSchema
<1>2. Starts(F, entries, roles, n)
  BY <1>1, StartsExist
<1>3. StartBit(entries, roles) = F
  BY DEF StartBit, Starts, NextStart
<1> HIDE DEF F
<1>4. ASSUME NEW e, e.skip \in Nat, roles[e.type] \in Seq(STRING), NEW b \in Nat
      PROVE  NextStart(e, roles, b) \in Nat
  <2>1. Len(BitsOf(e, roles)) \in Nat
    BY <1>4, EmptySeq, LenProperties DEF BitsOf
  <2>2. ((b + 7) \div 8) * 8 \in Nat /\ b + e.skip \in Nat /\ b + Len(BitsOf(e, roles)) \in Nat
    BY <1>4, <2>1
  <2> QED
    BY <2>2 DEF NextStart
<1> DEFINE T == {i \in 1 .. n : F[i] \notin Nat}
<1>5. T = {}
  <2> SUFFICES ASSUME T # {}
               PROVE  FALSE
    OBVIOUS
  <2>1. T \subseteq Nat
    BY <1>1
  <2>2. PICK i \in T : \A k \in T : i <= k
    BY <2>1, LeastNumber
  <2>3. F[i] = IF i = 1 THEN 0 ELSE NextStart(entries[i - 1], roles, F[i - 1])
    BY <1>2 DEF Starts
  <2>4. i \in 1 .. n /\ i # 1 /\ F[i] \notin Nat
    BY <2>2, <2>3
  <2>5. i - 1 \in DOMAIN entries /\ i - 1 \in 1 .. n /\ i - 1 \notin T
    BY <1>1, <2>2, <2>4
  <2>6. F[i - 1] \in Nat /\ entries[i - 1].skip \in Nat
        /\ roles[entries[i - 1].type] \in Seq(STRING)
    BY <2>5 DEF IsSchema
  <2> QED
    BY <1>4, <2>3, <2>4, <2>6
<1>6. ASSUME NEW i \in DOMAIN entries
      PROVE  F[i + 1] = NextStart(entries[i], roles, F[i])
  <2>1. i + 1 \in 1 .. n /\ i + 1 # 1 /\ (i + 1) - 1 = i
    BY <1>1
  <2>2. F[i + 1] = IF i + 1 = 1 THEN 0
                   ELSE NextStart(entries[(i + 1) - 1], roles, F[(i + 1) - 1])
    BY <1>2, <2>1 DEF Starts
  <2> QED
    BY <2>1, <2>2
<1> QED
  BY <1>3, <1>5, <1>6

\* A frame is at least as long as the functions it is declared for need, and
\* what is shorter is refused as a whole.
THEOREM CutFrames ==
    ASSUME NEW schema, NEW roles, IsSchema(schema, roles),
           \A i \in DOMAIN schema : schema[i].skip \in Nat,
           NEW codec, codec = DeclareBits(NoBits(0), schema, roles)
    PROVE  /\ codec.bytes \in Nat
           /\ StartBit(schema, roles)[Len(schema) + 1] <= 8 * codec.bytes
           /\ \A frame : frame.bytes \in 0 .. codec.bytes - 1 => ~UnpackAccepts(codec, frame)
PROOF
<1>1. Len(schema) \in Nat
  BY DEF IsSchema
<1>2. PICK total \in Nat : total = StartBit(schema, roles)[Len(schema) + 1]
  BY <1>1, StartBits
<1>3. codec.bytes = Max({0, (total + 7) \div 8})
  BY <1>2 DEF DeclareBits, NoBits
<1>4. (total + 7) \div 8 \in Nat /\ total <= 8 * ((total + 7) \div 8)
  OBVIOUS
<1>5. Max({0, (total + 7) \div 8}) = (total + 7) \div 8
  <2>1. PICK b \in Nat : b = (total + 7) \div 8
    BY <1>4
  <2>2. Max({0, b}) = b
    <3>1. \E x \in {0, b} : \A y \in {0, b} : x >= y
      BY <2>1
    <3>2. Max({0, b}) \in {0, b} /\ \A y \in {0, b} : Max({0, b}) >= y
      BY <3>1 DEF Max
    <3> QED
      BY <2>1, <3>2
  <2> QED
    BY <2>1, <2>2
<1>6. codec.bytes \in Nat
  BY <1>3, <1>4, <1>5
<1>7. ASSUME NEW frame, frame.bytes \in 0 .. codec.bytes - 1
      PROVE  ~UnpackAccepts(codec, frame)
  BY <1>6, <1>7 DEF UnpackAccepts
<1> QED
  BY <1>2, <1>3, <1>4, <1>5, <1>6, <1>7

-----------------------------------------------------------------------------
(* From a frame to the control transaction.                                *)

\* The loop that takes the maps that are offered, entry by entry.
Fills(g, old, offered) ==
    g = [n \in 0 .. Len(offered) |->
            IF n = 0 THEN <<>>
            ELSE IF /\ n > Len(old) \/ offered[n].type = "ELECTRIC_LOCK"
                    /\ offered[n].roles # <<>>
                    /\ Cardinality({k \in DOMAIN g[n - 1] :
                                        g[n - 1][k].type = offered[n].type}) < MaxEntries
            THEN Append(g[n - 1], offered[n]) ELSE g[n - 1]]

\* The first n of a sequence are the first n - 1 and the one at n.
LEMMA OneMore ==
    ASSUME NEW X, NEW M \in Seq(X), NEW n \in 1 .. Len(M)
    PROVE  Append(SubSeq(M, 1, n - 1), M[n]) = SubSeq(M, 1, n)
PROOF
<1>1. Len(M) \in Nat /\ n \in Nat /\ n - 1 \in Int /\ 1 <= n
      /\ \A i \in 1 .. n : M[i] \in X
  BY LenProperties, ElementOfSeq
<1>2. PICK most : most = SubSeq(M, 1, n - 1)
  OBVIOUS
<1>3. PICK all : all = SubSeq(M, 1, n)
  OBVIOUS
<1>4. most \in Seq(X) /\ Len(most) = n - 1 /\ \A i \in 1 .. n - 1 : most[i] = M[i]
  <2>1. \A i \in 1 .. n - 1 : M[i] \in X
    BY <1>1
  <2> QED
    BY <1>1, <1>2, <2>1, SubSeqProperties
<1>5. all \in Seq(X) /\ Len(all) = n /\ \A i \in 1 .. n : all[i] = M[i]
  BY <1>1, <1>3, SubSeqProperties
<1>6. PICK longer : longer = Append(most, M[n])
  OBVIOUS
<1>7. /\ longer \in Seq(X) /\ Len(longer) = n
      /\ \A i \in 1 .. n : longer[i] = M[i]
  <2>1. M[n] \in X
    BY <1>1
  <2>2. /\ longer \in Seq(X) /\ Len(longer) = n /\ longer[n] = M[n]
        /\ \A i \in 1 .. n - 1 : longer[i] = most[i]
    BY <1>1, <1>4, <1>6, <2>1, AppendProperties
  <2> QED
    BY <1>1, <1>4, <2>2
<1>8. longer = all
  BY <1>5, <1>7, SeqEqual
<1> QED
  BY <1>2, <1>3, <1>6, <1>8

\* In a sequence of the first entries there is room for one more of any type.
LEMMA RoomLeft ==
    ASSUME MaxEntries \in Nat, NEW n \in Nat \ {0}, n <= MaxEntries,
           NEW maps, DOMAIN maps = 1 .. n - 1, NEW type
    PROVE  Cardinality({k \in DOMAIN maps : maps[k].type = type}) < MaxEntries
PROOF
<1> DEFINE S == {k \in DOMAIN maps : maps[k].type = type}
<1>1. PICK m \in Nat : m = n - 1
  OBVIOUS
<1>2. IsFiniteSet(1 .. m) /\ Cardinality(1 .. m) = m
  <2>1. 1 \in Int /\ m \in Int /\ (1 > m => m = 0) /\ (~(1 > m) => m - 1 + 1 = m)
    OBVIOUS
  <2> QED
    BY <2>1, FS_Interval
<1>3. S \subseteq 1 .. m
  BY <1>1
<1> HIDE DEF S
<1>4. Cardinality(S) <= m /\ Cardinality(S) \in Nat
  BY <1>2, <1>3, FS_Subset, FS_CardinalityType
<1> QED
  BY <1>1, <1>4 DEF S

\* Maps that all have bits, and are no more than the tables have room for, are
\* taken one by one.
LEMMA FilledByAll ==
    ASSUME MaxEntries \in Nat, NEW M, NEW X, M \in Seq(X), Len(M) <= MaxEntries,
           \A n \in DOMAIN M : M[n].roles # <<>>
    PROVE  Fills([n \in 0 .. Len(M) |-> SubSeq(M, 1, n)], <<>>, M)
PROOF
<1> DEFINE L == Len(M)
           g == [n \in 0 .. L |-> SubSeq(M, 1, n)]
           before(n) == {k \in DOMAIN g[n - 1] : g[n - 1][k].type = M[n].type}
           next(n) == IF n = 0 THEN <<>>
                      ELSE IF /\ n > Len(<<>>) \/ M[n].type = "ELECTRIC_LOCK"
                              /\ M[n].roles # <<>>
                              /\ Cardinality(before(n)) < MaxEntries
                      THEN Append(g[n - 1], M[n]) ELSE g[n - 1]
<1>1. L \in Nat /\ DOMAIN M = 1 .. L /\ L <= MaxEntries /\ Len(<<>>) = 0
  BY LenProperties
<1>2. \A n \in 0 .. L : DOMAIN SubSeq(M, 1, n) = 1 .. n
  BY <1>1
<1>3. SubSeq(M, 1, 0) = <<>>
  BY SubSeqEmpty
<1>4. \A n \in 1 .. L : Append(SubSeq(M, 1, n - 1), M[n]) = SubSeq(M, 1, n)
  BY <1>1, OneMore
<1>5. ASSUME NEW n \in 1 .. L
      PROVE  g[n] = next(n)
  <2>1. n - 1 \in 0 .. L /\ n - 1 \in Nat /\ n - 1 < n
    BY <1>1
  <2>2. g[n - 1] = SubSeq(M, 1, n - 1) /\ g[n] = SubSeq(M, 1, n)
    BY <1>1, <2>1
  <2>3. Cardinality(before(n)) < MaxEntries
    <3>1. DOMAIN g[n - 1] = 1 .. n - 1
      BY <1>2, <2>1, <2>2
    <3>2. n \in Nat \ {0} /\ n <= MaxEntries
      BY <1>1
    <3> HIDE DEF g
    <3> QED
      BY <3>1, <3>2, RoomLeft
  <2> HIDE DEF before, g
  <2>4. next(n) = Append(g[n - 1], M[n])
    BY <1>1, <2>1, <2>3
  <2> QED
    BY <1>4, <2>2, <2>4
<1>6. g[0] = next(0)
  BY <1>1, <1>3
<1>7. \A n \in 0 .. L : g[n] = next(n)
  <2> HIDE DEF g, next
  <2> QED
    BY <1>1, <1>5, <1>6
<1>8. g = [n \in 0 .. L |-> g[n]]
  OBVIOUS
<1> HIDE DEF g
<1>9. g = [n \in 0 .. L |-> next(n)]
  <2> HIDE DEF next
  <2> QED
    BY <1>7, <1>8
<1> QED
  BY <1>9 DEF Fills, g

\* Maps that all have bits, and are no more than the tables have room for, are
\* all taken.
LEMMA AllTaken ==
    ASSUME MaxEntries \in Nat, NEW M, NEW X, M \in Seq(X), Len(M) <= MaxEntries,
           \A n \in DOMAIN M : M[n].roles # <<>>,
           NEW g, Fills(g, <<>>, M)
    PROVE  g[Len(M)] = M
PROOF
<1> DEFINE L == Len(M)
           T == {n \in 0 .. L : g[n] # SubSeq(M, 1, n)}
<1>1. L \in Nat /\ DOMAIN M = 1 .. L /\ L <= MaxEntries /\ Len(<<>>) = 0
  BY LenProperties
<1>2. \A n \in 0 .. L : /\ SubSeq(M, 1, n) \in Seq(X) /\ Len(SubSeq(M, 1, n)) = n
                        /\ DOMAIN SubSeq(M, 1, n) = 1 .. n
                        /\ \A k \in 1 .. n : SubSeq(M, 1, n)[k] = M[k]
  BY <1>1
<1>3. SubSeq(M, 1, 0) = <<>>
  BY SubSeqEmpty
<1>4. \A n \in 1 .. L : Append(SubSeq(M, 1, n - 1), M[n]) = SubSeq(M, 1, n)
  BY <1>1, OneMore
<1>5. T = {}
  <2> SUFFICES ASSUME T # {}
               PROVE  FALSE
    OBVIOUS
  <2>0. T \subseteq Nat
    BY <1>1
  <2>1. PICK n \in T : \A k \in T : n <= k
    <3> HIDE DEF T
    <3> QED
      BY <2>0, LeastNumber
  <2>2. g[0] = <<>>
    <3>1. 0 \in 0 .. Len(M)
      BY <1>1
    <3> QED
      BY <3>1, Zenon DEF Fills
  <2>3. /\ n # 0 /\ n \in 1 .. L /\ n - 1 \in 0 .. L
        /\ n - 1 \in Nat /\ n - 1 < n
    <3>1. n \in 0 .. L /\ g[n] # SubSeq(M, 1, n)
      OBVIOUS
    <3>2. n # 0
      BY <1>3, <2>2, <3>1
    <3> QED
      BY <1>1, <3>1, <3>2
  <2>4. g[n - 1] = SubSeq(M, 1, n - 1)
    BY <2>1, <2>3
  <2> DEFINE before == {k \in DOMAIN g[n - 1] : g[n - 1][k].type = M[n].type}
  <2>5. Cardinality(before) < MaxEntries
    <3>1. DOMAIN g[n - 1] = 1 .. n - 1 /\ n \in Nat \ {0} /\ n <= MaxEntries
      BY <1>1, <1>2, <2>3, <2>4
    <3> QED
      BY <3>1, RoomLeft
  <2>6. g[n] = IF n = 0 THEN <<>>
               ELSE IF /\ n > Len(<<>>) \/ M[n].type = "ELECTRIC_LOCK"
                       /\ M[n].roles # <<>>
                       /\ Cardinality(before) < MaxEntries
               THEN Append(g[n - 1], M[n]) ELSE g[n - 1]
    BY <2>3 DEF Fills
  <2>7. g[n] = Append(g[n - 1], M[n])
    <3> HIDE DEF before
    <3> QED
      BY <1>1, <2>3, <2>5, <2>6
  <2> QED
    BY <1>4, <2>1, <2>3, <2>4, <2>7
<1>6. g[L] = SubSeq(M, 1, L)
  BY <1>1, <1>5
<1>7. SubSeq(M, 1, L) = M
  BY <1>1
<1> QED
  BY <1>6, <1>7

\* The frame of a schema that the tables have room for has a map of every entry.
LEMMA MapsComplete ==
    ASSUME NEW schema, NEW roles, Wired(schema, roles),
           MaxEntries \in Nat, Len(schema) <= MaxEntries,
           NEW codec, codec = DeclareBits(NoBits(0), schema, roles)
    PROVE  codec.maps = MapsOf(schema, roles)
PROOF
<1>1. PICK M : M = MapsOf(schema, roles)
  OBVIOUS
<1>2. PICK L : L = Len(schema)
  OBVIOUS
<1>3. /\ L \in Nat /\ DOMAIN schema = 1 .. L /\ L <= MaxEntries
      /\ \A n \in 1 .. L : schema[n].type # "MAST" /\ roles[schema[n].type] # <<>>
  BY <1>2 DEF Wired, IsSchema, RoleList
<1>4. /\ M = [n \in 1 .. L |-> M[n]]
      /\ \A n \in 1 .. L : M[n].roles = roles[schema[n].type]
  <2>1. \A n \in 1 .. L : BitsOf(schema[n], roles) = roles[schema[n].type]
    BY <1>3 DEF BitsOf
  <2>2. M = [n \in 1 .. L |-> M[n]]
    BY <1>1, <1>3 DEF MapsOf
  <2>3. \A n \in 1 .. L : M[n].roles = BitsOf(schema[n], roles)
    BY <1>1, <1>3 DEF MapsOf
  <2> QED
    BY <2>1, <2>2, <2>3
<1>5. \A n \in 1 .. L : M[n].roles # <<>>
  BY <1>3, <1>4
<1>6. PICK X : X = {M[n] : n \in 1 .. L}
  OBVIOUS
<1>7. M \in Seq(X) /\ Len(M) = L /\ DOMAIN M = 1 .. L
  BY <1>3, <1>4, <1>6, MadeSeq
<1>8. <<>> \o M = M
  BY <1>7
<1> DEFINE Filling(old) == CHOOSE g : Fills(g, old, old \o MapsOf(schema, roles))
<1>9. PICK empty : empty = NoBits(0)
  OBVIOUS
<1>10. empty.maps = <<>>
  BY <1>9 DEF NoBits
<1>11. codec.maps = Filling(empty.maps)[Len(empty.maps \o M)]
  <2>1. codec = DeclareBits(empty, schema, roles)
    BY <1>9
  <2> DEFINE end == StartBit(schema, roles)[Len(schema) + 1]
             bytes == Max({empty.bytes, (end + 7) \div 8})
             taken == Filling(empty.maps)[Len(empty.maps \o MapsOf(schema, roles))]
  <2>2. DeclareBits(empty, schema, roles) = [bytes |-> bytes, maps |-> taken]
    BY Zenon DEF DeclareBits, Fills
  <2> HIDE DEF bytes, taken
  <2>3. codec.maps = taken
    BY <2>1, <2>2
  <2> HIDE DEF Filling
  <2> QED
    BY <1>1, <2>3, Zenon DEF taken
<1>12. codec.maps = Filling(<<>>)[L]
  <2> HIDE DEF Filling
  <2> QED
    BY <1>7, <1>8, <1>10, <1>11
<1>13. Fills(Filling(<<>>), <<>>, M)
  <2> DEFINE f == [n \in 0 .. L |-> SubSeq(M, 1, n)]
  <2>1. Fills(f, <<>>, M)
    BY <1>3, <1>5, <1>7, FilledByAll
  <2>2. \E g : Fills(g, <<>>, <<>> \o M)
    BY <1>8, <2>1
  <2>3. Fills(Filling(<<>>), <<>>, <<>> \o M)
    BY <1>1, <2>2
  <2> QED
    BY <1>8, <2>3
<1>14. PICK g : g = Filling(<<>>)
  OBVIOUS
<1> HIDE DEF Filling
<1>15. g[Len(M)] = M
  BY <1>3, <1>5, <1>7, <1>13, <1>14, AllTaken
<1> QED
  BY <1>1, <1>7, <1>12, <1>14, <1>15

\* What starts later starts behind the bits of what starts before.
LEMMA StartsGrow ==
    ASSUME NEW schema, NEW roles, Wired(schema, roles), \A i \in DOMAIN schema : schema[i].skip \in Nat,
           NEW start, start = StartBit(schema, roles),
           NEW i \in DOMAIN schema, NEW j \in DOMAIN schema, i < j
    PROVE  start[i] + Len(roles[schema[i].type]) <= start[j]
PROOF
<1> DEFINE width(k) == Len(roles[schema[k].type])
           T == {k \in DOMAIN schema : i < k /\ ~ (start[i] + width(i) <= start[k])}
<1>1. /\ Len(schema) \in Nat /\ DOMAIN schema = 1 .. Len(schema)
      /\ IsSchema(schema, roles)
      /\ \A k \in DOMAIN schema : /\ schema[k].type \notin {"PAD_TO_BYTE", "SKIP_BITS", "MAST"}
                                  /\ RoleList(roles[schema[k].type])
  BY DEF Wired, IsSchema
<1>2. \A k \in DOMAIN schema : width(k) \in Nat
  BY <1>1 DEF RoleList
<1>3. \A k \in DOMAIN schema : start[k] \in Nat /\ start[k + 1] = start[k] + width(k)
  <2>1. /\ \A k \in 1 .. Len(schema) + 1 : start[k] \in Nat
        /\ \A k \in DOMAIN schema : start[k + 1] = NextStart(schema[k], roles, start[k])
    BY <1>1, StartBits
  <2>2. \A k \in DOMAIN schema :
            NextStart(schema[k], roles, start[k]) = start[k] + width(k)
    BY <1>1 DEF NextStart, BitsOf
  <2> QED
    BY <1>1, <2>1, <2>2
<1> HIDE DEF width
<1>4. T = {}
  <2> SUFFICES ASSUME T # {}
               PROVE  FALSE
    OBVIOUS
  <2>1. T \subseteq Nat
    BY <1>1
  <2>2. PICK k \in T : \A m \in T : k <= m
    <3> HIDE DEF T
    <3> QED
      BY <2>1, LeastNumber
  <2>3. k \in DOMAIN schema /\ i < k /\ ~ (start[i] + width(i) <= start[k])
    OBVIOUS
  <2>4. k - 1 \in DOMAIN schema /\ (k - 1) + 1 = k
    BY <1>1, <2>3
  <2>5. start[k] = start[k - 1] + width(k - 1)
    BY <1>3, <2>4
  <2>6. CASE k - 1 = i
    BY <1>2, <1>3, <2>3, <2>5, <2>6
  <2>7. CASE k - 1 # i
    <3>1. i < k - 1 /\ k - 1 \notin T
      BY <1>1, <2>2, <2>3, <2>4, <2>7
    <3>2. start[i] + width(i) <= start[k - 1]
      BY <2>4, <3>1
    <3> QED
      BY <1>2, <1>3, <2>3, <2>4, <2>5, <3>2
  <2> QED
    BY <2>6, <2>7
<1> QED
  BY <1>4 DEF width

\* No bit is shared: it belongs to one role of one entry.
LEMMA BitsApart ==
    ASSUME NEW schema, NEW roles, Wired(schema, roles), \A i \in DOMAIN schema : schema[i].skip \in Nat,
           NEW start, start = StartBit(schema, roles),
           NEW i \in DOMAIN schema, NEW a \in DOMAIN roles[schema[i].type],
           NEW j \in DOMAIN schema, NEW b \in DOMAIN roles[schema[j].type],
           start[i] + a - 1 = start[j] + b - 1
    PROVE  i = j /\ a = b
PROOF
<1>1. /\ Len(schema) \in Nat /\ DOMAIN schema = 1 .. Len(schema)
      /\ IsSchema(schema, roles)
      /\ \A k \in DOMAIN schema : /\ schema[k].type \notin {"PAD_TO_BYTE", "SKIP_BITS", "MAST"}
                                  /\ RoleList(roles[schema[k].type])
  BY DEF Wired, IsSchema
<1>2. start[i] \in Nat /\ start[j] \in Nat
  BY <1>1, StartBits
<1>3. PICK m \in Nat : m = Len(roles[schema[i].type])
  BY <1>1 DEF RoleList
<1>4. PICK n \in Nat : n = Len(roles[schema[j].type])
  BY <1>1 DEF RoleList
<1>5. a \in 1 .. m /\ b \in 1 .. n
  BY <1>1, <1>3, <1>4 DEF RoleList
<1>6. CASE i < j
  <2>1. start[i] + m <= start[j]
    BY <1>3, <1>6, StartsGrow
  <2> QED
    BY <1>2, <1>5, <2>1
<1>7. CASE j < i
  <2>1. start[j] + n <= start[i]
    BY <1>4, <1>7, StartsGrow
  <2> QED
    BY <1>2, <1>5, <2>1
<1>8. CASE i = j
  BY <1>2, <1>5, <1>8
<1> QED
  BY <1>1, <1>6, <1>7, <1>8

\* What is heard for an appliance is what the bits of its one map assert.
LEMMA HeardInMapFor ==
    ASSUME NEW schema, NEW roles, Wired(schema, roles), NEW maps, maps = MapsOf(schema, roles),
           NEW codec, codec.maps = maps, NEW frame, NEW i \in DOMAIN schema
    PROVE  HeardInMaps(codec, frame, schema[i].type, schema[i].index) = HeardBits(maps[i], frame)
PROOF
<1> DEFINE hits == {n \in DOMAIN codec.maps : /\ codec.maps[n].type = schema[i].type
                                              /\ codec.maps[n].index = schema[i].index}
<1>1. /\ DOMAIN maps = DOMAIN schema
      /\ \A n \in DOMAIN maps : maps[n].type = schema[n].type /\ maps[n].index = schema[n].index
  BY DEF MapsOf
<1>2. hits = {i}
  BY <1>1 DEF Wired
<1>3. Max(hits) = i
  <2>1. i \in Nat
    BY DEF Wired, IsSchema
  <2> QED
    BY <1>2, <2>1 DEF Max
<1>4. HeardInMaps(codec, frame, schema[i].type, schema[i].index) =
          IF hits = {} THEN Undeclared ELSE HeardBits(codec.maps[Max(hits)], frame)
  BY DEF HeardInMaps
<1> HIDE DEF hits
<1> QED
  BY <1>2, <1>3, <1>4

\* A transaction has, at the index of an appliance, what the bits of its frame
\* assert for it.
LEMMA FrameTransaction ==
    ASSUME NEW codec, NEW frame, NEW e, e.index \in Indices, NEW h, h # Undeclared,
           HeardInMaps(codec, frame, e.type, e.index) = h
    PROVE  TakenFor(UnpackControls(codec, frame), e, h)
PROOF
<1> DEFINE i == e.index
           heard(type) == HeardInMaps(codec, frame, type, i)
           ctl == UnpackControls(codec, frame)
<1>1. /\ ctl.switch[i] = IF heard("SWITCH") = Undeclared THEN "NO_CHANGE"
                         ELSE DemandOf(SwitchWire, heard("SWITCH"))
      /\ ctl.signal[i] = IF heard("SIGNAL") = Undeclared THEN "NO_CHANGE"
                         ELSE DemandOf(SignalWire, heard("SIGNAL"))
      /\ ctl.lock[i] = IF heard("ELECTRIC_LOCK") = Undeclared THEN "NO_CHANGE"
                       ELSE IF heard("ELECTRIC_LOCK") = {} THEN "LOCK" ELSE "UNLOCK"
      /\ ctl.maintainer[i] = IF heard("MAINTAINER") = Undeclared THEN FALSE
                             ELSE heard("MAINTAINER") # {}
  BY DEF UnpackControls, ControlsHeard
<1>2. heard(e.type) = h
  OBVIOUS
<1> HIDE DEF heard, ctl
<1>3. /\ e.type = "SWITCH" => ctl.switch[i] = DemandOf(SwitchWire, h)
      /\ e.type = "SIGNAL" => ctl.signal[i] = DemandOf(SignalWire, h)
      /\ e.type = "ELECTRIC_LOCK" => ctl.lock[i] = IF h = {} THEN "LOCK" ELSE "UNLOCK"
  BY <1>1, <1>2
<1>4. e.type = "MAINTAINER" => ctl.maintainer[i] = (h # {})
  BY <1>1, <1>2
<1> QED
  BY <1>3, <1>4 DEF TakenFor, ctl

\* A frame is unpacked as it was packed: when its bits say, map by map, what
\* the appliances assert, and no appliance asserts two things at once, then it
\* is accepted and its transaction asserts the same.
THEOREM UnpackedAsPacked ==
    ASSUME NEW schema, Controllable(schema), MaxEntries \in Nat, Len(schema) <= MaxEntries,
           NEW codec, codec = DeclareBits(NoBits(0), schema, ControlRoles),
           NEW asserted, OfSchema(schema, ControlRoles, asserted),
           \A i \in DOMAIN schema : Consistent(schema[i].type, asserted[i]),
           NEW frame, frame.bytes = codec.bytes, codec.bytes \in Nat,
           \A i \in DOMAIN schema :
               HeardBits(MapsOf(schema, ControlRoles)[i], frame) = asserted[i]
    PROVE  /\ UnpackAccepts(codec, frame)
           /\ UnpackControls(codec, frame).vitalValid
           /\ \A i \in DOMAIN schema :
                 AssertedControls(schema[i], UnpackControls(codec, frame)) = asserted[i]
PROOF
<1>1. PICK maps : maps = MapsOf(schema, ControlRoles)
  OBVIOUS
<1>2. codec.maps = maps
  BY <1>1, SchemasWired, MapsComplete
<1>3. /\ DOMAIN maps = DOMAIN schema
      /\ \A n \in DOMAIN maps : maps[n].type = schema[n].type
  BY <1>1 DEF MapsOf
<1>4. UnpackAccepts(codec, frame)
  <2>1. ASSUME NEW m \in Range(codec.maps)
        PROVE  Consistent(m.type, HeardBits(m, frame))
    <3>1. PICK n \in DOMAIN maps : m = maps[n]
      BY <1>2, <2>1 DEF Range
    <3> QED
      BY <1>1, <1>3, <3>1
  <2>2. frame.bytes >= codec.bytes
    OBVIOUS
  <2> QED
    BY <2>1, <2>2 DEF UnpackAccepts
<1>5. UnpackControls(codec, frame).vitalValid = UnpackAccepts(codec, frame)
  BY Zenon DEF UnpackControls, ControlsHeard
<1>6. ASSUME NEW i \in DOMAIN schema
      PROVE  AssertedControls(schema[i], UnpackControls(codec, frame)) = asserted[i]
  <2>1. PICK e : e = schema[i]
    OBVIOUS
  <2>2. PICK h : h = asserted[i]
    OBVIOUS
  <2>3. HeardInMaps(codec, frame, e.type, e.index) = h
    <3>1. HeardInMaps(codec, frame, schema[i].type, schema[i].index) = HeardBits(maps[i], frame)
      <4>1. Wired(schema, ControlRoles)
        BY SchemasWired
      <4> QED
        BY <1>1, <1>2, <4>1, HeardInMapFor
    <3>2. HeardBits(maps[i], frame) = h
      BY <1>1, <2>2
    <3> QED
      BY <2>1, <3>1, <3>2
  <2>4. e.type \in ControlTypes /\ e.index \in Indices
    BY <2>1 DEF Controllable, ControlTypes
  <2>5. h \subseteq Range(ControlRoles[e.type]) /\ Consistent(e.type, h)
    BY <2>1, <2>2 DEF OfSchema, RolesOf
  <2>6. h # Undeclared
    BY <2>4, <2>5, RolesDeclared
  <2>7. TakenFor(UnpackControls(codec, frame), e, h)
    BY <2>3, <2>4, <2>6, FrameTransaction
  <2>8. AssertedControls(e, UnpackControls(codec, frame)) = h
    BY <2>4, <2>5, <2>7, AssertsTaken
  <2> QED
    BY <2>1, <2>2, <2>8
<1> QED
  BY <1>4, <1>5, <1>6

-----------------------------------------------------------------------------
(* Indications: what either codec makes of the state of a plant.           *)

\* The lists of an indication's roles hold these.
LEMMA IndicationRoleFacts ==
    /\ Range(IndicationRoles.SWITCH) = {"NW", "RW"}
    /\ Range(IndicationRoles.TRACK) = {Sole}
    /\ Range(IndicationRoles.SIGNAL) = {"SG", "NG", "TE"}
    /\ Range(IndicationRoles.ELECTRIC_LOCK) = {"WL"}
    /\ Range(IndicationRoles.MAINTAINER) = {Sole}
PROOF
<1>1. \A a : Range(<<a>>) = {a}
  <2> TAKE a
  <2>1. DOMAIN <<a>> = {1} /\ <<a>>[1] = a
    OBVIOUS
  <2> QED
    BY <2>1 DEF Range
<1>2. \A a, b : Range(<<a, b>>) = {a, b}
  <2> TAKE a, b
  <2>1. DOMAIN <<a, b>> = {1, 2} /\ <<a, b>>[1] = a /\ <<a, b>>[2] = b
    OBVIOUS
  <2> QED
    BY <2>1 DEF Range
<1>3. \A a, b, c : Range(<<a, b, c>>) = {a, b, c}
  <2> TAKE a, b, c
  <2>1. /\ DOMAIN <<a, b, c>> = {1, 2, 3}
        /\ <<a, b, c>>[1] = a /\ <<a, b, c>>[2] = b /\ <<a, b, c>>[3] = c
    OBVIOUS
  <2> QED
    BY <2>1 DEF Range
<1> QED
  BY <1>1, <1>2, <1>3 DEF IndicationRoles

\* What the vector has of the appliance e is what the functions h stand for.
Tells(ind, e, h) ==
    LET n == e.index IN
    /\ e.type = "SWITCH" => /\ ind.switches[n].kr = (h # {})
                            /\ h # {} => ind.switches[n].position = DemandOf(SwitchWire, h)
    /\ e.type = "TRACK" => /\ n < ind.trackCount
                           /\ (ind.tracks[n] = "OCCUPIED") = ((h # {}) = e.activeHigh)
    /\ e.type = "SIGNAL" => /\ ind.signals[n].authority =
                                   IF h \subseteq {"TE"} THEN "STOP"
                                   ELSE DemandOf(SignalWire, h \ {"TE"})
                            /\ ind.signals[n].timeLocked = ("TE" \in h)
    /\ e.type = "ELECTRIC_LOCK" => ind.switches[n].unlocked = (h # {})
    /\ e.type = "MAINTAINER" => ind.maintainer[n] = (h # {})

\* Two vectors have the same state of an appliance, each under its own number.
Alike(ind, e, from, d) ==
    LET n == e.index
        m == d.index
    IN /\ e.type = "SWITCH" =>
             /\ ind.switches[n].kr = from.switches[m].kr
             /\ from.switches[m].kr => ind.switches[n].position = from.switches[m].position
       /\ e.type = "TRACK" => /\ n < ind.trackCount /\ m < from.trackCount
                              /\ (ind.tracks[n] = "OCCUPIED") = (from.tracks[m] = "OCCUPIED")
       /\ e.type = "SIGNAL" =>
             /\ ind.signals[n].authority = from.signals[m].authority
             /\ ind.signals[n].timeLocked = from.signals[m].timeLocked
       /\ e.type = "ELECTRIC_LOCK" => ind.switches[n].unlocked = from.switches[m].unlocked
       /\ e.type = "MAINTAINER" => ind.maintainer[n] = from.maintainer[m]

\* What a covered appliance asserts in each of its states, type by type.
Stated(ind, e, h) ==
    LET n == e.index IN
    /\ e.type = "SWITCH" =>
          /\ ind.switches[n].kr \in BOOLEAN
          /\ \/ ~ind.switches[n].kr /\ h = {}
             \/ ind.switches[n].kr /\ ind.switches[n].position = "NORMAL" /\ h = {"NW"}
             \/ ind.switches[n].kr /\ ind.switches[n].position = "REVERSE" /\ h = {"RW"}
    /\ e.type = "TRACK" =>
          /\ n < ind.trackCount /\ e.activeHigh \in BOOLEAN
          /\ h = IF (ind.tracks[n] = "OCCUPIED") = e.activeHigh THEN {Sole} ELSE {}
    /\ e.type = "SIGNAL" =>
          LET te == IF ind.signals[n].timeLocked THEN {"TE"} ELSE {} IN
          /\ ind.signals[n].timeLocked \in BOOLEAN
          /\ \/ ind.signals[n].authority = "STOP" /\ h = te
             \/ ind.signals[n].authority = "RIGHT" /\ h = {"SG"} \cup te
             \/ ind.signals[n].authority = "LEFT" /\ h = {"NG"} \cup te
    /\ e.type = "ELECTRIC_LOCK" =>
          /\ ind.switches[n].unlocked \in BOOLEAN
          /\ h = IF ind.switches[n].unlocked THEN {"WL"} ELSE {}
    /\ e.type = "MAINTAINER" =>
          /\ ind.maintainer[n] \in BOOLEAN
          /\ h = IF ind.maintainer[n] THEN {Sole} ELSE {}

\* A covered appliance asserts its state.
LEMMA IndicatedFor ==
    ASSUME NEW schema, Indicable(schema), NEW ind, Covers(ind, schema),
           NEW i \in DOMAIN schema, NEW e, e = schema[i], NEW h, h = AssertedIndications(e, ind)
    PROVE  Stated(ind, e, h)
PROOF
<1>1. PICK n : n = e.index
  OBVIOUS
<1>2. e.type \in IndicationTypes /\ e.activeHigh \in BOOLEAN
  BY DEF Indicable, IndicationTypes
<1>3. CASE e.type = "SWITCH"
  <2>1. /\ n < ind.switchCount /\ ind.switches[n].kr \in BOOLEAN
        /\ ind.switches[n].kr => ind.switches[n].position \in {"NORMAL", "REVERSE"}
    BY <1>1, <1>3 DEF Covers
  <2>2. h = IF ind.switches[n].kr THEN SwitchWire[ind.switches[n].position] ELSE {}
    BY <1>1, <1>3, <2>1 DEF AssertedIndications
  <2>3. SwitchWire["NORMAL"] = {"NW"} /\ SwitchWire["REVERSE"] = {"RW"}
    BY DEF SwitchWire
  <2> QED
    BY <1>1, <1>3, <2>1, <2>2, <2>3 DEF Stated
<1>4. CASE e.type = "TRACK"
  <2>1. n < ind.trackCount
    BY <1>1, <1>4 DEF Covers
  <2>2. h = IF (ind.tracks[n] = "OCCUPIED") = e.activeHigh THEN {Sole} ELSE {}
    BY <1>1, <1>4, <2>1 DEF AssertedIndications
  <2> QED
    BY <1>1, <1>2, <1>4, <2>1, <2>2 DEF Stated
<1>5. CASE e.type = "SIGNAL"
  <2> DEFINE te == IF ind.signals[n].timeLocked THEN {"TE"} ELSE {}
  <2>1. /\ n < ind.signalCount /\ ind.signals[n].timeLocked \in BOOLEAN
        /\ ind.signals[n].authority \in {"LEFT", "RIGHT", "STOP"}
    BY <1>1, <1>5 DEF Covers
  <2>2. h = (IF ind.signals[n].authority = "STOP" THEN {}
             ELSE SignalWire[ind.signals[n].authority]) \cup te
    BY <1>1, <1>5, <2>1 DEF AssertedIndications
  <2>3. SignalWire["RIGHT"] = {"SG"} /\ SignalWire["LEFT"] = {"NG"}
    BY DEF SignalWire
  <2>4. \/ ind.signals[n].authority = "STOP" /\ h = te
        \/ ind.signals[n].authority = "RIGHT" /\ h = {"SG"} \cup te
        \/ ind.signals[n].authority = "LEFT" /\ h = {"NG"} \cup te
    BY <2>1, <2>2, <2>3
  <2> QED
    BY <1>1, <1>5, <2>1, <2>4 DEF Stated
<1>6. CASE e.type = "ELECTRIC_LOCK"
  <2>1. n < ind.switchCount /\ ind.switches[n].unlocked \in BOOLEAN
    BY <1>1, <1>6 DEF Covers
  <2>2. h = IF ind.switches[n].unlocked THEN {"WL"} ELSE {}
    BY <1>1, <1>6, <2>1 DEF AssertedIndications
  <2> QED
    BY <1>1, <1>6, <2>1, <2>2 DEF Stated
<1>7. CASE e.type = "MAINTAINER"
  <2>1. ind.maintainer[n] \in BOOLEAN
    BY <1>1, <1>7 DEF Covers
  <2>2. h = IF ind.maintainer[n] THEN {Sole} ELSE {}
    BY <1>1, <1>7 DEF AssertedIndications
  <2> QED
    BY <1>1, <1>7, <2>1, <2>2 DEF Stated
<1> QED
  BY <1>2, <1>3, <1>4, <1>5, <1>6, <1>7 DEF IndicationTypes

\* A covered appliance asserts functions of its type, and none that exclude
\* each other.
LEMMA IndicatedWell ==
    ASSUME NEW schema, Indicable(schema), NEW ind, Covers(ind, schema),
           NEW i \in DOMAIN schema, NEW h, h = AssertedIndications(schema[i], ind)
    PROVE  /\ h \subseteq RolesOf(schema, IndicationRoles, i)
           /\ Consistent(schema[i].type, h)
PROOF
<1>1. PICK e : e = schema[i]
  OBVIOUS
<1>2. e.type \in IndicationTypes
  BY <1>1 DEF Indicable, IndicationTypes
<1>0. Stated(ind, e, h)
  BY <1>1, IndicatedFor
<1>3. ASSUME NEW E, NEW x, h \cap E = {x} \/ h \cap E = {}
      PROVE  Cardinality(h \cap E) <= 1
  <2>1. Cardinality({x}) = 1 /\ Cardinality({}) = 0
    BY FS_Singleton, FS_EmptySet
  <2> QED
    BY <1>3, <2>1
<1>4. CASE e.type = "SWITCH"
  <2>1. h = {} \/ h = {"NW"} \/ h = {"RW"}
    BY <1>0, <1>1, <1>4 DEF Stated
  <2>2. \E x : h \cap {"NW", "RW"} = {x} \/ h \cap {"NW", "RW"} = {}
    BY <2>1
  <2>3. Cardinality(h \cap {"NW", "RW"}) <= 1
    BY <1>3, <2>2
  <2>4. Consistent(e.type, h)
    BY <1>4, <2>3 DEF Consistent, Exclusive
  <2> QED
    BY <1>1, <1>4, <2>1, <2>4, IndicationRoleFacts DEF RolesOf
<1>5. CASE e.type = "SIGNAL"
  <2>1. PICK te : /\ te = {} \/ te = {"TE"}
                  /\ h = te \/ h = {"SG"} \cup te \/ h = {"NG"} \cup te
    BY <1>0, <1>1, <1>5 DEF Stated
  <2>2. h \subseteq {"SG", "NG", "TE"}
    BY <2>1
  <2>3. \E x : h \cap {"SG", "NG", "H"} = {x} \/ h \cap {"SG", "NG", "H"} = {}
    BY <2>1
  <2>4. Cardinality(h \cap {"SG", "NG", "H"}) <= 1
    BY <1>3, <2>3
  <2>5. Consistent(e.type, h)
    BY <1>5, <2>4 DEF Consistent, Exclusive
  <2> QED
    BY <1>1, <1>5, <2>2, <2>5, IndicationRoleFacts DEF RolesOf
<1>6. CASE e.type \in {"TRACK", "ELECTRIC_LOCK", "MAINTAINER"}
  <2>1. Consistent(e.type, h)
    BY <1>6 DEF Consistent, Exclusive
  <2>2. /\ e.type \in {"TRACK", "MAINTAINER"} => h \subseteq {Sole}
        /\ e.type = "ELECTRIC_LOCK" => h \subseteq {"WL"}
    BY <1>0, <1>1 DEF Stated
  <2> QED
    BY <1>1, <1>6, <2>1, <2>2, IndicationRoleFacts DEF RolesOf
<1> QED
  BY <1>2, <1>4, <1>5, <1>6 DEF IndicationTypes

\* A vector that tells what an appliance asserts is like the one it was told from.
LEMMA ToldAlike ==
    ASSUME NEW schema, Indicable(schema), NEW from, Covers(from, schema),
           NEW i \in DOMAIN schema, NEW d, d = schema[i], NEW h, h = AssertedIndications(d, from),
           NEW e, e.type = d.type, e.activeHigh = d.activeHigh, NEW ind, Tells(ind, e, h)
    PROVE  Alike(ind, e, from, d)
PROOF
<1>1. PICK n, m : n = e.index /\ m = d.index
  OBVIOUS
<1>0. Stated(from, d, h)
  BY IndicatedFor
<1>2. CASE e.type = "SWITCH"
  <2>1. /\ ind.switches[n].kr = (h # {})
        /\ h # {} => ind.switches[n].position = DemandOf(SwitchWire, h)
    BY <1>1, <1>2 DEF Tells
  <2>2. DemandOf(SwitchWire, {"NW"}) = "NORMAL" /\ DemandOf(SwitchWire, {"RW"}) = "REVERSE"
    BY DEF DemandOf, SwitchWire
  <2>3. /\ from.switches[m].kr \in BOOLEAN
        /\ \/ ~from.switches[m].kr /\ h = {}
           \/ from.switches[m].kr /\ from.switches[m].position = "NORMAL" /\ h = {"NW"}
           \/ from.switches[m].kr /\ from.switches[m].position = "REVERSE" /\ h = {"RW"}
    BY <1>0, <1>1, <1>2 DEF Stated
  <2>4. /\ ind.switches[n].kr = from.switches[m].kr
        /\ from.switches[m].kr => ind.switches[n].position = from.switches[m].position
    BY <2>1, <2>2, <2>3
  <2> QED
    BY <1>1, <1>2, <2>4 DEF Alike
<1>3. CASE e.type = "TRACK"
  <2>1. n < ind.trackCount /\ (ind.tracks[n] = "OCCUPIED") = ((h # {}) = e.activeHigh)
    BY <1>1, <1>3 DEF Tells
  <2>2. /\ m < from.trackCount /\ e.activeHigh \in BOOLEAN
        /\ h = IF (from.tracks[m] = "OCCUPIED") = e.activeHigh THEN {Sole} ELSE {}
    BY <1>0, <1>1, <1>3 DEF Stated
  <2>3. (h # {}) = ((from.tracks[m] = "OCCUPIED") = e.activeHigh)
    BY <2>2
  <2>4. (ind.tracks[n] = "OCCUPIED") = (from.tracks[m] = "OCCUPIED")
    BY <2>1, <2>2, <2>3
  <2> QED
    BY <1>1, <1>3, <2>1, <2>2, <2>4 DEF Alike
<1>4. CASE e.type = "SIGNAL"
  <2>1. /\ ind.signals[n].authority = IF h \subseteq {"TE"} THEN "STOP"
                                      ELSE DemandOf(SignalWire, h \ {"TE"})
        /\ ind.signals[n].timeLocked = ("TE" \in h)
    BY <1>1, <1>4 DEF Tells
  <2>2. DemandOf(SignalWire, {"SG"}) = "RIGHT" /\ DemandOf(SignalWire, {"NG"}) = "LEFT"
    BY DEF DemandOf, SignalWire
  <2>3. PICK te : /\ te = IF from.signals[m].timeLocked THEN {"TE"} ELSE {}
                  /\ from.signals[m].timeLocked \in BOOLEAN
                  /\ \/ from.signals[m].authority = "STOP" /\ h = te
                     \/ from.signals[m].authority = "RIGHT" /\ h = {"SG"} \cup te
                     \/ from.signals[m].authority = "LEFT" /\ h = {"NG"} \cup te
    BY <1>0, <1>1, <1>4 DEF Stated
  <2>4. ("TE" \in h) = from.signals[m].timeLocked
    BY <2>3
  <2>5. /\ h = te => h \subseteq {"TE"}
        /\ h = {"SG"} \cup te => ~(h \subseteq {"TE"}) /\ h \ {"TE"} = {"SG"}
        /\ h = {"NG"} \cup te => ~(h \subseteq {"TE"}) /\ h \ {"TE"} = {"NG"}
    BY <2>3
  <2>6. ind.signals[n].authority = from.signals[m].authority
    BY <2>1, <2>2, <2>3, <2>5
  <2> QED
    BY <1>1, <1>4, <2>1, <2>4, <2>6 DEF Alike
<1>5. CASE e.type = "ELECTRIC_LOCK"
  <2>1. ind.switches[n].unlocked = (h # {})
    BY <1>1, <1>5 DEF Tells
  <2>2. /\ from.switches[m].unlocked \in BOOLEAN
        /\ h = IF from.switches[m].unlocked THEN {"WL"} ELSE {}
    BY <1>0, <1>1, <1>5 DEF Stated
  <2>3. ind.switches[n].unlocked = from.switches[m].unlocked
    BY <2>1, <2>2
  <2> QED
    BY <1>1, <1>5, <2>3 DEF Alike
<1>6. CASE e.type = "MAINTAINER"
  <2>1. ind.maintainer[n] = (h # {})
    BY <1>1, <1>6 DEF Tells
  <2>2. from.maintainer[m] \in BOOLEAN /\ h = IF from.maintainer[m] THEN {Sole} ELSE {}
    BY <1>0, <1>1, <1>6 DEF Stated
  <2>3. ind.maintainer[n] = from.maintainer[m]
    BY <2>1, <2>2
  <2> QED
    BY <1>1, <1>6, <2>3 DEF Alike
<1>7. e.type \in IndicationTypes
  BY DEF Indicable, IndicationTypes
<1> QED
  BY <1>2, <1>3, <1>4, <1>5, <1>6, <1>7 DEF IndicationTypes

\* A number that is declared is below the count of its type.
LEMMA CountReaches ==
    ASSUME NEW entries, \A x \in entries : x.index \in Indices, NEW e \in entries
    PROVE  e.index < CountOf(entries, e.type)
PROOF
<1>1. PICK n \in Nat : Indices = 0 .. n - 1
  BY IndexAssumption, FS_CardinalityType
<1>2. PICK S : S = {0} \cup {x.index + 1 : x \in {d \in entries : d.type = e.type}}
  OBVIOUS
<1>3. S \subseteq 0 .. n /\ e.index + 1 \in S /\ e.index \in Nat
  BY <1>1, <1>2
<1>4. \E x \in S : \A y \in S : x >= y
  <2> DEFINE T == {n - x : x \in S}
  <2>1. T \subseteq Nat /\ T # {}
    BY <1>3
  <2>2. PICK t \in T : \A y \in T : t <= y
    <3> HIDE DEF T
    <3> QED
      BY <2>1, LeastNumber
  <2>3. PICK x \in S : t = n - x
    OBVIOUS
  <2>4. \A y \in S : n - x <= n - y
    BY <2>2, <2>3
  <2> QED
    BY <1>3, <2>3, <2>4
<1>5. Max(S) \in S /\ \A y \in S : Max(S) >= y
  BY <1>4 DEF Max
<1>6. PICK m : m = Max(S)
  OBVIOUS
<1>7. PICK k : k = e.index
  OBVIOUS
<1>8. m \in 0 .. n /\ m >= k + 1 /\ k \in Nat
  BY <1>3, <1>5, <1>6, <1>7
<1>9. k < m
  BY <1>8
<1>10. CountOf(entries, e.type) = m
  BY <1>2, <1>6 DEF CountOf
<1> QED
  BY <1>7, <1>9, <1>10

\* What the vector of these entries has under the number n when these functions
\* are heard for the switch, the circuit, the signal, the lock and the call n.
HeardAt(ind, entries, n, sw, tr, sg, lk, mc) ==
    LET high == \A x \in entries : x.type = "TRACK" /\ x.index = n => x.activeHigh IN
    /\ ind.trackCount = CountOf(entries, "TRACK")
    /\ ind.switches[n].kr = IF sw = Undeclared THEN FALSE ELSE sw # {}
    /\ ind.switches[n].position =
           IF sw = Undeclared THEN "UNKNOWN"
           ELSE IF sw = {} THEN "UNKNOWN" ELSE DemandOf(SwitchWire, sw)
    /\ ind.switches[n].unlocked = IF lk = Undeclared THEN FALSE ELSE lk # {}
    /\ ind.tracks[n] = IF tr = Undeclared THEN "VACANT"
                       ELSE IF (tr # {}) = high THEN "OCCUPIED" ELSE "VACANT"
    /\ ind.signals[n].authority =
           IF sg = Undeclared THEN "STOP"
           ELSE IF sg \subseteq {"TE"} THEN "STOP" ELSE DemandOf(SignalWire, sg \ {"TE"})
    /\ ind.signals[n].timeLocked = IF sg = Undeclared THEN FALSE ELSE "TE" \in sg
    /\ ind.maintainer[n] = IF mc = Undeclared THEN FALSE ELSE mc # {}

\* The vector that is decoded from a text.
LEMMA DecodedVector ==
    ASSUME NEW schema, NEW text, NEW n \in Indices
    PROVE  HeardAt(DecodeIndications(schema, text), Range(schema), n,
                   HeardFor(schema, IndicationRoles, "K", text, "SWITCH", n),
                   HeardFor(schema, IndicationRoles, "K", text, "TRACK", n),
                   HeardFor(schema, IndicationRoles, "K", text, "SIGNAL", n),
                   HeardFor(schema, IndicationRoles, "K", text, "ELECTRIC_LOCK", n),
                   HeardFor(schema, IndicationRoles, "K", text, "MAINTAINER", n))
  BY Zenon DEF DecodeIndications, IndicationsHeard, HeardAt

\* The vector that is unpacked from a frame.
LEMMA UnpackedVector ==
    ASSUME NEW codec, NEW frame, NEW n \in Indices
    PROVE  HeardAt(UnpackIndications(codec, frame), Range(codec.maps), n,
                   HeardInMaps(codec, frame, "SWITCH", n),
                   HeardInMaps(codec, frame, "TRACK", n),
                   HeardInMaps(codec, frame, "SIGNAL", n),
                   HeardInMaps(codec, frame, "ELECTRIC_LOCK", n),
                   HeardInMaps(codec, frame, "MAINTAINER", n))
  BY Zenon DEF UnpackIndications, IndicationsHeard, HeardAt

\* It tells, of one of its entries, what was heard for it.
LEMMA VectorTells ==
    ASSUME NEW entries, \A x \in entries : x.index \in Indices,
           NEW e \in entries, e.activeHigh \in BOOLEAN,
           \A x \in entries : x.type = e.type /\ x.index = e.index => x.activeHigh = e.activeHigh,
           NEW sw, NEW tr, NEW sg, NEW lk, NEW mc,
           NEW ind, HeardAt(ind, entries, e.index, sw, tr, sg, lk, mc),
           NEW h, h # Undeclared,
           e.type = "SWITCH" => sw = h, e.type = "TRACK" => tr = h, e.type = "SIGNAL" => sg = h,
           e.type = "ELECTRIC_LOCK" => lk = h, e.type = "MAINTAINER" => mc = h
    PROVE  Tells(ind, e, h)
PROOF
<1>1. PICK n : n = e.index
  OBVIOUS
<1>2. e.type = "SWITCH" => /\ ind.switches[n].kr = (h # {})
                           /\ h # {} => ind.switches[n].position = DemandOf(SwitchWire, h)
  BY <1>1 DEF HeardAt
<1>3. ASSUME e.type = "TRACK"
      PROVE  n < ind.trackCount /\ (ind.tracks[n] = "OCCUPIED") = ((h # {}) = e.activeHigh)
  <2> DEFINE high == \A x \in entries : x.type = "TRACK" /\ x.index = n => x.activeHigh
  <2>1. ind.trackCount = CountOf(entries, e.type)
    BY <1>3 DEF HeardAt
  <2>2. n < ind.trackCount
    BY <1>1, <2>1, CountReaches
  <2>3. high = e.activeHigh
    BY <1>1, <1>3
  <2>4. ind.tracks[n] = IF (h # {}) = high THEN "OCCUPIED" ELSE "VACANT"
    BY <1>1, <1>3 DEF HeardAt
  <2> HIDE DEF high
  <2> QED
    BY <2>2, <2>3, <2>4
<1>4. e.type = "SIGNAL" =>
          /\ ind.signals[n].authority = IF h \subseteq {"TE"} THEN "STOP"
                                        ELSE DemandOf(SignalWire, h \ {"TE"})
          /\ ind.signals[n].timeLocked = ("TE" \in h)
  BY <1>1 DEF HeardAt
<1>5. /\ e.type = "ELECTRIC_LOCK" => ind.switches[n].unlocked = (h # {})
      /\ e.type = "MAINTAINER" => ind.maintainer[n] = (h # {})
  BY <1>1 DEF HeardAt
<1> QED
  BY <1>1, <1>2, <1>3, <1>4, <1>5 DEF Tells

\* Functions of an appliance are not taken for those of one that nobody declared.
LEMMA IndicationsDeclared ==
    ASSUME NEW schema, Indicable(schema), NEW i \in DOMAIN schema,
           NEW h, h \subseteq RolesOf(schema, IndicationRoles, i)
    PROVE  h # Undeclared
PROOF
<1>1. schema[i].type \in IndicationTypes
  BY DEF Indicable, IndicationTypes
<1>2. "undeclared" \notin h
  BY <1>1, IndicationRoleFacts DEF IndicationTypes, RolesOf, Sole
<1> QED
  BY <1>2 DEF Undeclared

\* An indication text is accepted at the other end, and gives every appliance the
\* state that the plant has, whatever numbers the two ends use.
THEOREM IndicationsRead ==
    ASSUME NEW written, Indicable(written), NEW schema, Indicable(schema),
           SameWire(written, schema),
           \A i \in DOMAIN schema : written[i].activeHigh = schema[i].activeHigh,
           NEW ind, Covers(ind, written), NEW text, text = EncodeIndications(written, ind)
    PROVE  /\ IndicationsAccepted(schema, text)
           /\ \A i \in DOMAIN schema :
                 Alike(DecodeIndications(schema, text), schema[i], ind, written[i])
PROOF
<1>1. PICK asserted : asserted = [i \in DOMAIN written |-> AssertedIndications(written[i], ind)]
  OBVIOUS
<1>2. /\ DOMAIN written = DOMAIN schema
      /\ \A i \in DOMAIN schema : /\ written[i].type = schema[i].type
                                  /\ asserted[i] = AssertedIndications(written[i], ind)
  BY <1>1 DEF SameWire
<1>3. IsSchema(schema, IndicationRoles) /\ Wired(schema, IndicationRoles)
  BY SchemasWired DEF Indicable
<1>4. /\ OfSchema(schema, IndicationRoles, asserted)
      /\ \A i \in DOMAIN schema : Consistent(schema[i].type, asserted[i])
  <2>1. ASSUME NEW i \in DOMAIN schema
        PROVE  /\ asserted[i] \subseteq RolesOf(schema, IndicationRoles, i)
               /\ Consistent(schema[i].type, asserted[i])
    <3>1. /\ asserted[i] \subseteq RolesOf(written, IndicationRoles, i)
          /\ Consistent(written[i].type, asserted[i])
      BY <1>2, IndicatedWell
    <3> QED
      BY <1>2, <3>1 DEF RolesOf
  <2> QED
    BY <2>1 DEF OfSchema
<1>5. text = WriteTokens(written, IndicationRoles, "K", asserted)
  BY <1>1 DEF EncodeIndications
<1>6. /\ Accepted(schema, IndicationRoles, "K", text)
      /\ Asserts(schema, IndicationRoles, text, asserted)
  BY <1>3, <1>4, <1>5, WholeAccepted, WholeAsserts
<1>7. ASSUME NEW i \in DOMAIN schema
      PROVE  Alike(DecodeIndications(schema, text), schema[i], ind, written[i])
  <2>1. PICK e, h : e = schema[i] /\ h = asserted[i]
    OBVIOUS
  <2>2. HeardFor(schema, IndicationRoles, "K", text, e.type, e.index) = h
    BY <1>3, <1>6, <2>1, HeardForEntry DEF Asserts
  <2>3. h # Undeclared
    BY <1>4, <2>1, IndicationsDeclared DEF OfSchema
  <2>4. /\ e \in Range(schema) /\ e.index \in Indices /\ e.activeHigh \in BOOLEAN
        /\ \A x \in Range(schema) : x.index \in Indices
    BY <2>1 DEF Range, Indicable
  <2>5. \A x \in Range(schema) : x.type = e.type /\ x.index = e.index => x.activeHigh = e.activeHigh
    BY <2>1 DEF Range, Indicable
  <2>6. PICK out : out = DecodeIndications(schema, text)
    OBVIOUS
  <2>7. HeardAt(out, Range(schema), e.index,
                HeardFor(schema, IndicationRoles, "K", text, "SWITCH", e.index),
                HeardFor(schema, IndicationRoles, "K", text, "TRACK", e.index),
                HeardFor(schema, IndicationRoles, "K", text, "SIGNAL", e.index),
                HeardFor(schema, IndicationRoles, "K", text, "ELECTRIC_LOCK", e.index),
                HeardFor(schema, IndicationRoles, "K", text, "MAINTAINER", e.index))
    BY <2>4, <2>6, DecodedVector
  <2>8. Tells(out, e, h)
    BY <2>2, <2>3, <2>4, <2>5, <2>7, VectorTells
  <2> QED
    BY <1>2, <2>1, <2>6, <2>8, ToldAlike
<1> QED
  BY <1>6, <1>7 DEF IndicationsAccepted

\* The frame has the bits of these functions of the entries D, and no others.
HasBits(frame, maps, asserted, D) ==
    frame.bits = UNION {{maps[n].first + k - 1 :
                            k \in {j \in DOMAIN maps[n].roles : maps[n].roles[j] \in asserted[n]}} :
                           n \in D}

\* Such a frame is heard so.
LEMMA PackedHeard ==
    ASSUME NEW schema, NEW roles, Wired(schema, roles),
           \A i \in DOMAIN schema : schema[i].skip \in Nat,
           NEW maps, maps = MapsOf(schema, roles),
           NEW asserted, OfSchema(schema, roles, asserted),
           NEW frame, HasBits(frame, maps, asserted, DOMAIN schema), NEW i \in DOMAIN schema
    PROVE  HeardBits(maps[i], frame) = asserted[i]
PROOF
<1>1. PICK start : start = StartBit(schema, roles)
  OBVIOUS
<1> DEFINE list(n) == roles[schema[n].type]
<1>2. \A n \in DOMAIN schema : maps[n].roles = list(n) /\ maps[n].first = start[n]
  BY <1>1 DEF MapsOf, BitsOf, Wired
<1>3. ASSUME NEW k \in DOMAIN list(i)
      PROVE  start[i] + k - 1 \in frame.bits <=> list(i)[k] \in asserted[i]
  <2>1. ASSUME list(i)[k] \in asserted[i]
        PROVE  start[i] + k - 1 \in frame.bits
    BY <1>2, <2>1 DEF HasBits
  <2>2. ASSUME start[i] + k - 1 \in frame.bits
        PROVE  list(i)[k] \in asserted[i]
    <3>1. PICK n \in DOMAIN schema :
              \E j \in DOMAIN list(n) : /\ list(n)[j] \in asserted[n]
                                        /\ start[i] + k - 1 = start[n] + j - 1
      BY <1>2, <2>2 DEF HasBits
    <3>2. PICK j \in DOMAIN list(n) : /\ list(n)[j] \in asserted[n]
                                      /\ start[i] + k - 1 = start[n] + j - 1
      BY <3>1
    <3>3. i = n /\ k = j
      BY <1>1, <3>2, BitsApart
    <3> QED
      BY <3>2, <3>3
  <2> QED
    BY <2>1, <2>2
<1>4. asserted[i] \subseteq Range(list(i))
  BY DEF OfSchema, RolesOf
<1>5. HeardBits(maps[i], frame) =
          {list(i)[k] : k \in {j \in DOMAIN list(i) : start[i] + j - 1 \in frame.bits}}
  BY <1>2 DEF HeardBits
<1> HIDE DEF list
<1> QED
  BY <1>3, <1>4, <1>5 DEF Range

\* An indication frame gives every appliance the state that the plant has.
THEOREM IndicationsUnpacked ==
    ASSUME NEW schema, Indicable(schema), \A i \in DOMAIN schema : schema[i].skip \in Nat,
           MaxEntries \in Nat, Len(schema) <= MaxEntries,
           NEW codec, codec = DeclareBits(NoBits(0), schema, IndicationRoles),
           NEW ind, Covers(ind, schema), NEW frame, frame = PackIndications(codec, ind)
    PROVE  \A i \in DOMAIN schema :
              Alike(UnpackIndications(codec, frame), schema[i], ind, schema[i])
PROOF
<1>1. PICK asserted : asserted = [i \in DOMAIN schema |-> AssertedIndications(schema[i], ind)]
  OBVIOUS
<1>2. PICK maps : maps = MapsOf(schema, IndicationRoles)
  OBVIOUS
<1>3. Wired(schema, IndicationRoles)
  BY SchemasWired
<1>4. codec.maps = maps
  BY <1>2, <1>3, MapsComplete
<1>5. /\ DOMAIN maps = DOMAIN schema
      /\ \A n \in DOMAIN schema : /\ maps[n].type = schema[n].type
                                  /\ maps[n].index = schema[n].index
                                  /\ maps[n].activeHigh = schema[n].activeHigh
  BY <1>2 DEF MapsOf
<1>6. OfSchema(schema, IndicationRoles, asserted)
  BY <1>1, IndicatedWell DEF OfSchema
<1>7. \A n \in DOMAIN schema : AssertedIndications(maps[n], ind) = asserted[n]
  BY <1>1, <1>5 DEF AssertedIndications
<1>8. HasBits(frame, maps, asserted, DOMAIN schema)
  <2> DEFINE bits(m, a) == {m.first + k - 1 : k \in {j \in DOMAIN m.roles : m.roles[j] \in a}}
  <2>1. frame.bits = UNION {bits(m, AssertedIndications(m, ind)) : m \in Range(codec.maps)}
    BY DEF PackIndications, PackedBits
  <2>2. Range(codec.maps) = {maps[n] : n \in DOMAIN schema}
    BY <1>4, <1>5 DEF Range
  <2> HIDE DEF bits
  <2>3. frame.bits = UNION {bits(maps[n], asserted[n]) : n \in DOMAIN schema}
    BY <1>7, <2>1, <2>2
  <2> QED
    BY <2>3 DEF bits, HasBits
<1>9. ASSUME NEW i \in DOMAIN schema
      PROVE  Alike(UnpackIndications(codec, frame), schema[i], ind, schema[i])
  <2>1. PICK e, h : e = maps[i] /\ h = asserted[i]
    OBVIOUS
  <2>2. e.type = schema[i].type /\ e.index = schema[i].index /\ e.activeHigh = schema[i].activeHigh
    BY <1>5, <2>1
  <2>3. HeardInMaps(codec, frame, e.type, e.index) = h
    <3>1. HeardInMaps(codec, frame, schema[i].type, schema[i].index) = HeardBits(maps[i], frame)
      BY <1>2, <1>3, <1>4, HeardInMapFor
    <3>2. HeardBits(maps[i], frame) = asserted[i]
      BY <1>2, <1>3, <1>6, <1>8, PackedHeard
    <3> QED
      BY <2>1, <2>2, <3>1, <3>2
  <2>4. h # Undeclared
    BY <1>6, <2>1, IndicationsDeclared DEF OfSchema
  <2>5. /\ e \in Range(codec.maps) /\ e.index \in Indices /\ e.activeHigh \in BOOLEAN
        /\ \A x \in Range(codec.maps) : x.index \in Indices
    BY <1>4, <1>5, <2>1 DEF Range, Indicable
  <2>6. \A x \in Range(codec.maps) :
            x.type = e.type /\ x.index = e.index => x.activeHigh = e.activeHigh
    BY <1>4, <1>5, <2>1, <2>2 DEF Range, Indicable
  <2>7. PICK out : out = UnpackIndications(codec, frame)
    OBVIOUS
  <2>8. HeardAt(out, Range(codec.maps), e.index,
                HeardInMaps(codec, frame, "SWITCH", e.index),
                HeardInMaps(codec, frame, "TRACK", e.index),
                HeardInMaps(codec, frame, "SIGNAL", e.index),
                HeardInMaps(codec, frame, "ELECTRIC_LOCK", e.index),
                HeardInMaps(codec, frame, "MAINTAINER", e.index))
    BY <2>5, <2>7, UnpackedVector
  <2>9. Tells(out, e, h)
    BY <2>3, <2>4, <2>5, <2>6, <2>8, VectorTells
  <2>10. Tells(out, schema[i], h)
    BY <2>2, <2>9 DEF Tells
  <2> QED
    BY <1>1, <2>1, <2>7, <2>10, ToldAlike
<1> QED
  BY <1>9
=============================================================================
