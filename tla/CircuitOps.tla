----------------------------- MODULE CircuitOps -----------------------------
(***************************************************************************)
(* One track circuit and one line input, as the operators of their member  *)
(* functions.  Stamps are kept as the caller gives them: `last' is         *)
(* lastUpdateMs_, with 0 for "never", and `since' is clearanceStartMs_.    *)
(* tick() is told whether the dropout delay is over and whether the source *)
(* has been silent too long, so the same operators serve the module with   *)
(* the real clock (TrackCircuit) and the plant, which abstracts from it.   *)
(***************************************************************************)
EXTENDS Naturals

Occupancies == {"OCCUPIED", "VACANT"}

CircuitState(Stamps) ==
    [value : Occupancies, good : BOOLEAN, clearing : BOOLEAN,
     since : Stamps, last : Stamps]

\* The constructed circuit is occupied until something reports it vacant.
CircuitAtRest ==
    [value |-> "OCCUPIED", good |-> TRUE, clearing |-> FALSE,
     since |-> 0, last |-> 0]

IsClear(t) == t.value = "VACANT" /\ t.good
Heard(t) == t.last # 0

\* update(): occupancy at once, vacancy after the dropout delay if it has one.
UpdateCircuit(t, occ, good, now, delayed) ==
    LET seen == [t EXCEPT !.good = good, !.last = now] IN
    IF occ = "OCCUPIED"
    THEN [seen EXCEPT !.value = "OCCUPIED", !.clearing = FALSE]
    ELSE IF ~delayed
    THEN [seen EXCEPT !.value = "VACANT", !.clearing = FALSE]
    ELSE IF t.value = "OCCUPIED" /\ ~t.clearing
    THEN [seen EXCEPT !.clearing = TRUE, !.since = now]
    ELSE seen

\* touch(): the source is alive and has nothing new to say.
TouchCircuit(t, now) ==
    IF Heard(t) THEN [t EXCEPT !.last = now, !.good = TRUE] ELSE t

\* tick(): the dropout delay ends; a silent source is lost.
TickCircuit(t, due, silent) ==
    [t EXCEPT !.value = IF t.clearing /\ due THEN "VACANT" ELSE @,
              !.clearing = @ /\ ~due,
              !.good = @ /\ ~(Heard(t) /\ silent)]

-----------------------------------------------------------------------------
LineState(Stamps) ==
    [energized : BOOLEAN, ever : BOOLEAN, stale : BOOLEAN, last : Stamps]

LineAtRest == [energized |-> FALSE, ever |-> FALSE, stale |-> FALSE, last |-> 0]

Asserted(l) == l.energized /\ l.ever /\ ~l.stale

UpdateLine(l, energized, now) ==
    [energized |-> energized, ever |-> TRUE, stale |-> FALSE, last |-> now]

TouchLine(l, now) ==
    IF l.ever THEN [l EXCEPT !.stale = FALSE, !.last = now] ELSE l

TickLine(l, silent) == [l EXCEPT !.stale = @ \/ (l.ever /\ silent)]
=============================================================================
