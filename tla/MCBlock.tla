------------------------------ MODULE MCBlock -------------------------------
(***************************************************************************)
(* Blocks between control points 830 and 836.  Long has the track and the  *)
(* locations 832 and 834 of test_automatic_signal.cpp (part E), Short has  *)
(* location 832 only.  TestBlock has the lines of the test too; the lines  *)
(* of LongBlock govern the OS circuits besides.                            *)
(***************************************************************************)
EXTENDS Block, TLC

Automatic(governs, approach, from, opposing) ==
    [governs |-> {governs}, approach |-> {approach}, h |-> Out(from, "H"),
     d |-> Out(from, "D"), opposing |-> opposing]

Home(lever, way, mast, os) ==
    [authority |-> lever, direction |-> way, mast |-> mast, blocks |-> {os},
     entrance |-> os, approach |-> None, home |-> {}, proceed |-> None]

Leaving(lever, way, mast, os, approach, next, lines) ==
    [Home(lever, way, mast, os) EXCEPT !.approach = approach,
        !.home = {Out(next, "H")} \cup {Out(l, "F") : l \in lines}, !.proceed = Out(next, "D")]

Line(rule, governs, block, leaving, home) ==
    [governs |-> governs, block |-> block, leaving |-> {leaving}, home |-> home,
     tumbleDown |-> rule[1], traffic |-> rule[2], release |-> rule[3]]

\* The control points and their lines: what the lines govern, the rules, the
\* approach circuit of 830, and the signals next to 830 and to 836.
ControlPoints(track, rule, with830, with836, block, approach, next830, next836) ==
    LET far(l) == IF rule[2] = "HD_CHAIN" THEN {} ELSE {l} IN
    [lines |->
        "830NAB" :> Line(rule, with830, block, "830SAB", "830NAB") @@
        "836SA" :> Line(rule, with836, block, "836NAB", "836SA"),
     routes |->
        "830NAB-HOME" :> Home("830", "LEFT", "830NAB", "830T1") @@
        "836SA-HOME" :> Home("836", "RIGHT", "836SA", "836T1") @@
        "830SAB-LEAVING" :>
            Leaving("830", "RIGHT", "830SAB", "830T1", approach, next830, far("836SA")) @@
        "836NAB-LEAVING" :>
            Leaving("836", "LEFT", "836NAB", "836T1", None, next836, far("830NAB")),
     leverOrder |-> <<"830", "836">>,
     lineOrder |-> <<"830NAB", "836SA">>,
     routeOrder |-> <<"830NAB-HOME", "836SA-HOME", "830SAB-LEAVING", "836NAB-LEAVING">>,
     track |-> track,
     outside |-> {approach} \ {None},
     circuits |-> Range(track) \cup ({approach} \ {None}),
     block |-> Range(track) \ {"830T1", "836T1"},
     far |-> [SOUTH |-> "836SA", NORTH |-> "830NAB"],
     demands |-> {"830", "836"} \X {"STOP", "LEFT", "RIGHT"}]

With(ends, signals, order, south, north, ways) ==
    ends @@
    [signals |-> signals, signalOrder |-> order,
     masts |-> DOMAIN signals \cup {"830SAB", "830NAB", "836NAB", "836SA"},
     guard |-> [SOUTH |-> south, NORTH |-> north], ways |-> ways]

Long(with830, with836, ways) ==
    With(ControlPoints(<<"830T1", "832T", "834T", "836T", "836T1">>,
               <<"CLEARED", "HD_CHAIN", "BLOCK_CLEAR">>,
               with830, with836, {"832T", "834T", "836T"}, None, "832SA", "834NA"),
         "832SA" :> Automatic("834T", "832T", "834SA", None) @@
         "834SA" :> Automatic("836T", "834T", "836SA", None) @@
         "832NA" :> Automatic("832T", "834T", "830NAB", None) @@
         "834NA" :> Automatic("834T", "836T", "832NA", None),
         <<"832SA", "834SA", "832NA", "834NA">>,
         <<"830SAB", None, "832SA", "834SA", "836SA">>,
         <<"830NAB", "832NA", "834NA", None, "836NAB">>, ways)

Short(rule, with830, with836, block, approach, opposing, ways) ==
    With(ControlPoints(<<"830T1", "832T", "836T", "836T1">>, rule, with830, with836, block,
               approach, "832SA", "832NA"),
         "832SA" :> Automatic("836T", "832T", "836SA", IF opposing THEN "832NA" ELSE None) @@
         "832NA" :> Automatic("832T", "836T", "830NAB", IF opposing THEN "832SA" ELSE None),
         <<"832SA", "832NA">>,
         <<"830SAB", None, "832SA", "836SA">>, <<"830NAB", "832NA", None, "836NAB">>, ways)

Meeting == [T1 |-> {"SOUTH"}, T2 |-> {"NORTH"}]
Following == [T1 |-> {"SOUTH"}, T2 |-> {"SOUTH"}]
Inner == {"832T", "836T"}
Outer == Inner \cup {"830T1", "836T1"}

\* The block of the test, where each line governs the circuit next to its control
\* point; only lever 830 is worked.
TestBlock ==
    [Long({"832T"}, {"836T"}, Meeting) EXCEPT !.demands = {"830"} \X {"STOP", "RIGHT"}]

\* The same, but the lines govern the OS circuits too.
LongBlock == Long({"830T1", "832T"}, {"836T", "836T1"}, Meeting)

\* Trains that follow each other, and masts that cut each other.
FollowedBlock ==
    [Short(<<"CLEARED", "HD_CHAIN", "BLOCK_CLEAR">>, {"830T1", "832T"}, {"836T", "836T1"},
           Inner, None, TRUE, Following)
     EXCEPT !.demands = @ \ {<<"830", "LEFT">>}]

\* A traffic relay held until the block and both OS circuits are clear.
TrafficBlock ==
    [Short(<<"REQUESTED", "FIELD_FR", "REQUEST_NORMAL_AND_BLOCK_CLEAR">>,
           {"832T"}, {"836T"}, Outer, None, FALSE, Meeting)
     EXCEPT !.demands = @ \ {<<"836", "RIGHT">>}]

\* The lever of 830 runs time when a train waits at its leaving signal.
TimedBlock ==
    [Short(<<"CLEARED", "HD_CHAIN", "BLOCK_CLEAR">>, {"830T1", "832T"}, {"836T", "836T1"},
           Inner, "829T", FALSE, Meeting)
     EXCEPT !.demands = ({"830"} \X {"STOP", "RIGHT"}) \cup ({"836"} \X {"STOP", "LEFT"})]

MCPlants == {LongBlock, FollowedBlock, TrafficBlock, TimedBlock}
MCTestPlants == {TestBlock}

\* All but the traffic block are absolute permissive block, of which theorems speak.
ASSUME \A p \in {LongBlock, FollowedBlock, TimedBlock} : Chained(p)
=============================================================================
