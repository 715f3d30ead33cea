----------------------------- MODULE MCPlantFile -----------------------------
(* Configuration programs for PlantFile: the calls may be made in any order    *)
(* and the program may end after any of them.                                  *)
EXTENDS PlantFile

\* A main track switch with its derail, a crossover, and a route over them.
Interlocking ==
    [slots |-> 16, default |-> 5,
     calls |-> {Declare("addTrackCircuit", <<"1T">>),
                Call("addSwitch", "", None, <<"1">>, "3T", 0),
                Call("addDerail", "", None, <<"1D", "1">>, None, 0),
                Declare("bindDetectorLock", <<"1D", "1T">>),
                Declare("route", <<"R">>),
                Call("aligns", "routes", "R", <<"1", "X">>, "1T", 0),
                Call("clears", "routes", "R", <<"1T", "3T">>, None, 0)}]

Crossing ==
    [slots |-> 16, default |-> 5,
     calls |-> {Call("addSwitch", "", None, <<"1A">>, "1T", 0),
                Call("addSwitch", "", None, <<"1B">>, None, 0),
                Declare("addCrossover", <<"1", "1A", "1B">>),
                Declare("bindDetectorLock", <<"1", "1T">>),
                Declare("addSignalControl", <<"2">>),
                Declare("route", <<"R">>),
                Call("aligns", "routes", "R", <<"1">>, None, 0),
                Bind("governedBy", "routes", "R", "2"),
                Bind("entrance", "routes", "R", "1T")}]

\* Facts given and implicit, with the plant's own timeout, and a line with traffic.
LineEnd ==
    [slots |-> 16, default |-> 12,
     calls |-> {Call("addLineInput", "", None, <<"8H">>, None, 0),
                Declare("addSignalMast", <<"2E">>),
                Declare("addControlPointLine", <<"2E">>),
                Bind("traffic", "controlPoints", "2E", "FIELD_FR"),
                Declare("route", <<"R">>),
                Call("home", "routes", "R", <<"8H", "2EF">>, None, 0),
                Bind("proceed", "routes", "R", "8D")}]

\* Two automatic signals back to back.
Location ==
    [slots |-> 16, default |-> 5,
     calls |-> {Declare("addTrackCircuit", <<"1T">>),
                Declare("addAutomaticSignal", <<"3">>),
                Declare("addAutomaticSignal", <<"4">>),
                Bind("governs", "automatics", "3", "1T"),
                Bind("approach", "automatics", "4", "1T"),
                Bind("opposing", "automatics", "4", "3")}]

\* An automatic signal that reads the line of a control point, as a route does.
Reading ==
    [slots |-> 16, default |-> 5,
     calls |-> {Declare("addAutomaticSignal", <<"3">>),
                Call("reads", "automatics", "3", <<"2H", "2D">>, None, 0),
                Declare("addSignalMast", <<"2">>),
                Declare("addControlPointLine", <<"2">>),
                Declare("route", <<"R">>),
                Call("home", "routes", "R", <<"2H">>, None, 0)}]

\* Two lines of control points, of which one reads the other.
TwoLines ==
    [slots |-> 16, default |-> 5,
     calls |-> {Declare("addSignalMast", <<"2">>),
                Declare("addSignalMast", <<"4">>),
                Declare("addControlPointLine", <<"2">>),
                Declare("addControlPointLine", <<"4">>),
                Bind("block", "controlPoints", "2", "4H"),
                Declare("route", <<"R">>),
                Call("home", "routes", "R", <<"4H", "2D">>, None, 0)}]

\* A build with one slot in every table.
Small ==
    [slots |-> 1, default |-> 5,
     calls |-> {Declare("addTrackCircuit", <<"1T">>),
                Declare("addTrackCircuit", <<"3T">>),
                Declare("addAutomaticSignal", <<"3">>),
                Bind("governs", "automatics", "3", "8T"),
                Declare("route", <<"R">>),
                Call("home", "routes", "R", <<"8H", "3T">>, None, 0),
                Bind("approaching", "routes", "R", "3T")}]

\* One crossover more than the array has room for, and not too many to be added.
Overfull ==
    [slots |-> 2, default |-> 5,
     calls |-> {Call("addLineInput", "", None, <<"8H">>, "default", 0),
                Call("addSwitch", "", None, <<"1A">>, None, 0),
                Call("addSwitch", "", None, <<"1B">>, None, 0),
                Declare("addCrossover", <<"1", "1A", "1B">>),
                Declare("addCrossover", <<"3", "1B", "1A">>)}]

MCAuthors ==
    {Interlocking, Crossing, LineEnd, Location, Reading, TwoLines, Small, Overfull}
MCLocations == {Location}
MCReadings == {Reading}

=============================================================================
