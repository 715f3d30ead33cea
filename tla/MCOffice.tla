------------------------------ MODULE MCOffice ------------------------------
(***************************************************************************)
(* A desk of two stations, as in configureDesk(): a switch-only one and one *)
(* with a signal and a maintainer call.  The field units number their      *)
(* appliances otherwise than the desk does.                                *)
(***************************************************************************)
EXTENDS Office

Lever(sw, sig, call) == [sw |-> sw, sig |-> sig, call |-> call]

Corporal == "CP_Corporal"
Sargent == "CP_Sargent"

MCStations == <<Corporal, Sargent>>
MCColumns ==
    <<[station |-> Corporal, switch |-> "1", signal |-> "2", maintainer |-> "MC1",
       tracks |-> <<>>, code |-> FALSE,
       positions |-> {Lever({"N"}, {"R"}, FALSE), Lever({"R"}, {}, TRUE)}],
      [station |-> Corporal, switch |-> "3", signal |-> "", maintainer |-> "",
       tracks |-> <<>>, code |-> TRUE, positions |-> {Lever({}, {}, FALSE)}],
      [station |-> Sargent, switch |-> "1", signal |-> "", maintainer |-> "",
       tracks |-> <<"1T1", "HBD">>, code |-> TRUE, positions |-> {Lever({"N"}, {}, FALSE)}]>>

MCFieldControls ==
    Corporal :> <<Entry("SWITCH", "1", 1), Entry("SWITCH", "3", 0),
                  Entry("SIGNAL", "2", 1), Entry("MAINTAINER", "MC1", 0)>> @@
    Sargent :> <<Entry("SWITCH", "1", 0)>>
MCFieldIndications ==
    Corporal :> <<Entry("SWITCH", "1", 1), Entry("SWITCH", "3", 0),
                  Entry("SIGNAL", "2", 1), Entry("MAINTAINER", "MC1", 0)>> @@
    Sargent :> <<Entry("SWITCH", "1", 0), Entry("TRACK", "1T1", 1), Entry("TRACK", "HBD", 0)>>

Plant == [NoIndications EXCEPT
    !.switchCount = 2, !.trackCount = 2, !.signalCount = 2,
    !.switches = [i \in Indices |->
        [position |-> IF i = 0 THEN "REVERSE" ELSE "NORMAL", kr |-> TRUE, unlocked |-> FALSE]]]
MCIndicationAt ==
    Corporal :> (0 :> [Plant EXCEPT !.signals[1].authority = "RIGHT", !.maintainer[0] = TRUE]) @@
    Sargent :> (0 :> Plant @@ 1 :> [Plant EXCEPT !.tracks[1] = "OCCUPIED"])

MCMaxPresses == Corporal :> 2 @@ Sargent :> 0

Setup(b, w, p, n) == [build |-> b, wire |-> w, peer |-> p, failures |-> n]
MCSetups == {Setup("fast", "text", "cyclic", 1), Setup("fast", "bits", "onChange", 1),
             Setup("stepping", "text", "onChange", 0)}

\* The least that a text cut short takes: no faults, no display.
MCTextSetups == {Setup("fast", "text", "onChange", 0)}
MCIndices == 0 .. 1
=============================================================================
