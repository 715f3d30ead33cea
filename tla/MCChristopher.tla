--------------------------- MODULE MCChristopher ----------------------------
(***************************************************************************)
(* The two northbound routes of CP Christopher (examples/CP_Christopher):  *)
(* one lever, one mast and one entrance circuit for the straight route and *)
(* the crossover route.                                                    *)
(***************************************************************************)
EXTENDS MCPlant

CONSTANTS sw1, sw3, sw3B, t1, t3, t3B, lever2, mastN

MCPair == [s \in Switches |->
              CASE s = sw3 -> sw3B [] s = sw3B -> sw3 [] OTHER -> s]
MCDemands == {lever2} \X Directions \X {FALSE}
MCDetectors == [s \in Switches |->
    CASE s = sw1 -> <<t1>> [] s = sw3 -> <<t3>> [] OTHER -> <<t3B>>]

MT2Straight ==
    MCRoute(lever2, "LEFT", mastN, [s \in {sw3} |-> "NORMAL"], {t3B}, t3B)
MT2Crossover ==
    [MCRoute(lever2, "LEFT", mastN,
             [s \in {sw1, sw3} |-> IF s = sw1 THEN "NORMAL" ELSE "REVERSE"],
             {t3B, t3, t1}, t3B)
     EXCEPT !.ceiling = "DIVERGING_CLEAR"]

BothRoutes == <<MT2Straight, MT2Crossover>>
=============================================================================
