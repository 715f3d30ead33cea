---------------------------- MODULE MCCrossover -----------------------------
(***************************************************************************)
(* The crossover 3/3B of CP Christopher, its two machines paired: the      *)
(* straight moves through 3B in both directions by one lever and the move  *)
(* over the crossover by another, an engine return over the crossover as   *)
(* in test_tracer_bullet.cpp, and a route without a mast.                  *)
(***************************************************************************)
EXTENDS MCPlant

CONSTANTS sw3, sw3B, t3, t3B, approachA, lever2, lever4, mastN, mastS, mast4

MCPair == [s \in Switches |-> IF s = sw3 THEN sw3B ELSE sw3]
MCDetectors == [s \in Switches |-> IF s = sw3 THEN <<t3>> ELSE <<t3B>>]
MCDemands == {lever2} \X Directions \X {FALSE}
             \cup {<<lever4, "STOP", FALSE>>, <<lever4, "RIGHT", FALSE>>}

\* Towards the crossover on MT2, straight on, with an approach circuit.
Straight2 ==
    [MCRoute(lever2, "LEFT", mastN, [s \in {sw3} |-> "NORMAL"], {t3B}, t3B)
     EXCEPT !.approach = approachA]

\* Straight on the other way, by the same lever.
Back2 == MCRoute(lever2, "RIGHT", mastS, [s \in {sw3} |-> "NORMAL"], {t3B}, t3B)

\* Over the crossover, by a lever of its own.
Over ==
    [MCRoute(lever4, "RIGHT", mast4, [s \in {sw3} |-> "REVERSE"], {t3, t3B}, t3)
     EXCEPT !.ceiling = "DIVERGING_CLEAR"]

\* Over the crossover to the cars left on the approach track, with no lever.
BackToCars ==
    [MCRoute(null, "RIGHT", mast4, [s \in {sw3} |-> "REVERSE"], {}, null)
     EXCEPT !.engineReturn = TRUE, !.origin = approachA, !.os = t3]

\* A route without a mast: its lever is cleared for it and nothing displayed.
Dark == MCRoute(lever4, "RIGHT", null, [s \in {sw3} |-> "NORMAL"], {t3}, t3)

FiveRoutes == <<Straight2, Back2, Over, BackToCars, Dark>>
TwoRoutes == <<Straight2, Over>>
=============================================================================
