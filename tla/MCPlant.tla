------------------------------ MODULE MCPlant -------------------------------
(***************************************************************************)
(* What the plants under check have in common.                             *)
(***************************************************************************)
EXTENDS InterlockingPlant

CONSTANT null

\* A route with nothing but what every route has: the rest is EXCEPT.
MCRoute(authority, direction, mastName, aligns, blocks, entrance) ==
    [authority |-> authority, direction |-> direction, mast |-> mastName,
     ceiling |-> "CLEAR", aligns |-> aligns,
     release |-> [s \in Switches |-> null],
     blocks |-> blocks, entrance |-> entrance, approach |-> null,
     home |-> {}, proceed |-> null, engineReturn |-> FALSE,
     origin |-> null, os |-> null, automatic |-> FALSE, incomplete |-> FALSE]

\* No machine of the plant is paired.
MCUnpaired == [s \in Switches |-> s]
=============================================================================
