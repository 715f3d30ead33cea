--------------------------- MODULE CodedControls ---------------------------
(***************************************************************************)
(* What a code line promises to the railroad, with no panel, queue, text   *)
(* or network in sight: at a control point the field unit obeys whole      *)
(* controls, each one the dispatcher coded there, possibly one of long     *)
(* ago, possibly again, and nothing else.                                  *)
(***************************************************************************)
CONSTANTS
    Stations,
    Controls,   \* per station, the controls that can be coded
    NoControl

VARIABLES
    coded,  \* per station, every control the dispatcher coded
    obeyed  \* per station, the control obeyed last

cvars == <<coded, obeyed>>

CInit ==
    /\ coded = [s \in Stations |-> {}]
    /\ obeyed = [s \in Stations |-> NoControl]

Code(s, c) ==
    /\ coded' = [coded EXCEPT ![s] = @ \cup {c}]
    /\ UNCHANGED obeyed

Obey(s) ==
    /\ \E c \in coded[s] : obeyed' = [obeyed EXCEPT ![s] = c]
    /\ UNCHANGED coded

CNext == \E s \in Stations : Obey(s) \/ \E c \in Controls[s] : Code(s, c)

CSpec == CInit /\ [][CNext]_cvars
=============================================================================
