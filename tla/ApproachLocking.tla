--------------------------- MODULE ApproachLocking ---------------------------
(***************************************************************************)
(* What approach locking promises of one signal, with no relay, command or *)
(* stamp in sight: the signal is at Stop, cleared in one direction, or     *)
(* taken away from a train and running time.  A signal that runs time      *)
(* shows nothing until the full release time has passed since it was taken *)
(* away; then, and only then, its route is free.                           *)
(***************************************************************************)
EXTENDS Integers

CONSTANT ReleaseTime

VARIABLES
    mode,    \* "atStop", "cleared" or "runningTime"
    towards, \* the direction cleared or being held; "STOP" at Stop
    waited   \* time since the signal was taken away, while it runs time

avars == <<mode, towards, waited>>

AInit == mode = "atStop" /\ towards = "STOP" /\ waited = 0

Clear(d) ==
    /\ mode = "atStop"
    /\ mode' = "cleared" /\ towards' = d /\ waited' = 0

\* A train accepts the signal, or it is taken away with no train approaching.
PutToStop ==
    /\ mode = "cleared"
    /\ mode' = "atStop" /\ towards' = "STOP" /\ waited' = 0

\* Taken away from an approaching train.
TakeAway ==
    /\ mode = "cleared"
    /\ mode' = "runningTime" /\ waited' = 0 /\ UNCHANGED towards

Wait ==
    /\ mode = "runningTime"
    /\ waited' = waited + 1 /\ UNCHANGED <<mode, towards>>

\* Time has run: the signal is at Stop, or clears again at once (fleeting).
Release ==
    /\ mode = "runningTime" /\ waited >= ReleaseTime
    /\ \/ mode' = "atStop" /\ towards' = "STOP"
       \/ mode' = "cleared" /\ towards' \in {"LEFT", "RIGHT"}
    /\ waited' = 0

ANext ==
    \/ \E d \in {"LEFT", "RIGHT"} : Clear(d)
    \/ PutToStop \/ TakeAway \/ Wait \/ Release

ASpec == AInit /\ [][ANext]_avars
=============================================================================
