-------------------------- MODULE SignalControlOps --------------------------
(***************************************************************************)
(* One SignalControl: the home signal stick (HSR), the fleet stick (FSR)   *)
(* and the approach stick (ASR) of a control point lever.  Each member     *)
(* function of the class is an operator from the relay state before the    *)
(* call to the relay state after it.                                       *)
(*                                                                         *)
(* Time enters in two places only: the value the release timer is set to   *)
(* (`fullTimer') and whether it has run out (`expired').  The caller       *)
(* supplies both, so the same operators serve the module that keeps the    *)
(* uint32 expiry stamp of the code (SignalControl) and the plant, which    *)
(* keeps the time that is left (InterlockingPlant).                        *)
(***************************************************************************)
EXTENDS Integers

\* enum DirectionAuthority; also the demands STOP, LEFT, RIGHT of a control.
Directions == {"STOP", "LEFT", "RIGHT"}

SignalState(Timers) ==
    [commanded : Directions, active : Directions, fleet : BOOLEAN,
     stickDropped : BOOLEAN, timeLock : BOOLEAN, lockedDir : Directions,
     timer : Timers]

\* The constructed state: at Stop, no stick dropped, no timer.
SignalAtRest ==
    [commanded |-> "STOP", active |-> "STOP", fleet |-> FALSE,
     stickDropped |-> FALSE, timeLock |-> FALSE, lockedDir |-> "STOP",
     timer |-> 0]

\* A control takes a cleared signal away: Stop, or the other direction.
Cancels(s, req) == s.active # "STOP" /\ req # s.active

\* The three things a control can do to the relays: be stored, take a cleared
\* signal away (with time locking when a train approaches), and clear it.
Coded(s, req, fleet) == [s EXCEPT !.fleet = fleet, !.commanded = req]

\* Mutants: the signal goes to the other direction at once; the direction that
\* time locking protects is forgotten.
TakenAwayToOther(s, approachOccupied, fullTimer) ==
    [s EXCEPT !.active = s.commanded, !.stickDropped = FALSE]
TakenAwayUndirected(s, approachOccupied, fullTimer) ==
    [s EXCEPT !.active = "STOP", !.stickDropped = FALSE,
              !.timeLock = approachOccupied, !.timer = fullTimer]

TakenAway(s, approachOccupied, fullTimer) ==
    [s EXCEPT !.active = "STOP",
              !.stickDropped = FALSE,
              !.timeLock = approachOccupied,
              !.lockedDir = IF approachOccupied THEN s.active ELSE "STOP",
              !.timer = IF approachOccupied THEN fullTimer ELSE 0]

Cleared(s, req) == [s EXCEPT !.stickDropped = FALSE, !.active = req]

\* Mutants: a control clears the signal while time locking runs; a control
\* ends time locking.
UpdateCommandOverLock(s, req, fleet, approachOccupied, fullTimer) ==
    IF Cancels(s, req)
    THEN TakenAway(Coded(s, req, fleet), approachOccupied, fullTimer)
    ELSE Cleared(Coded(s, req, fleet), req)
UpdateCommandUnlocks(s, req, fleet, approachOccupied, fullTimer) ==
    IF Cancels(s, req)
    THEN TakenAway(Coded(s, req, fleet), approachOccupied, fullTimer)
    ELSE [Cleared(Coded(s, req, fleet), req) EXCEPT !.timeLock = FALSE]

\* updateCommand(): a control message asks for req, with or without fleeting.
UpdateCommand(s, req, fleet, approachOccupied, fullTimer) ==
    IF Cancels(s, req)
    THEN TakenAway(Coded(s, req, fleet), approachOccupied, fullTimer)
    ELSE IF s.timeLock \/ req = "STOP" THEN Coded(s, req, fleet)
    ELSE Cleared(Coded(s, req, fleet), req)

\* Mutants: only the stick drops; the stick never drops; it always drops.
KnockdownStickOnly(s) == [s EXCEPT !.stickDropped = @ \/ ~s.fleet]
KnockdownNoStick(s) == [s EXCEPT !.active = "STOP"]
KnockdownAnyStick(s) == [s EXCEPT !.active = "STOP", !.stickDropped = TRUE]

\* knockdown(): a train accepted the signal and shunts the entrance circuit.
Knockdown(s) ==
    IF s.active = "STOP" THEN s
    ELSE [s EXCEPT !.active = "STOP", !.stickDropped = @ \/ ~s.fleet]

\* Mutant: time locking ends only on a clear plant.
EvaluateSignalPlantGated(s, plantClear, expired) ==
    LET over == s.timeLock /\ expired /\ plantClear IN
    [s EXCEPT !.timeLock = @ /\ ~over,
              !.lockedDir = IF over THEN "STOP" ELSE @,
              !.active = IF s.stickDropped THEN "STOP"
                         ELSE IF s.fleet /\ plantClear /\ ~s.timeLock
                         THEN s.commanded ELSE @]

\* evaluate(): once a scan, before the control table runs.
EvaluateSignal(s, plantClear, expired) ==
    LET locked  == s.timeLock /\ ~expired
        reclear == /\ s.fleet
                   /\ s.commanded # "STOP"
                   /\ s.active = "STOP"
                   /\ plantClear
                   /\ ~locked
    IN [s EXCEPT !.timeLock = locked,
                 !.lockedDir = IF s.timeLock /\ expired THEN "STOP" ELSE @,
                 !.active = IF s.stickDropped THEN "STOP"
                            ELSE IF reclear THEN s.commanded ELSE @]
=============================================================================
