------------------------------ MODULE SwitchOps ------------------------------
(***************************************************************************)
(* The switch machines of a plant: position, correspondence, pairing and   *)
(* locks.  `Pair' joins the two machines of a crossover, and a main switch *)
(* with its dependent derail; an unpaired machine is its own pair.         *)
(*                                                                         *)
(* The operators take the machines (sw) or their locks as a function over  *)
(* Switches and return it as the call leaves it.  Travel time is not       *)
(* counted: `overdue' says that travelTimeoutMs_ has passed since the last *)
(* throw.                                                                  *)
(***************************************************************************)
EXTENDS Naturals

CONSTANTS
    Switches,   \* every machine of the plant, derails included
    Pair,       \* pairedSwitch_, as a function; s itself when unpaired
    Derails     \* the dependent derails (isDependentSlave_)

ASSUME PairAssumption ==
    /\ Pair \in [Switches -> Switches]
    /\ \A s \in Switches : Pair[Pair[s]] = s
    /\ Derails \subseteq Switches
    /\ \A s \in Derails : Pair[s] \notin Derails

Targets   == {"NORMAL", "REVERSE"}
Positions == Targets \cup {"MOVING", "OUT_OF_CORRESPONDENCE"}
LockKinds == {"DETECTOR", "ROUTE", "TIME", "HAND"}

Machine == [commanded : Targets, reported : Positions, overdue : BOOLEAN]

\* Every machine rests in NORMAL, a derail derailing.
MachineAtRest == [commanded |-> "NORMAL", reported |-> "NORMAL", overdue |-> FALSE]

SelfInCorrespondence(sw, s) == sw[s].reported = sw[s].commanded

\* A pair corresponds as one machine; a dependent derail answers for itself.
InCorrespondence(sw, s) ==
    /\ SelfInCorrespondence(sw, s)
    /\ s \notin Derails => /\ SelfInCorrespondence(sw, Pair[s])
                           /\ sw[Pair[s]].reported = sw[s].reported

WLR(locks, s) == locks[s] = {}

\* addLock() on each machine of S: a machine that already has the lock does
\* not pass it on to its pair.
AddLock(locks, S, kind) ==
    [s \in Switches |->
        IF s \in S \/ (Pair[s] \in S /\ kind \notin locks[Pair[s]])
        THEN locks[s] \cup {kind} ELSE locks[s]]

\* Mutant: the release does not reach the other machine of the pair.
RemoveLockAlone(locks, m, kind) == [locks EXCEPT ![m] = @ \ {kind}]

\* removeLock() on one machine.
RemoveLock(locks, m, kind) ==
    [s \in Switches |->
        IF s = m \/ (s = Pair[m] /\ kind \in locks[m])
        THEN locks[s] \ {kind} ELSE locks[s]]

ThrowSelf(m, target) ==
    IF m.commanded = target /\ m.reported = target THEN m
    ELSE [commanded |-> target, reported |-> "MOVING", overdue |-> FALSE]

\* Mutant: one half of a pair moves.
ThrownAlone(sw, s, target) == {s}

\* The machines that throwSwitch() sends to target: a derail always with its
\* main switch, the other half of a crossover unless commanded there already.
Thrown(sw, s, target) ==
    IF Pair[s] \in Derails \/ sw[Pair[s]].commanded # target
    THEN {s, Pair[s]} ELSE {s}

\* Mutant: no lock refuses.
ThrowSwitchUnlocked(sw, locks, s, target) ==
    [m \in Switches |-> IF s \notin Derails /\ m \in Thrown(sw, s, target)
                        THEN ThrowSelf(sw[m], target) ELSE sw[m]]

\* throwSwitch(): refused by a lock, and always by a dependent derail.
ThrowSwitch(sw, locks, s, target) ==
    LET refused == \/ s \in Derails
                   \/ ~WLR(locks, s)
                   \/ Pair[s] \in Derails /\ ~WLR(locks, Pair[s])
        there   == /\ Pair[s] \notin Derails
                   /\ sw[s].commanded = target
                   /\ InCorrespondence(sw, s)
    IN IF refused \/ there THEN sw
       ELSE [m \in Switches |->
                IF m \in Thrown(sw, s, target) THEN ThrowSelf(sw[m], target)
                ELSE sw[m]]

\* tick(): points that never arrived are declared out of correspondence.
TickMachine(m) ==
    IF m.reported = "MOVING" /\ m.overdue
    THEN [m EXCEPT !.reported = "OUT_OF_CORRESPONDENCE"] ELSE m
=============================================================================
