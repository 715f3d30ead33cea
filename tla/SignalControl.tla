---------------------------- MODULE SignalControl ----------------------------
(***************************************************************************)
(* A single SignalControl under every order of control messages, train     *)
(* movements and scans, with the clock of the code: nowMs is a counter of  *)
(* ClockMod values (2^32 in the code) and the end of time locking is kept  *)
(* as a stamp of that clock.  `uptime' is the true time since power-on.    *)
(***************************************************************************)
EXTENDS SignalControlOps

CONSTANTS
    ClockMod,  \* values of the millisecond counter; 2^32 in the code
    Duration,  \* timeLockDurationMs_
    Horizon    \* bound: the model's clock stops here

ASSUME ClockAssumption ==
    /\ ClockMod \in Nat \ {0}
    /\ Duration \in Nat \ {0}
    /\ Horizon \in Nat
    /\ Duration < ClockMod

VARIABLES
    sig,       \* the SignalControl
    uptime,    \* true time; the code sees it modulo ClockMod
    lockedAt,  \* history: uptime when the running time lock was engaged
    accepted   \* history: a train took the signal, not fleeting, and no
               \* control has been received since

leverVars == <<sig, uptime, lockedAt, accepted>>

NowMs == uptime % ClockMod
Expiry == (NowMs + Duration) % ClockMod    \* uint32 addition

LeverInit ==
    /\ sig = SignalAtRest
    /\ uptime = 0
    /\ lockedAt = 0
    /\ accepted = FALSE

\* A control message is applied to this lever.
Command(req, fleet, approachOccupied) ==
    /\ sig' = UpdateCommand(sig, req, fleet, approachOccupied, Expiry)
    /\ lockedAt' = IF Cancels(sig, req) /\ approachOccupied THEN uptime
                   ELSE lockedAt
    /\ accepted' = FALSE
    /\ UNCHANGED uptime

\* The control table saw the entrance circuit shunted under a cleared signal.
AcceptSignal ==
    /\ sig.active # "STOP"
    /\ sig' = Knockdown(sig)
    /\ accepted' = ~sig.fleet
    /\ UNCHANGED <<uptime, lockedAt>>

\* One scan evaluates the lever; plantClear is what the plant reports.
Scan(plantClear) ==
    /\ sig' = EvaluateSignal(sig, plantClear, NowMs >= sig.timer)
    /\ UNCHANGED <<uptime, lockedAt, accepted>>

Elapse ==
    /\ uptime < Horizon
    /\ uptime' = uptime + 1
    /\ UNCHANGED <<sig, lockedAt, accepted>>

LeverNext ==
    \/ \E req \in Directions, fleet, approachOccupied \in BOOLEAN :
           Command(req, fleet, approachOccupied)
    \/ AcceptSignal
    \/ \E plantClear \in BOOLEAN : Scan(plantClear)
    \/ Elapse

LeverSpec == LeverInit /\ [][LeverNext]_leverVars

-----------------------------------------------------------------------------
\* The type of the relays, the clock and the history.
LeverTypeOK ==
    /\ sig \in SignalState(Nat)
    /\ uptime \in Nat
    /\ lockedAt \in Nat
    /\ accepted \in BOOLEAN

\* While time locking runs the signal is at Stop in every direction and no
\* stick is left dropped: updateCommand(), knockdown() and evaluate() agree
\* on which of the three relays rules (ASR over HSR).
TimeLockedAtStop ==
    sig.timeLock => /\ sig.active = "STOP"
                    /\ ~sig.stickDropped
                    /\ sig.lockedDir # "STOP"

\* A signal that a train accepted without fleeting stays at Stop until the
\* next control message, whatever scans, timers and track changes come between.
NoReclearWithoutCode == accepted => sig.active = "STOP"

\* Time locking engaged at lockedAt is not over before the full duration has
\* truly passed.  (Holds while the counter does not wrap; see the README.)
TimeLockRunsFull ==
    [][sig.timeLock /\ ~sig'.timeLock => uptime - lockedAt >= Duration]_leverVars

-----------------------------------------------------------------------------
\* The bound of the model keeps the counter from wrapping.
NoWrap == Horizon + Duration < ClockMod

\* The strengthening behind the properties: which relay states go together,
\* and what the expiry stamp says about the true time.
RelayAgreement ==
    /\ TimeLockedAtStop
    /\ sig.stickDropped => sig.active = "STOP"
    /\ accepted => sig.stickDropped

StampAgreement ==
    /\ uptime <= Horizon
    /\ lockedAt <= uptime
    /\ sig.timeLock => sig.timer = lockedAt + Duration

\* The inductive invariant of the lever: the relays go together, and while the
\* counter does not wrap the expiry stamp is the end of the full duration.
SignalInv == LeverTypeOK /\ RelayAgreement /\ (NoWrap => StampAgreement)

-----------------------------------------------------------------------------
\* The mapping: what the relays of the code say in the abstract module.
Promise == INSTANCE ApproachLocking WITH
    ReleaseTime <- Duration,
    mode <- IF sig.timeLock THEN "runningTime"
            ELSE IF sig.active # "STOP" THEN "cleared" ELSE "atStop",
    towards <- IF sig.timeLock THEN sig.lockedDir ELSE sig.active,
    waited <- IF sig.timeLock THEN uptime - lockedAt ELSE 0

\* The lever, with its three relays and its stamp, implements approach locking
\* as the abstract module promises it.
ImplementsApproachLocking == Promise!ASpec
=============================================================================
