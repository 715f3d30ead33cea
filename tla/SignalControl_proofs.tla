------------------------ MODULE SignalControl_proofs ------------------------
(***************************************************************************)
(* Proofs about SignalControl for every clock width, lock duration and     *)
(* horizon.  Relay agreement needs nothing of the clock; what the stamp    *)
(* says about true time needs that the counter does not wrap.              *)
(***************************************************************************)
EXTENDS SignalControl, TLAPS

USE ClockAssumption DEF ClockAssumption

\* The counter shows the true time until it wraps.
LEMMA StampIsTime ==
    ASSUME NEW t \in Nat, t < ClockMod
    PROVE  t % ClockMod = t
  OBVIOUS

LEMMA StampType ==
    ASSUME uptime \in Nat
    PROVE  NowMs \in Nat /\ Expiry \in Nat
  BY DEF NowMs, Expiry

\* Without a wrap the expiry stamp is the time now plus the duration.
LEMMA ExpiryIsLater ==
    ASSUME NoWrap, uptime \in Nat, uptime <= Horizon
    PROVE  NowMs = uptime /\ Expiry = uptime + Duration
  <1>1. uptime < ClockMod /\ uptime + Duration < ClockMod
    BY DEF NoWrap
  <1>2. NowMs = uptime
    BY <1>1, StampIsTime DEF NowMs
  <1>3. (uptime + Duration) % ClockMod = uptime + Duration
    BY <1>1, StampIsTime
  <1>4. QED
    BY <1>2, <1>3 DEF Expiry

LEMMA InitInv == LeverInit => SignalInv
  <1> SUFFICES ASSUME LeverInit PROVE SignalInv
    OBVIOUS
  <1> USE DEF LeverInit, SignalAtRest
  <1>1. LeverTypeOK
    BY DEF LeverTypeOK, SignalState, Directions
  <1>2. RelayAgreement
    BY DEF RelayAgreement, TimeLockedAtStop
  <1>3. StampAgreement
    BY DEF StampAgreement
  <1>4. QED
    BY <1>1, <1>2, <1>3 DEF SignalInv

\* Type correctness is preserved by every operation.
LEMMA TypeStep == LeverTypeOK /\ [LeverNext]_leverVars => LeverTypeOK'
  <1> SUFFICES ASSUME LeverTypeOK, [LeverNext]_leverVars PROVE LeverTypeOK'
    OBVIOUS
  <1> USE DEF LeverTypeOK, SignalState, Directions
  <1>0. NowMs \in Nat /\ Expiry \in Nat
    BY StampType
  <1>1. ASSUME NEW req \in Directions, NEW f \in BOOLEAN, NEW ao \in BOOLEAN,
               Command(req, f, ao)
        PROVE  LeverTypeOK'
    <2>1. UpdateCommand(sig, req, f, ao, Expiry) \in SignalState(Nat)
      BY <1>0 DEF UpdateCommand, Coded, TakenAway, Cleared
    <2>2. QED
      BY <1>1, <2>1 DEF Command
  <1>2. CASE AcceptSignal
    BY <1>2 DEF AcceptSignal, Knockdown
  <1>3. ASSUME NEW pc \in BOOLEAN, Scan(pc)
        PROVE  LeverTypeOK'
    <2>1. EvaluateSignal(sig, pc, NowMs >= sig.timer) \in SignalState(Nat)
      BY <1>0 DEF EvaluateSignal
    <2>2. QED
      BY <1>3, <2>1 DEF Scan
  <1>4. CASE Elapse
    BY <1>4 DEF Elapse
  <1>5. CASE UNCHANGED leverVars
    BY <1>5 DEF leverVars
  <1>6. QED
    BY <1>1, <1>2, <1>3, <1>4, <1>5 DEF LeverNext

\* The three relays keep agreeing, whatever the order of operations.
LEMMA RelayStep == LeverTypeOK /\ RelayAgreement /\ [LeverNext]_leverVars => RelayAgreement'
  <1> SUFFICES ASSUME LeverTypeOK, RelayAgreement, [LeverNext]_leverVars
               PROVE  RelayAgreement'
    OBVIOUS
  <1> USE DEF LeverTypeOK, SignalState, Directions, RelayAgreement, TimeLockedAtStop
  <1>1. ASSUME NEW req \in Directions, NEW f \in BOOLEAN, NEW ao \in BOOLEAN,
               Command(req, f, ao)
        PROVE  RelayAgreement'
    BY <1>1 DEF Command, UpdateCommand, Coded, TakenAway, Cleared, Cancels
  <1>2. CASE AcceptSignal
    BY <1>2 DEF AcceptSignal, Knockdown
  <1>3. ASSUME NEW pc \in BOOLEAN, Scan(pc)
        PROVE  RelayAgreement'
    BY <1>3 DEF Scan, EvaluateSignal
  <1>4. CASE Elapse
    BY <1>4 DEF Elapse
  <1>5. CASE UNCHANGED leverVars
    BY <1>5 DEF leverVars
  <1>6. QED
    BY <1>1, <1>2, <1>3, <1>4, <1>5 DEF LeverNext

\* Without a wrap the stamp keeps saying when the lock was engaged.
LEMMA StampStep ==
    ASSUME NoWrap
    PROVE  LeverTypeOK /\ StampAgreement /\ [LeverNext]_leverVars => StampAgreement'
  <1> SUFFICES ASSUME LeverTypeOK, StampAgreement, [LeverNext]_leverVars
               PROVE  StampAgreement'
    OBVIOUS
  <1> USE DEF LeverTypeOK, SignalState, Directions, StampAgreement
  <1>0. NowMs = uptime /\ Expiry = uptime + Duration
    BY ExpiryIsLater
  <1>1. ASSUME NEW req \in Directions, NEW f \in BOOLEAN, NEW ao \in BOOLEAN,
               Command(req, f, ao)
        PROVE  StampAgreement'
    BY <1>0, <1>1 DEF Command, UpdateCommand, Coded, TakenAway, Cleared, Cancels
  <1>2. CASE AcceptSignal
    BY <1>2 DEF AcceptSignal, Knockdown
  <1>3. ASSUME NEW pc \in BOOLEAN, Scan(pc)
        PROVE  StampAgreement'
    BY <1>3 DEF Scan, EvaluateSignal
  <1>4. CASE Elapse
    BY <1>4 DEF Elapse
  <1>5. CASE UNCHANGED leverVars
    BY <1>5 DEF leverVars
  <1>6. QED
    BY <1>1, <1>2, <1>3, <1>4, <1>5 DEF LeverNext

LEMMA StepInv == SignalInv /\ [LeverNext]_leverVars => SignalInv'
  <1> SUFFICES ASSUME SignalInv, [LeverNext]_leverVars PROVE SignalInv'
    OBVIOUS
  <1>1. LeverTypeOK' /\ RelayAgreement'
    BY TypeStep, RelayStep DEF SignalInv
  <1>2. ASSUME NoWrap PROVE StampAgreement'
    BY <1>2, StampStep DEF SignalInv
  <1>3. QED
    BY <1>1, <1>2 DEF SignalInv, NoWrap

\* A reachable lever satisfies the inductive invariant: one that runs time is at
\* Stop, one whose stick dropped is at Stop, a stick that dropped since the last
\* accepted control did so under a train, and while the counter does not wrap a
\* running time lock expires the full duration after it was started
\* (applyCTCControl, updateTimeLocking).
THEOREM Invariance == LeverSpec => []SignalInv
  BY InitInv, StepInv, PTL DEF LeverSpec

-----------------------------------------------------------------------------
\* A reachable lever has well-typed relays.
THEOREM TypeCorrect == LeverSpec => []LeverTypeOK
  <1>1. SignalInv => LeverTypeOK
    BY DEF SignalInv
  <1>2. QED
    BY <1>1, Invariance, PTL

\* While time locking runs the signal is at Stop and no stick is dropped,
\* for every clock width: an opposing signal cannot clear (ASR).
THEOREM LockedAtStop == LeverSpec => []TimeLockedAtStop
  <1>1. SignalInv => TimeLockedAtStop
    BY DEF SignalInv, RelayAgreement
  <1>2. QED
    BY <1>1, Invariance, PTL

\* The stick circuit: no signal clears again behind a train that accepted it
\* without fleeting until a new control is received.
THEOREM StickHolds == LeverSpec => []NoReclearWithoutCode
  <1>1. SignalInv => NoReclearWithoutCode
    BY DEF SignalInv, RelayAgreement, NoReclearWithoutCode
  <1>2. QED
    BY <1>1, Invariance, PTL

\* Only a scan lets go of a time lock: a control leaves it running or starts it
\* anew, a train has no signal to accept, and waiting alone releases nothing.
LEMMA OnlyScanReleases ==
    ASSUME SignalInv, LeverNext, sig.timeLock, ~sig'.timeLock
    PROVE  \E pc \in BOOLEAN : Scan(pc)
  <1> USE DEF SignalInv, LeverTypeOK, SignalState, Directions, RelayAgreement, TimeLockedAtStop
  <1>1. \A req \in Directions, f \in BOOLEAN, ao \in BOOLEAN :
            Command(req, f, ao) => sig'.timeLock
    BY DEF Command, UpdateCommand, Coded, TakenAway, Cleared, Cancels
  <1>2. ~AcceptSignal
    BY DEF AcceptSignal, Knockdown
  <1>3. ~Elapse
    BY DEF Elapse
  <1> QED
    BY <1>1, <1>2, <1>3 DEF LeverNext

\* Without a wrap of the counter, time locking lasts its full duration: the scan
\* that releases it has found the stamp reached.
THEOREM FullDuration == ASSUME NoWrap PROVE LeverSpec => TimeLockRunsFull
  <1>1. ASSUME SignalInv, LeverNext, sig.timeLock, ~sig'.timeLock
        PROVE  uptime - lockedAt >= Duration
    <2> USE <1>1 DEF SignalInv, LeverTypeOK, SignalState
    <2>1. NowMs = uptime /\ sig.timer = lockedAt + Duration
      BY ExpiryIsLater DEF StampAgreement
    <2>2. PICK pc \in BOOLEAN : Scan(pc)
      BY OnlyScanReleases
    <2>3. NowMs >= sig.timer
      BY <2>2 DEF Scan, EvaluateSignal
    <2> QED
      BY <2>1, <2>3
  <1>2. SignalInv /\ [LeverNext]_leverVars
          => [sig.timeLock /\ ~sig'.timeLock => uptime - lockedAt >= Duration]_leverVars
    BY <1>1
  <1> QED
    BY <1>2, Invariance, PTL DEF LeverSpec, TimeLockRunsFull

-----------------------------------------------------------------------------
\* Every operation is a step of the abstract lever or leaves it alone.
LEMMA StepRefines ==
    ASSUME NoWrap
    PROVE  SignalInv /\ [LeverNext]_leverVars => [Promise!ANext]_(Promise!avars)
  <1> SUFFICES ASSUME SignalInv, [LeverNext]_leverVars
               PROVE  Promise!ANext \/ UNCHANGED Promise!avars
    BY DEF Promise!avars
  <1> USE DEF SignalInv, LeverTypeOK, SignalState, Directions, RelayAgreement,
              TimeLockedAtStop, Promise!ANext, Promise!avars
  <1>0. NowMs = uptime /\ (sig.timeLock => sig.timer = lockedAt + Duration)
    BY ExpiryIsLater DEF StampAgreement
  <1>1. ASSUME NEW req \in Directions, NEW f \in BOOLEAN, NEW ao \in BOOLEAN,
               Command(req, f, ao)
        PROVE  Promise!ANext \/ UNCHANGED Promise!avars
    <2> USE <1>1 DEF Command, UpdateCommand, Coded, TakenAway, Cleared
    <2>1. CASE Cancels(sig, req) /\ ao
      <3>1. Promise!TakeAway
        BY <2>1 DEF Cancels, Promise!TakeAway
      <3>2. QED
        BY <3>1
    <2>2. CASE Cancels(sig, req) /\ ~ao
      <3>1. Promise!PutToStop
        BY <2>2 DEF Cancels, Promise!PutToStop
      <3>2. QED
        BY <3>1
    <2>3. CASE ~Cancels(sig, req) /\ (sig.timeLock \/ req = "STOP" \/ sig.active = req)
      <3>1. UNCHANGED Promise!avars
        BY <2>3 DEF Cancels
      <3>2. QED
        BY <3>1
    <2>4. CASE ~Cancels(sig, req) /\ ~sig.timeLock /\ req # "STOP" /\ sig.active # req
      <3>1. Promise!Clear(req)
        BY <2>4 DEF Cancels, Promise!Clear
      <3>2. QED
        BY <2>4, <3>1
    <2>5. QED
      BY <2>1, <2>2, <2>3, <2>4
  <1>2. CASE AcceptSignal
    <2>1. Promise!PutToStop
      BY <1>2 DEF AcceptSignal, Knockdown, Promise!PutToStop
    <2>2. QED
      BY <2>1
  <1>3. ASSUME NEW pc \in BOOLEAN, Scan(pc)
        PROVE  Promise!ANext \/ UNCHANGED Promise!avars
    <2> USE <1>3 DEF Scan, EvaluateSignal
    <2>1. CASE sig.timeLock /\ ~sig'.timeLock
      <3>1. Promise!Release
        BY <1>0, <2>1 DEF Promise!Release
      <3>2. QED
        BY <3>1
    <2>2. CASE ~sig.timeLock /\ sig'.active # sig.active
      <3>1. Promise!Clear(sig'.active)
        BY <2>2 DEF Promise!Clear
      <3>2. QED
        BY <2>2, <3>1
    <2>3. CASE sig'.timeLock = sig.timeLock /\ sig'.active = sig.active
      <3>1. UNCHANGED Promise!avars
        BY <2>3
      <3>2. QED
        BY <3>1
    <2>4. QED
      BY <2>1, <2>2, <2>3
  <1>4. CASE Elapse
    <2>1. CASE sig.timeLock
      BY <1>4, <2>1 DEF Elapse, Promise!Wait
    <2>2. CASE ~sig.timeLock
      BY <1>4, <2>2 DEF Elapse
    <2>3. QED
      BY <2>1, <2>2
  <1>5. CASE UNCHANGED leverVars
    BY <1>5 DEF leverVars
  <1>6. QED
    BY <1>1, <1>2, <1>3, <1>4, <1>5 DEF LeverNext

\* Without a wrap of the counter the lever implements approach locking: taken
\* away from a train it shows nothing until the release time has passed.
THEOREM Implements == ASSUME NoWrap PROVE LeverSpec => ImplementsApproachLocking
  <1>1. LeverInit => Promise!AInit
    BY DEF LeverInit, SignalAtRest, Promise!AInit
  <1>2. SignalInv /\ [LeverNext]_leverVars => [Promise!ANext]_(Promise!avars)
    BY StepRefines
  <1>3. QED
    BY <1>1, <1>2, Invariance, PTL DEF LeverSpec, ImplementsApproachLocking, Promise!ASpec
=============================================================================
