------------------------------ MODULE MCStations ------------------------------
(***************************************************************************)
(* Three small stations and the plants of MCPlantFile for one run: a lever *)
(* with its real clock, a spur with a dependent derail, the end of a       *)
(* block, and a plant that is configured, saved and started.  They have    *)
(* nothing in common.  Each has its own variables, all begin at rest, and  *)
(* a behaviour takes steps of the one that `station' names: the states of  *)
(* the run are the sum of the four, not the product.                       *)
(*                                                                         *)
(* The lever is SignalControl and the plant is PlantFile themselves, with  *)
(* the constants of the configuration.                                     *)
(***************************************************************************)
EXTENDS MCPlantFile, SignalControl

VARIABLES
    station,  \* the station that runs
    \* the spur, and the block end
    stc, sline, ssw, slocks, ssig, sroute, ssection, smast, snext, sheld, sunderway,
    btc, bline, bsw, blocks, bsig, broute, bsection, bmast, bnext, bheld, bunderway

spurVars == <<stc, sline, ssw, slocks, ssig, sroute, ssection, smast, snext, sheld, sunderway>>
endVars == <<btc, bline, bsw, blocks, bsig, broute, bsection, bmast, bnext, bheld, bunderway>>

none == "none"

\* A route with nothing but what every route has: the rest is EXCEPT.
PlainRoute(S, authority, direction, mastName, aligns, track, entrance) ==
    [authority |-> authority, direction |-> direction, mast |-> mastName,
     ceiling |-> "CLEAR", aligns |-> aligns,
     release |-> [s \in S |-> none], blocks |-> track, entrance |-> entrance,
     approach |-> none, home |-> {}, proceed |-> none, engineReturn |-> FALSE,
     origin |-> none, os |-> none, automatic |-> FALSE, incomplete |-> FALSE]

-----------------------------------------------------------------------------
(* A spur behind a main switch with a dependent derail and an electric     *)
(* lock, with an engine return to the cars left in the spur and a route    *)
(* without a mast.                                                         *)

SpurSwitches == {"sw1", "sw1D"}

\* Out of the spur, under the lever.
OutOfSpur ==
    [PlainRoute(SpurSwitches, "lever2", "LEFT", "mastE",
                [s \in {"sw1"} |-> "REVERSE"], {"os"}, "os")
     EXCEPT !.approach = "near"]

\* Back onto the cars standing in the spur, with no lever.
BackToCars ==
    [PlainRoute(SpurSwitches, none, "RIGHT", "mastR",
                [s \in {"sw1"} |-> "REVERSE"], {"os"}, "os")
     EXCEPT !.engineReturn = TRUE, !.origin = "spur", !.os = "os"]

\* A route without a mast, for which the lever is cleared and never displayed.
DarkSpur ==
    [PlainRoute(SpurSwitches, "lever2", "RIGHT", none,
                [s \in {"sw1"} |-> "NORMAL"], {"spur"}, "spur")
     EXCEPT !.ceiling = "APPROACH"]

SpurTable == <<OutOfSpur, BackToCars, DarkSpur>>
SpurPair == [s \in SpurSwitches |-> IF s = "sw1" THEN "sw1D" ELSE "sw1"]
SpurDetectors == [s \in SpurSwitches |-> IF s = "sw1" THEN <<"os">> ELSE <<>>]
SpurDemands == {"lever2"} \X Directions \X {FALSE}

Spur == INSTANCE InterlockingPlant WITH
    Switches <- SpurSwitches, Pair <- SpurPair, Derails <- {"sw1D"},
    Circuits <- {"os", "spur", "near"}, Lines <- {}, Authorities <- {"lever2"},
    Masts <- {"mastE", "mastR"}, Table <- SpurTable, Detectors <- SpurDetectors,
    None <- none, Delayed <- {}, Watched <- {},
    PointsReports <- {"NORMAL", "REVERSE"}, Overruns <- {"sw1"},
    Demands <- SpurDemands, Levers <- {"sw1"},
    tc <- stc, line <- sline, sw <- ssw, locks <- slocks, sig <- ssig,
    route <- sroute, section <- ssection, mast <- smast, next <- snext,
    held <- sheld, underway <- sunderway

-----------------------------------------------------------------------------
(* The end of a block: one switch with a detector that has a dropout       *)
(* delay, and a route under the home and proceed line circuits of the      *)
(* block ahead, whose sources can fall silent.                             *)

OutToBlock ==
    [PlainRoute({"sw1"}, "lever2", "LEFT", "mastE",
                [s \in {"sw1"} |-> "NORMAL"], {"os"}, "os")
     EXCEPT !.home = {"lineH"}, !.proceed = "lineD"]

BlockEndTable == <<OutToBlock>>
BlockEndPair == [s \in {"sw1"} |-> s]
BlockEndDetectors == [s \in {"sw1"} |-> <<"os">>]
BlockEndDemands == {"lever2"} \X Directions \X BOOLEAN

BlockEnd == INSTANCE InterlockingPlant WITH
    Switches <- {"sw1"}, Pair <- BlockEndPair, Derails <- {},
    Circuits <- {"os"}, Lines <- {"lineH", "lineD"}, Authorities <- {"lever2"},
    Masts <- {"mastE"}, Table <- BlockEndTable, Detectors <- BlockEndDetectors,
    None <- none, Delayed <- {"os"}, Watched <- {"os", "lineH"},
    PointsReports <- {"NORMAL"}, Overruns <- {},
    Demands <- BlockEndDemands, Levers <- {},
    tc <- btc, line <- bline, sw <- bsw, locks <- blocks, sig <- bsig,
    route <- broute, section <- bsection, mast <- bmast, next <- bnext,
    held <- bheld, underway <- bunderway

-----------------------------------------------------------------------------
stations == <<station, leverVars, spurVars, endVars, vars>>

\* Where the plant is not the one that runs, one program stands for all.
StationsInit ==
    /\ station \in {"lever", "spur", "blockEnd", "plant"}
    /\ LeverInit /\ Spur!Init /\ BlockEnd!Init /\ Init
    /\ station # "plant" => author = Small

StationsNext ==
    /\ UNCHANGED station
    /\ \/ station = "lever" /\ LeverNext /\ UNCHANGED <<spurVars, endVars, vars>>
       \/ station = "spur" /\ Spur!Next /\ UNCHANGED <<leverVars, endVars, vars>>
       \/ station = "blockEnd" /\ BlockEnd!Next /\ UNCHANGED <<leverVars, spurVars, vars>>
       \/ station = "plant" /\ Next /\ UNCHANGED <<leverVars, spurVars, endVars>>

\* The loop of the station that runs scans for ever.
ScanOfStation ==
    \/ station = "spur" /\ Spur!ScanStep /\ UNCHANGED <<station, leverVars, endVars, vars>>
    \/ station = "blockEnd" /\ BlockEnd!ScanStep /\ UNCHANGED <<station, leverVars, spurVars, vars>>

\* A delay that runs in the station is over some time between two scans.
ReleaseTimeOfStation ==
    \/ /\ station = "spur" /\ Spur!ReleaseTimeRuns("lever2")
       /\ UNCHANGED <<station, leverVars, endVars, vars>>
    \/ /\ station = "blockEnd" /\ BlockEnd!ReleaseTimeRuns("lever2")
       /\ UNCHANGED <<station, leverVars, spurVars, vars>>

DropoutOfStation ==
    /\ station = "blockEnd" /\ BlockEnd!DropoutPasses("os")
    /\ UNCHANGED <<station, leverVars, spurVars, vars>>

\* The fairness of FairSpec, for the station that runs.  The lever and the plant
\* have none.
StationsSpec ==
    /\ StationsInit /\ [][StationsNext]_stations
    /\ WF_stations(ScanOfStation)
    /\ SF_stations(ReleaseTimeOfStation)
    /\ SF_stations(DropoutOfStation)

-----------------------------------------------------------------------------
\* The spur.  A machine and its dependent derail are commanded and locked
\* alike, whichever of the two a throw, a lock or an unlock names.
SpurPairsAgree == Spur!PairsAgree

\* What a mast of the spur shows is secured: also the engine return, which has
\* no lever, under points that may not arrive and a hand lock.
SpurDisplayedRouteSecured == Spur!DisplayedRouteSecured

\* Time locking of the spur ends, whatever the office, the cars and points do.
SpurTimeLockEnds == Spur!TimeLockEnds

\* No lock of the spur outlives its reason, save the electric one.
SpurLocksRelease == Spur!LocksRelease

\* The block end.  A train keeps the switch locked under it, through the
\* dropout delay of the circuit and while its source falls silent.
BlockEndTrainHoldsRoute == BlockEnd!TrainHoldsRoute

\* A fleeted signal clears again by itself once the track has been vacated,
\* the delay is over and the line circuits of the block are there.
BlockEndFleetReclears == BlockEnd!FleetReclears
=============================================================================
