\* A lever whose counter does not wrap within the horizon, a spur with a derail,
\* the end of a block, and a plant that is configured: one of them runs.
SPECIFICATION StationsSpec
CONSTANTS
    ClockMod = 64
    Duration = 3
    Horizon = 9
    MaxRoutes = 32
    MaxRouteTerms = 8
    MaxBlockFacts = 4
    MaxLineMasts = 4
    MaxGaps = 16
    MaxCrossovers = 1
    LibraryDefault = 5
    Authors <- MCAuthors
INVARIANTS TimeLockedAtStop NoReclearWithoutCode SignalInv
           SpurPairsAgree SpurDisplayedRouteSecured BlockEndTrainHoldsRoute
           TypeOK NoTermLost StartsAsSaved GapsStayGaps FileSettles
PROPERTIES TimeLockRunsFull ImplementsApproachLocking
           SpurTimeLockEnds SpurLocksRelease BlockEndFleetReclears
