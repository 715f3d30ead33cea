\* A unit that starts from a file in which an automatic signal reads the line of
\* a control point.
SPECIFICATION Spec
CONSTANTS
    MaxRoutes = 32
    MaxRouteTerms = 8
    MaxBlockFacts = 4
    MaxLineMasts = 4
    MaxGaps = 16
    MaxCrossovers = 1
    LibraryDefault = 5
    Authors <- MCReadings
INVARIANTS
    GeneratedNeverConflicts
