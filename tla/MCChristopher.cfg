\* A train on the second of two routes of one lever and direction.
SPECIFICATION Spec
CONSTANTS
    sw1 = sw1  sw3 = sw3  sw3B = sw3B  t1 = t1  t3 = t3  t3B = t3B  lever2 = lever2  mastN = mastN  null = null
    Switches = {sw1, sw3, sw3B}
    Pair <- MCPair
    Derails = {}
    Circuits = {t1, t3, t3B}
    Lines = {}
    Authorities = {lever2}
    Masts = {mastN}
    Table <- BothRoutes
    Detectors <- MCDetectors
    None = null
    Delayed = {}
    Watched = {}
    PointsReports = {"REVERSE"}
    Overruns = {}
    Demands <- MCDemands
    Levers = {}
INVARIANT TrainHoldsRoute
