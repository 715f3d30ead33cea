\* A control moves points that the inputs already show occupied.
SPECIFICATION Spec
CONSTANTS
    sw3 = sw3  sw3B = sw3B  t3 = t3  t3B = t3B  approachA = approachA  lever2 = lever2  lever4 = lever4  mastN = mastN  mastS = mastS  mast4 = mast4  null = null
    Switches = {sw3, sw3B}
    Pair <- MCPair
    Derails = {}
    Circuits = {t3, t3B, approachA}
    Lines = {}
    Authorities = {lever2, lever4}
    Masts = {mastN, mastS, mast4}
    Table <- TwoRoutes
    Detectors <- MCDetectors
    None = null
    Delayed = {}
    Watched = {t3, t3B}
    PointsReports = {"NORMAL", "REVERSE"}
    Overruns = {}
    Demands <- MCDemands
    Levers = {}
PROPERTY DetectorHoldsPoints
