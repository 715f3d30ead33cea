CONSTANTS
    MaxEntries = 32
    Indices <- MCIndices
    Stations <- MCStations
    Columns <- MCColumns
    FieldControls <- MCFieldControls
    FieldIndications <- MCFieldIndications
    IndicationAt <- MCIndicationAt
    TxCapacity = 1
    RxCapacity = 1
    Setups <- MCSetups
    MaxInFlight = 1
    MaxPresses <- MCMaxPresses
    None = None
SPECIFICATION Spec
INVARIANTS
    TypeOK
    OneControlPerCode
    FramesAreExact
    NoPartialControls
PROPERTIES
    PanelNeverGoesBack
    PanelCatchesUp
    ControlsArePlayed
