\* A text that lost its last bracket is obeyed with a function nobody coded.
CONSTANTS
    MaxEntries = 32
    Indices <- MCIndices
    Stations <- MCStations
    Columns <- MCColumns
    FieldControls <- MCFieldControls
    FieldIndications <- MCFieldIndications
    IndicationAt <- MCIndicationAt
    TxCapacity = 1
    RxCapacity = 1
    Setups <- MCTextSetups
    MaxInFlight = 1
    MaxPresses <- MCMaxPresses
    None = None
SPECIFICATION Spec
PROPERTIES
    ObeysOnlyWhatWasCoded
