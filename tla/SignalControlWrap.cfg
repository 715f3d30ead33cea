\* The counter wraps after 8 values, as the uint32 counter does after 2^32.
SPECIFICATION LeverSpec
CONSTANTS
    ClockMod = 8
    Duration = 3
    Horizon = 9
PROPERTIES TimeLockRunsFull
