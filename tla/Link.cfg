SPECIFICATION Spec
CONSTANTS
    RX_LEN = 3
    TX_LEN = 6
    MaxFrames = 3
    MaxBad = 1
    MaxSends = 1
INVARIANTS WholeFrames
PROPERTIES DeliveredInOrder OwnedUntouched RaisedIsDelivered
CHECK_DEADLOCK FALSE
