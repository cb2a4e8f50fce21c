SPECIFICATION StreamsSpec
CONSTANTS
    HighWater = 2
    MaxWrites = 4
    MaxArrivals = 4
INVARIANTS
    WritesInOrder
    NoSocketLeft
    Backpressure
PROPERTIES
    ImplementsOrderedStream
    WebSocketKeepsOrder
    DataGoesThrough
CHECK_DEADLOCK FALSE
