CONSTANTS
    client_stream = client_stream
    replica_stream = replica_stream
    NoStream = NoStream
    LogEvent = LogEvent
SPECIFICATION Spec
INVARIANTS
    ConnectedIsLinked PacketsAreKept StreamsAreKept NobodySleepsOnWork
PROPERTIES
    EverythingArrives EveryRequestIsAnswered
CHECK_DEADLOCK FALSE
