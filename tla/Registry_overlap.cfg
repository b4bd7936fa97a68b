CONSTANTS
    Key = {"board"}
    Stream = {"first", "second"}
    MaxChannel = 2
SPECIFICATION RegSpec
INVARIANTS
    OneConsumer
