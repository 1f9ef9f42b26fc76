SPECIFICATION FairSpec
CONSTANTS
    Sessions = {s1}
    Queue = 2
    Batch = 2
    Block = 2
    Emitted = {"metric", "raw", "notable"}
    MaxEvents = 3
    Command = Command
INVARIANTS  LossIsCounted
PROPERTY StopEnds
