\* A peer that goes away.
SPECIFICATION Spec
CONSTANTS
    ReqLen = 4
    RespLen = 2
    HeaderLen = 2
    FlagLen = 3
    BufferLen = 1
    Queues <- MCWholeHeaders
INVARIANTS FailsAlone
