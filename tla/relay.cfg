\* Four bytes of request, of which a part is in the data list.
SPECIFICATION FairSpec
CONSTANTS
    ReqLen = 4
    RespLen = 3
    HeaderLen = 2
    FlagLen = 3
    BufferLen = 2
    Queues <- MCQueues
INVARIANTS TypeOK RequestInOrder ResponseInOrder WholeResponse ReadinessNotStale NothingHeldBack
PROPERTIES Released
