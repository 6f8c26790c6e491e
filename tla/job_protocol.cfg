SPECIFICATION Spec
CONSTANTS
    r1 = r1
    r2 = r2
    r3 = r3
    Requests = {r1, r2, r3}
    MayAsk <- JobsAndCancel
    PipeCapacity = 1
    DaemonMayDie = FALSE
INVARIANTS
    TypeOK
    ResultTruthful
    AnswerTruthful
    CancelledOnlyIfAsked
    CancelRefusedAfterReport
    IInv
PROPERTIES
    ImplementsService
