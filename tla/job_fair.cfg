SPECIFICATION FairSpec
CONSTANTS
    r1 = r1
    r2 = r2
    r3 = r3
    Requests = {r1, r2}
    MayAsk <- JobAndRival
    PipeCapacity = 1
    DaemonMayDie = TRUE
PROPERTIES
    TrackedJobSettles
    JobsDrain
    RejectedAfterDeath
