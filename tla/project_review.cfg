SPECIFICATION Spec
CONSTANTS
    amp = amp
    blinky = blinky
    clock = clock
    dirA = dirA
    NoDir = NoDir
    NoProject = NoProject
    Names = {amp, blinky, clock}
    Dirs = {dirA}
    Layout <- LinkedAndNot
    Handed <- OwnFolder
    Edits = {e1, e2}
    Reviews = {j1}
    Routes = {"load", "set"}
    MayBeKilled = FALSE
INVARIANTS
    AcknowledgedEditsKept
CHECK_DEADLOCK FALSE
