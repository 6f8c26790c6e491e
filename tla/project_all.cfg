SPECIFICATION Spec
CONSTANTS
    amp = amp
    blinky = blinky
    clock = clock
    dirA = dirA
    NoDir = NoDir
    NoProject = NoProject
    Names = {amp, blinky, clock}
    Dirs = {dirA}
    Layout <- LinkedAndNot
    Handed <- OwnFolder
    Edits = {e1}
    Reviews = {j1}
    Routes = {"load", "set", "save", "create", "hide", "restore", "rename", "open"}
    MayBeKilled = FALSE
INVARIANTS
    TypeOK
CHECK_DEADLOCK FALSE
