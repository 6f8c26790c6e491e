SPECIFICATION Spec
CONSTANTS
    amp = amp
    blinky = blinky
    clock = clock
    dirA = dirA
    NoDir = NoDir
    NoProject = NoProject
    Names = {amp, blinky, clock}
    Dirs = {dirA}
    Layout <- LinkedAndNot
    Handed <- OwnFolder
    Edits = {e1, e2}
    Reviews = {}
    Routes = {"load", "set", "hide", "restore", "rename"}
    MayBeKilled = TRUE
INVARIANTS
    AcknowledgedEditsKept
    OneFolderOneProject
    UnlinkedRemovalSticks
    KillDamagesOneFile
CHECK_DEADLOCK FALSE
