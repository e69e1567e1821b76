SPECIFICATION Spec
CONSTANTS
    Installations = {"p"}
    Targets = {"codex", "opencode"}
    TargetSets = {{"codex"}, {"opencode"}, {"codex", "opencode"}}
    PolicySet <- MCPolicySet
    Requests <- MCRequests
    Legacy = {}
    UserFiles <- MCUserFiles
    UserDirs <- MCUserDirs
    Edits = {"write", "change", "break", "delete"}
    Procs = {a}
    MaxCommands = 3
    MaxEdits = 1
    MaxKills = 1
CHECK_DEADLOCK FALSE
INVARIANTS
    TypeOK
    RecordsStayReadable
    NothingLeft
    CleanMeansManageable
    ForceHeals
    CheckSeesEverything
PROPERTIES
    AppliedMeansClean
    NoUserLoss
