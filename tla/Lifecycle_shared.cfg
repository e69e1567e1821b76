SPECIFICATION Spec
CONSTANTS
    Installations = {"user", "p"}
    Targets = {"claude", "cursor"}
    TargetSets = {{"claude"}, {"claude", "cursor"}}
    PolicySet <- MCPolicySet
    Requests <- SharedRequests
    Legacy = {"p"}
    UserFiles <- SharedUserFiles
    UserDirs <- SharedUserDirs
    Edits = {"write"}
    Procs = {a, b}
    MaxCommands = 3
    MaxEdits = 1
    MaxKills = 0
SYMMETRY Processes
CHECK_DEADLOCK FALSE
INVARIANTS
    NoSharedOwnership
PROPERTY NoUserLoss
