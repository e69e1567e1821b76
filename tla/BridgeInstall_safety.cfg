SPECIFICATION Spec
CONSTANTS
    Versions <- MCVersions
    MaxCommands = 3
    MaxEdits = 1
    MaxFaults = 2
INVARIANTS
    TypeOK
    FailureIsHonest
    OneFaultIsUndone
    SuccessIsComplete
    PreviousPayloadKept
PROPERTIES
    EditsSurvive
