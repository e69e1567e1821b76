SPECIFICATION Spec
CONSTANTS
    router = router
    skill = skill
    policy = policy
    record = record
    skillDir = skillDir
    skillSub = skillSub
    policyDir = policyDir
    old = old
    new = new
    alien = alien
    absent = absent
    Files <- MCFiles
    Dirs <- MCDirs
    Above <- MCAbove
    Data <- MCData
    Absent = absent
    Plans <- MCPlans
    MaxEdits = 2
INVARIANTS
    TypeOK
    FailureRestores
    CommitIsComplete
    StateTrailsDisk
PROPERTIES
    EditsSurvive
