SPECIFICATION Spec
CONSTANTS
    router = router
    skill = skill
    meta = meta
    policy = policy
    record = record
    notes = notes
    skillDir = skillDir
    skillSub = skillSub
    policyDir = policyDir
    stateDir = stateDir
    old = old
    new = new
    alien = alien
    absent = absent
    Files <- MCFiles
    Dirs <- MCDirs
    Above <- MCAbove
    Data <- MCData
    Absent = absent
    Plans <- ShortPlans
    MaxEdits = 2
INVARIANTS
    BackupCoversLoss
PROPERTIES
    EditsSurvive
