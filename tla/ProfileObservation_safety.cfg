SPECIFICATION Spec
CONSTANTS
    Bindings <- MCBindings
    Probes <- MCProbes
    Revision <- MCRevision
    Links <- MCLinks
    Files <- MCFiles
    Expected <- MCExpected
    BuiltIn <- MCBuiltIn
    ProfileFiles <- MCProfileFiles
    ProfileTexts <- MCProfileTexts
    Responsibilities = {"Plan", "Review"}
    InitialDisks <- MCInitialDisks
    Requests <- MCRequests
    Answers <- MCAnswers
    MaxDiagnostics = 2
    MaxEdits = 2
    None = None
INVARIANTS
    TypeOK
    ClaimsAreLive
    OneInstallation
    VerifiedOverlayFits
    NobodyForgotten
CHECK_DEADLOCK FALSE
