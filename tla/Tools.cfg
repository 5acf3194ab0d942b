CONSTANTS
    p1 = p1
    p2 = p2
    Processes <- TwoProcesses
    Free = Free
    None = None
    Absent <- NoFiles
    Damaged <- SomeFiles
    Evidence <- ThreeVersions
    Lineage <- TwoFundings
    Outcome <- StudyOutcomes
    Drafts <- SomeDrafts
    MaxCalls = 3
    MaxChanges = 1
SYMMETRY Symmetry
SPECIFICATION Spec
INVARIANTS ResultsDescribeInputs CommittedWhileTrue NoRepeat EvaluationsJudgeTheirHead
    StandingIsEarned VerdictStands
PROPERTIES OutputsStand 
CHECK_DEADLOCK FALSE
