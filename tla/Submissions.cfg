SPECIFICATION Spec

CONSTANTS
    r1 = r1
    Reviewer = {r1}
    MaxRetries = 2
    MaxRevision = 2
    MaxPlan = 1

VIEW LiveState

INVARIANTS SubmissionsTypeOK DecisionIsWhole ScreensOffer

PROPERTIES DossierFrozen ScorecardsStand FormsAreSaved
