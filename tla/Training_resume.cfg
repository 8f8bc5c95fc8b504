\* A source that nothing interrupted, and one resume attempt of it.
CONSTANTS
    t1 = t1
    t2 = t2
    Trainers = {t1, t2}
    Nobody = Nobody
    MaxSteps = 10
    ValidationInterval = 5
    CheckpointInterval = 5
    Qualities <- Scores
    MaxCrashes = 0
SPECIFICATION Spec
CHECK_DEADLOCK FALSE
INVARIANTS
    ResumeSucceeds
