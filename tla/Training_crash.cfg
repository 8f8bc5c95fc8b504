\* Two operators over one directory, trainers killed at any point.
CONSTANTS
    t1 = t1
    t2 = t2
    Trainers = {t1, t2}
    Nobody = Nobody
    MaxSteps = 4
    ValidationInterval = 1
    CheckpointInterval = 2
    Qualities <- Scores
    MaxCrashes = 2
SPECIFICATION FairSpec
CHECK_DEADLOCK FALSE
INVARIANTS
    CrashInvisible
PROPERTIES
    TrainingSettles
