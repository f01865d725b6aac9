SPECIFICATION Spec
CONSTANTS
    j1 = j1
    j2 = j2
    j3 = j3
    Jobs = {j1, j2, j3}
    Interval = 2
    MaxCrashes = 1
    MaxFailures = 1
SYMMETRY JobSymmetry
INVARIANTS
    TypeOK
    ResumeTellsTruth
    LossBounded
    CheckpointLeads
