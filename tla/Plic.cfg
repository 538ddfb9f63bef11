CONSTANTS
    NCpus = 2
    Sources = {1, 2}
    EnableValues = {{}, {1, 2}}
    EnableRewrites = TRUE
    TimeWidth = 4
    MaxTime = 3
    TimecmpValues = {2}
    HalfValues = {0}
SPECIFICATION Spec
INVARIANTS TypeOK ClaimExclusive
