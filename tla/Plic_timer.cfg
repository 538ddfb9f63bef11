CONSTANTS
    NCpus = 1
    Sources = {1, 2}
    EnableValues = {{}}
    EnableRewrites = FALSE
    TimeWidth = 4
    MaxTime = 3
    TimecmpValues = {2, 15}
    HalfValues = {1}
SPECIFICATION Spec
INVARIANT MtipOnlyWhenDue
