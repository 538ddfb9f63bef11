CONSTANTS
    NCpus = 2
    Sources = {1, 2}
    EnableValues = {{1, 2}}
    EnableRewrites = FALSE
    TimeWidth = 4
    MaxTime = 3
    TimecmpValues = {2}
    HalfValues = {1}
SPECIFICATION Spec
INVARIANT NoSpuriousEip
