\* Two harts, each with its S and M contexts (fdt.cpp 390-397); the
\* sources enabled for both harts.
CONSTANTS
    NCpus = 2
    Sources = {1, 2}
    EnableValues = {{1, 2}}
    EnableRewrites = FALSE
    TimeWidth = 4
    MaxTime = 3
    TimecmpValues = {2}
    HalfValues = {1}
SPECIFICATION Spec
INVARIANT NoCrash
