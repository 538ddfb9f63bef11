CONSTANTS XLEN = 8
          MaxCpus = 2
SPECIFICATION Spec
INVARIANT CtzwMatchesZbb
CHECK_DEADLOCK FALSE
