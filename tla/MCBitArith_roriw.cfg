CONSTANTS XLEN = 8
          MaxCpus = 2
SPECIFICATION Spec
INVARIANT RoriwMatchesZbb
CHECK_DEADLOCK FALSE
