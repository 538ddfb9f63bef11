CONSTANTS XLEN = 8
          MaxCpus = 2
SPECIFICATION Spec
INVARIANT ParseNeverCrashes
CHECK_DEADLOCK FALSE
