CONSTANTS XLEN = 8
          MaxCpus = 2
SPECIFICATION Spec
INVARIANT MulhMatchesProduct
CHECK_DEADLOCK FALSE
