\* The --march parser on every string of IsaInputSet.
CONSTANTS XLEN = 8
          MaxCpus = 2
SPECIFICATION Spec
INVARIANT IsaOnlyNamed
CHECK_DEADLOCK FALSE
