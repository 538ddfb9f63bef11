CONSTANTS XLEN = 8
          MaxCpus = 2
SPECIFICATION Spec
INVARIANT SwitchesTakeNoValue
CHECK_DEADLOCK FALSE
