CONSTANTS XLEN = 8
          MaxCpus = 2
SPECIFICATION Spec
INVARIANTS RotatesMatchZbb DivRemMatchIsa ClmulMatchesProduct BitFieldMatchesAndes MulhuMatchesProduct ZbbUnaryMatchIsa
CHECK_DEADLOCK FALSE
