\* Main configuration: driver not co-simulating, no STF tracing, misa
\* without C (misaligned-target traps reachable), TW/TSR/TVM set.
CONSTANTS
    Regs <- MCRegs
    Vals <- MCVals
    Addrs = {A1, A2}
    MaxBatch <- MCMaxBatch
    MaxInsns <- MCMaxInsns
    MaxMemSeq <- MCMaxMemSeq
    Cosim = FALSE
    PendingInterrupt <- MCNoPendingInterrupt
    ExtC = FALSE
    MstatusTW = TRUE
    MstatusTSR = TRUE
    MstatusTVM = TRUE
    FsOn = TRUE
    IgnoreSbiShutdown = FALSE
    StfTrace = FALSE
    StfExitOnStop = FALSE
SPECIFICATION Spec
INVARIANT TypeOK
PROPERTIES
    BatchRefinement
    NoWritebackOnTrap
    ReservationSound
SYMMETRY MCSymmetry
