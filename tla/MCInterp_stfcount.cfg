\* The batch contract while STF macro tracing is active.
CONSTANTS
    Regs <- MCRegs
    Vals <- MCVals
    Addrs = {A1, A2}
    MaxBatch <- MCMaxBatch
    MaxInsns <- MCMaxInsns
    MaxMemSeq <- MCMaxMemSeq
    Cosim = FALSE
    PendingInterrupt <- MCNoPendingInterrupt
    ExtC = TRUE
    MstatusTW = FALSE
    MstatusTSR = FALSE
    MstatusTVM = FALSE
    FsOn = TRUE
    IgnoreSbiShutdown = FALSE
    StfTrace = TRUE
    StfExitOnStop = TRUE
SPECIFICATION Spec
SYMMETRY MCSymmetry
PROPERTY BatchRefinement
