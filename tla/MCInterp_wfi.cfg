\* Instructions retired while powered down by wfi.
CONSTANTS
    Regs <- MCRegs
    Vals <- MCVals
    Addrs = {A1, A2}
    MaxBatch <- MCMaxBatch
    MaxInsns <- MCMaxInsns
    MaxMemSeq <- MCMaxMemSeq
    Cosim = FALSE
    PendingInterrupt <- MCNoPendingInterrupt
    ExtC = FALSE
    MstatusTW = TRUE
    MstatusTSR = TRUE
    MstatusTVM = TRUE
    FsOn = TRUE
    IgnoreSbiShutdown = FALSE
    StfTrace = FALSE
    StfExitOnStop = FALSE
SPECIFICATION Spec
SYMMETRY MCSymmetry
PROPERTY WfiSuspends
