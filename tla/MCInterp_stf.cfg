\* STF macro tracing with exit on the stop opcode, co-simulation (no
\* interrupt is taken without a pending_interrupt), misa with C, TW/TSR/TVM
\* clear, floating point off.
CONSTANTS
    Regs <- MCRegs
    Vals <- MCVals
    Addrs = {A1, A2}
    MaxBatch <- MCMaxBatch
    MaxInsns <- MCMaxInsns
    MaxMemSeq <- MCMaxMemSeq
    Cosim = TRUE
    PendingInterrupt <- MCNoPendingInterrupt
    ExtC = TRUE
    MstatusTW = FALSE
    MstatusTSR = FALSE
    MstatusTVM = FALSE
    FsOn = FALSE
    IgnoreSbiShutdown = FALSE
    StfTrace = TRUE
    StfExitOnStop = TRUE
SPECIFICATION Spec
SYMMETRY MCSymmetry
INVARIANT StfStepPerCall
