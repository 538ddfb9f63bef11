CONSTANTS
    RomBase <- MCRomBase
    BootBase <- MCBootBase
    KernelOffset <- MCKernelOffset
    Params <- MCParamsCompact
SPECIFICATION Spec
INVARIANT BootHandsFdt
