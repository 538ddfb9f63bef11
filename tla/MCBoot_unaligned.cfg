CONSTANTS
    RomBase <- MCRomBase
    BootBase <- MCBootBase
    KernelOffset <- MCKernelOffset
    Params <- MCParamsUnaligned
SPECIFICATION Spec
INVARIANT LoadsInRam
