CONSTANTS
    RomBase <- MCRomBase
    BootBase <- MCBootBase
    KernelOffset <- MCKernelOffset
    Params <- MCParams
SPECIFICATION Spec
INVARIANT SetupFailureExits
