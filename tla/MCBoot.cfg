CONSTANTS
    RomBase <- MCRomBase
    BootBase <- MCBootBase
    KernelOffset <- MCKernelOffset
    Params <- MCParams
SPECIFICATION FairSpec
INVARIANTS TypeOK BootHandsFdt LoadsInRam
PROPERTY HartsLeaveRom
