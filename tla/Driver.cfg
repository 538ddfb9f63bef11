CONSTANTS
    NCpus = 2
    Request = 2
    MaxInsns = 7
    ExeTrace = 4
    Interactive = FALSE
    StfModes = {"insn", "macro"}
    StfInsnStart = 2
    StfInsnLength = 2
    StfExitOnStop = TRUE
SPECIFICATION FairSpec
INVARIANTS TypeOK StfTracesAtMostLength
PROPERTY TracedSingleStep RecordsOnlyToOpenWriter RecordsAreRetired LoopEnds
