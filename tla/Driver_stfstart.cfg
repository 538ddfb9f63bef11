CONSTANTS
    NCpus = 2
    Request = 2
    MaxInsns = 7
    ExeTrace = 100
    Interactive = FALSE
    StfModes = {"insn"}
    StfInsnStart = 3
    StfInsnLength = 2
    StfExitOnStop = TRUE
SPECIFICATION Spec
INVARIANT StfStartsAtInsn
