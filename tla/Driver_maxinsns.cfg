CONSTANTS
    NCpus = 2
    Request = 2
    MaxInsns = 4
    ExeTrace = 100
    Interactive = FALSE
    StfModes = {"off"}
    StfInsnStart = 2
    StfInsnLength = 2
    StfExitOnStop = TRUE
SPECIFICATION Spec
INVARIANT MaxinsnsBudgetRun
