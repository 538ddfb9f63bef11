CONSTANT Machines <- MCMachines
SPECIFICATION Spec
INVARIANTS TypeOK BuffersCover DecodesToCalls PhandlesResolve
