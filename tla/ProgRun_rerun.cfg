\* Carefully sized RunOpts, Run twice with the same RunOpts.
CONSTANTS
    MaxSize <- MCMaxSize
    CIntSpan <- MCCIntSpan
    MaxRuns <- MCMaxRuns2
    Inputs <- SizedInputs
SPECIFICATION Spec
\* A Go panic ends the program, and the caller stops after MaxRuns calls.
CHECK_DEADLOCK FALSE
INVARIANT MemorySafe
