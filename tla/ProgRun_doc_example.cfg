\* The RunOpts of the usage example in Run's doc comment, Run once.
CONSTANTS
    MaxSize <- MCMaxSize
    CIntSpan <- MCCIntSpan
    MaxRuns <- MCMaxRuns1
    Inputs <- DocExampleInputs
SPECIFICATION Spec
\* A Go panic ends the program, and the caller stops after MaxRuns calls.
CHECK_DEADLOCK FALSE
INVARIANT MemorySafe
