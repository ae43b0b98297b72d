\* Every RunOpts of small buffers, Run twice with the same RunOpts.
CONSTANTS
    MaxSize <- MCMaxSize
    CIntSpan <- MCCIntSpan
    MaxRuns <- MCMaxRuns2
    Inputs <- EnumInputs
SPECIFICATION Spec
\* A Go panic ends the program, and the caller stops after MaxRuns calls.
CHECK_DEADLOCK FALSE
INVARIANT TypeOK
INVARIANT OutputMatchesKernel
PROPERTY SizedRunIsSafe
