\* Sized RunOpts with a Repeat too large for C.int.
CONSTANTS
    MaxSize <- MCMaxSize
    CIntSpan <- MCCIntSpan
    MaxRuns <- MCMaxRuns1
    Inputs <- LargeRepeatInputs
SPECIFICATION Spec
\* A Go panic ends the program, and the caller stops after MaxRuns calls.
CHECK_DEADLOCK FALSE
PROPERTY RepeatPreserved
