------------------------------- MODULE ProgRun -------------------------------
(***************************************************************************)
(* BPFProg.Run (src/prog.go) and the two conversions it rests on:          *)
(* runOptsToC turns a Go RunOpts into a C bpf_test_run_opts, passing a     *)
(* pointer to the first element of each non-nil slice and the size field  *)
(* the caller set beside it; runOptsFromC, after bpf_prog_test_run_opts    *)
(* succeeded, replaces each non-nil slice by C.GoBytes of the pointer and  *)
(* the size libbpf reports, and copies the scalar results back.            *)
(*                                                                         *)
(* A Go slice is abstracted to whether it is nil, its length and its       *)
(* capacity: &s[0] panics when the length is 0, and the memory behind the  *)
(* pointer is the capacity.  Bytes themselves are not modelled, only how   *)
(* many are read or written, which is what decides whether the kernel or   *)
(* GoBytes touches memory outside a Go buffer.                             *)
(*                                                                         *)
(* The kernel is the environment: BPF_PROG_TEST_RUN reads data_size_in and *)
(* ctx_size_in bytes, and produces some output and context whose sizes the *)
(* program decides (it may read maps, so two runs may differ).  It clamps  *)
(* the output copy to data_size_out unless that is 0 (then it copies all), *)
(* the context copy to ctx_size_out, fails with ENOSPC when it clamped,    *)
(* and reports the full sizes.  It may also fail before touching anything *)
(* (EINVAL, or the ENOMEM of cgo_bpf_test_run_opts_new).                   *)
(***************************************************************************)
EXTENDS Integers

CONSTANTS
    MaxSize,   \* largest length, capacity, size field or output size
    CIntSpan,  \* 2^w for the width w of C.int
    MaxRuns,   \* Run calls the caller makes with the same RunOpts
    Inputs     \* the RunOpts values the caller may start from

ASSUME MaxSizeAssumption == MaxSize \in Nat
ASSUME CIntSpanAssumption == CIntSpan \in Nat \ {0}
ASSUME MaxRunsAssumption == MaxRuns \in Nat

Sizes == 0 .. MaxSize

NilSlice == [isNil |-> TRUE, len |-> 0, cap |-> 0]
Slices == {NilSlice} \cup
          {s \in [isNil : {FALSE}, len : Sizes, cap : Sizes] : s.len <= s.cap}

(* The slice C.GoBytes(p, n) returns: a fresh array of n bytes.            *)
GoBytes(n) == [isNil |-> FALSE, len |-> n, cap |-> n]

(* C.int(x): x modulo 2^w, read as a signed number of w bits.              *)
ToCInt(x) ==
    LET m == x % CIntSpan
    IN  IF m >= CIntSpan \div 2 THEN m - CIntSpan ELSE m

RunOptsType ==
    [dataIn : Slices, dataOut : Slices, ctxIn : Slices, ctxOut : Slices,
     dataSizeIn : Sizes, dataSizeOut : Sizes, ctxSizeIn : Sizes,
     ctxSizeOut : Sizes, repeat : Int]

ASSUME InputsAssumption == Inputs \subseteq RunOptsType

VARIABLES
    opts,        \* the caller's RunOpts
    status,      \* "ready", or "panicked" once a Go panic ended the program
    lastResult,  \* what the last Run returned: "none", "ok" or "error"
    copied,      \* bytes the kernel wrote into DataOut in the last Run
    oob,         \* memory outside a Go buffer has been read or written
    runs         \* Run calls made

vars == <<opts, status, lastResult, copied, oob, runs>>

-----------------------------------------------------------------------------
(* runOptsToC takes &s[0] of every non-nil slice: an index out of range    *)
(* when the slice is empty.                                                *)
ToCPanics(o) ==
    \E s \in {o.dataIn, o.dataOut, o.ctxIn, o.ctxOut} : ~s.isNil /\ s.len = 0

(* Mutant: data_size_in is filled from DataSizeOut.                        *)
ToCSwapped(o) ==
    [dataIn |-> ~o.dataIn.isNil, dataOut |-> ~o.dataOut.isNil,
     ctxIn |-> ~o.ctxIn.isNil, ctxOut |-> ~o.ctxOut.isNil,
     dataSizeIn |-> IF o.dataIn.isNil THEN 0 ELSE o.dataSizeOut,
     dataSizeOut |-> IF o.dataOut.isNil THEN 0 ELSE o.dataSizeOut,
     ctxSizeIn |-> IF o.ctxIn.isNil THEN 0 ELSE o.ctxSizeIn,
     ctxSizeOut |-> IF o.ctxOut.isNil THEN 0 ELSE o.ctxSizeOut,
     repeat |-> ToCInt(o.repeat)]

(* The bpf_test_run_opts runOptsToC builds: which pointers are non-NULL,   *)
(* the size beside each (0 for a nil slice) and C.int(Repeat).             *)
ToC(o) ==
    [dataIn |-> ~o.dataIn.isNil, dataOut |-> ~o.dataOut.isNil,
     ctxIn |-> ~o.ctxIn.isNil, ctxOut |-> ~o.ctxOut.isNil,
     dataSizeIn |-> IF o.dataIn.isNil THEN 0 ELSE o.dataSizeIn,
     dataSizeOut |-> IF o.dataOut.isNil THEN 0 ELSE o.dataSizeOut,
     ctxSizeIn |-> IF o.ctxIn.isNil THEN 0 ELSE o.ctxSizeIn,
     ctxSizeOut |-> IF o.ctxOut.isNil THEN 0 ELSE o.ctxSizeOut,
     repeat |-> ToCInt(o.repeat)]

(* Bytes BPF_PROG_TEST_RUN copies to data_out when the program produced   *)
(* out bytes, and to ctx_out when it produced a context of ctx bytes.      *)
DataCopy(c, out) ==
    IF c.dataSizeOut # 0 /\ out > c.dataSizeOut THEN c.dataSizeOut ELSE out
CtxCopy(c, ctx) == IF ctx > c.ctxSizeOut THEN c.ctxSizeOut ELSE ctx
NoSpace(c, out, ctx) ==
    \/ c.dataSizeOut # 0 /\ out > c.dataSizeOut
    \/ c.ctxOut /\ ctx > c.ctxSizeOut

(* A read or write of n bytes through the pointer of slice s stays in s.   *)
Within(s, n) == s.isNil \/ n <= s.cap

(* The kernel's copies in and out, and runOptsFromC's GoBytes, stay inside *)
(* the Go buffers.                                                         *)
AccessesWithin(o, c, out, ctx) ==
    /\ Within(o.dataIn, c.dataSizeIn)
    /\ Within(o.ctxIn, c.ctxSizeIn)
    /\ Within(o.dataOut, DataCopy(c, out))
    /\ Within(o.ctxOut, IF c.ctxOut THEN CtxCopy(c, ctx) ELSE 0)

(* Mutant: the output slices are resliced to the reported size in place,  *)
(* DataOut[:n], instead of copied out with GoBytes.                        *)
FromCReslice(o, c, out, ctx) ==
    [o EXCEPT
        !.dataIn = IF c.dataIn THEN GoBytes(c.dataSizeIn) ELSE @,
        !.dataOut = IF c.dataOut THEN [@ EXCEPT !.len = out] ELSE @,
        !.ctxIn = IF c.ctxIn THEN GoBytes(c.ctxSizeIn) ELSE @,
        !.ctxOut = IF c.ctxOut THEN [@ EXCEPT !.len = ctx] ELSE @,
        !.repeat = c.repeat]

(* Mutant: DataOut is sized by the caller's DataSizeOut, not the size the  *)
(* kernel reported.                                                        *)
FromCRequested(o, c, out, ctx) ==
    [o EXCEPT
        !.dataIn = IF c.dataIn THEN GoBytes(c.dataSizeIn) ELSE @,
        !.dataOut = IF c.dataOut THEN GoBytes(c.dataSizeOut) ELSE @,
        !.ctxIn = IF c.ctxIn THEN GoBytes(c.ctxSizeIn) ELSE @,
        !.ctxOut = IF c.ctxOut THEN GoBytes(ctx) ELSE @,
        !.repeat = c.repeat]

(* runOptsFromC: every non-nil slice becomes C.GoBytes of its pointer and  *)
(* the size in the C struct (the input sizes as passed, the output sizes   *)
(* as libbpf reported them), and Repeat becomes int(optsC.repeat).         *)
FromC(o, c, out, ctx) ==
    [o EXCEPT
        !.dataIn = IF c.dataIn THEN GoBytes(c.dataSizeIn) ELSE @,
        !.dataOut = IF c.dataOut THEN GoBytes(out) ELSE @,
        !.ctxIn = IF c.ctxIn THEN GoBytes(c.ctxSizeIn) ELSE @,
        !.ctxOut = IF c.ctxOut THEN GoBytes(ctx) ELSE @,
        !.repeat = c.repeat]

-----------------------------------------------------------------------------
CanRun == status = "ready" /\ runs < MaxRuns

(* runOptsToC panics before anything reaches C.                            *)
RunPanics ==
    /\ CanRun
    /\ ToCPanics(opts)
    /\ status' = "panicked"
    /\ UNCHANGED <<opts, lastResult, copied, oob, runs>>

(* runOptsToC or the kernel fails before touching a buffer; Run returns    *)
(* the error and leaves opts as they were.                                 *)
RunFails ==
    /\ CanRun
    /\ ~ToCPanics(opts)
    /\ lastResult' = "error"
    /\ runs' = runs + 1
    /\ UNCHANGED <<opts, status, copied, oob>>

(* The program runs: the kernel copies in and out, and Run returns ENOSPC  *)
(* when it had to clamp an output, or nil after runOptsFromC.              *)
RunCompletes ==
    /\ CanRun
    /\ ~ToCPanics(opts)
    /\ \E out, ctx \in Sizes :
         LET c == ToC(opts)
         IN  /\ oob' = (oob \/ ~AccessesWithin(opts, c, out, ctx))
             /\ copied' = IF c.dataOut THEN DataCopy(c, out) ELSE 0
             /\ IF NoSpace(c, out, ctx)
                  THEN lastResult' = "error" /\ opts' = opts
                  ELSE lastResult' = "ok" /\ opts' = FromC(opts, c, out, ctx)
    /\ runs' = runs + 1
    /\ UNCHANGED status

Run == RunPanics \/ RunFails \/ RunCompletes

Init ==
    /\ opts \in Inputs
    /\ status = "ready"
    /\ lastResult = "none"
    /\ copied = 0
    /\ oob = FALSE
    /\ runs = 0

Next == Run

Spec == Init /\ [][Next]_vars

-----------------------------------------------------------------------------
(* Every variable holds a value of its type.                               *)
TypeOK ==
    /\ opts \in RunOptsType
    /\ status \in {"ready", "panicked"}
    /\ lastResult \in {"none", "ok", "error"}
    /\ copied \in Sizes
    /\ oob \in BOOLEAN
    /\ runs \in 0 .. MaxRuns

(* RunOpts a careful caller passes: every non-nil slice is non-empty, each *)
(* size field fits the capacity beside it, and DataSizeOut is set, so the  *)
(* kernel clamps its copy.                                                 *)
Sized(o) ==
    /\ \A s \in {o.dataIn, o.dataOut, o.ctxIn, o.ctxOut} : ~s.isNil => s.len > 0
    /\ Within(o.dataIn, o.dataSizeIn)
    /\ Within(o.ctxIn, o.ctxSizeIn)
    /\ ~o.dataOut.isNil => o.dataSizeOut \in 1 .. o.dataOut.cap
    /\ Within(o.ctxOut, o.ctxSizeOut)

(* A Run on RunOpts sized as above neither panics in runOptsToC nor lets   *)
(* the kernel or runOptsFromC's GoBytes touch memory outside the Go        *)
(* buffers, whatever the program outputs.                                  *)
SizedRunIsSafe ==
    [][Sized(opts) /\ ~oob => ~oob' /\ status' = "ready"]_vars

(* After a Run that returned nil, DataOut holds exactly the bytes the      *)
(* kernel wrote into it: runOptsFromC sizes it by the reported size.       *)
OutputMatchesKernel ==
    lastResult = "ok" /\ ~opts.dataOut.isNil => opts.dataOut.len = copied

(* No Run ever touches memory outside the Go buffers or panics.            *)
MemorySafe == ~oob /\ status # "panicked"

(* A Run that returned nil leaves the caller's Repeat as it was.           *)
RepeatPreserved ==
    [][lastResult' = "ok" /\ runs' = runs + 1 => opts'.repeat = opts.repeat]_vars

=============================================================================
