---------------------------- MODULE ProgRun_proofs ----------------------------
(***************************************************************************)
(* Proofs about ProgRun for every buffer size, C.int width, number of Run *)
(* calls and set of caller inputs.                                         *)
(***************************************************************************)
EXTENDS ProgRun, TLAPS

LEMMA SliceBounds ==
    ASSUME NEW s \in Slices
    PROVE  s.len \in Sizes /\ s.cap \in Sizes /\ s.len <= s.cap
<1>1. CASE s = NilSlice
  BY <1>1, MaxSizeAssumption DEF NilSlice, Sizes
<1>2. CASE s # NilSlice
  <2>1. s \in [isNil : {FALSE}, len : Sizes, cap : Sizes] /\ s.len <= s.cap
    BY <1>2 DEF Slices
  <2>2. QED
    BY <2>1, MaxSizeAssumption DEF Sizes
<1>3. QED
  BY <1>1, <1>2

LEMMA GoBytesType ==
    ASSUME NEW n \in Sizes
    PROVE  GoBytes(n) \in Slices
BY DEF GoBytes, Slices, Sizes

LEMMA ToCIntType ==
    ASSUME NEW x \in Int
    PROVE  ToCInt(x) \in Int
BY CIntSpanAssumption DEF ToCInt

LEMMA DataCopyBound ==
    ASSUME NEW c, NEW out \in Sizes, c.dataSizeOut \in Sizes
    PROVE  DataCopy(c, out) \in Sizes /\ DataCopy(c, out) <= out
BY DEF DataCopy, Sizes

(* The C struct runOptsToC builds from RunOpts of the right type.          *)
LEMMA ToCType ==
    ASSUME NEW o \in RunOptsType
    PROVE  /\ ToC(o).dataSizeIn \in Sizes /\ ToC(o).dataSizeOut \in Sizes
           /\ ToC(o).ctxSizeIn \in Sizes /\ ToC(o).ctxSizeOut \in Sizes
           /\ ToC(o).dataIn = ~o.dataIn.isNil /\ ToC(o).dataOut = ~o.dataOut.isNil
           /\ ToC(o).ctxIn = ~o.ctxIn.isNil /\ ToC(o).ctxOut = ~o.ctxOut.isNil
           /\ ToC(o).repeat \in Int
<1>1. ToCInt(o.repeat) \in Int
  BY ToCIntType DEF RunOptsType
<1>2. QED
  BY <1>1, MaxSizeAssumption DEF ToC, RunOptsType, Sizes, Slices

LEMMA FromCType ==
    ASSUME NEW o \in RunOptsType, NEW out \in Sizes, NEW ctx \in Sizes
    PROVE  FromC(o, ToC(o), out, ctx) \in RunOptsType
<1> DEFINE c == ToC(o)
<1>1. /\ GoBytes(c.dataSizeIn) \in Slices /\ GoBytes(out) \in Slices
      /\ GoBytes(c.ctxSizeIn) \in Slices /\ GoBytes(ctx) \in Slices
  BY ToCType, GoBytesType
<1>2. c.repeat \in Int
  BY ToCType
<1>3. QED
  BY <1>1, <1>2 DEF FromC, RunOptsType

-----------------------------------------------------------------------------
LEMMA InitTypeOK == Init => TypeOK
<1> SUFFICES ASSUME Init PROVE TypeOK
  OBVIOUS
<1>1. opts \in RunOptsType
  BY InputsAssumption DEF Init
<1>2. copied \in Sizes /\ runs \in 0 .. MaxRuns
  BY MaxRunsAssumption, MaxSizeAssumption DEF Init, Sizes
<1>3. QED
  BY <1>1, <1>2 DEF Init, TypeOK

LEMMA RunCompletesType ==
    ASSUME TypeOK, RunCompletes
    PROVE  TypeOK'
<1>1. PICK out \in Sizes, ctx \in Sizes :
        LET c == ToC(opts)
        IN  /\ oob' = (oob \/ ~AccessesWithin(opts, c, out, ctx))
            /\ copied' = IF c.dataOut THEN DataCopy(c, out) ELSE 0
            /\ IF NoSpace(c, out, ctx)
                 THEN lastResult' = "error" /\ opts' = opts
                 ELSE lastResult' = "ok" /\ opts' = FromC(opts, c, out, ctx)
  BY DEF RunCompletes
<1>2. opts' \in RunOptsType
  BY <1>1, FromCType DEF TypeOK
<1>3. copied' \in Sizes
  BY <1>1, ToCType, DataCopyBound, MaxSizeAssumption DEF TypeOK, Sizes
<1>4. runs' \in 0 .. MaxRuns
  BY MaxRunsAssumption DEF RunCompletes, CanRun, TypeOK
<1>5. QED
  BY <1>1, <1>2, <1>3, <1>4 DEF RunCompletes, TypeOK

LEMMA NextTypeOK == TypeOK /\ [Next]_vars => TypeOK'
<1> SUFFICES ASSUME TypeOK, [Next]_vars PROVE TypeOK'
  OBVIOUS
<1>1. CASE RunPanics
  BY <1>1 DEF RunPanics, TypeOK
<1>2. CASE RunFails
  BY <1>2, MaxRunsAssumption DEF RunFails, CanRun, TypeOK
<1>3. CASE RunCompletes
  BY <1>3, RunCompletesType
<1>4. CASE UNCHANGED vars
  BY <1>4 DEF vars, TypeOK
<1>5. QED
  BY <1>1, <1>2, <1>3, <1>4 DEF Next, Run

(* Every reachable state of Run is type-correct: after any number of Run  *)
(* calls the caller's RunOpts hold slices whose length fits their         *)
(* capacity, and the count of bytes the kernel wrote is a buffer size.     *)
THEOREM TypeCorrect == Spec => []TypeOK
BY InitTypeOK, NextTypeOK, PTL DEF Spec


-----------------------------------------------------------------------------
(* On sized RunOpts every access of the kernel and of GoBytes stays in     *)
(* the buffers, whatever sizes the program produces.                       *)
LEMMA SizedAccessesWithin ==
    ASSUME NEW o \in RunOptsType, Sized(o), NEW out \in Sizes, NEW ctx \in Sizes
    PROVE  AccessesWithin(o, ToC(o), out, ctx)
<1> DEFINE c == ToC(o)
<1>1. Within(o.dataIn, c.dataSizeIn) /\ Within(o.ctxIn, c.ctxSizeIn)
  BY DEF Sized, Within, ToC
<1>2. Within(o.dataOut, DataCopy(c, out))
  <2>1. CASE o.dataOut.isNil
    BY <2>1 DEF Within
  <2>2. CASE ~o.dataOut.isNil
    <3>1. c.dataSizeOut = o.dataSizeOut /\ o.dataSizeOut \in 1 .. o.dataOut.cap
      BY <2>2 DEF Sized, ToC
    <3>2. o.dataOut.cap \in Sizes /\ out \in Sizes
      BY SliceBounds DEF RunOptsType
    <3>3. DataCopy(c, out) <= o.dataOut.cap
      BY <3>1, <3>2, MaxSizeAssumption DEF DataCopy, Sizes
    <3>4. QED
      BY <3>3 DEF Within
  <2>3. QED
    BY <2>1, <2>2
<1>3. Within(o.ctxOut, IF c.ctxOut THEN CtxCopy(c, ctx) ELSE 0)
  <2>1. CASE o.ctxOut.isNil
    BY <2>1 DEF Within
  <2>2. CASE ~o.ctxOut.isNil
    <3>1. c.ctxSizeOut = o.ctxSizeOut /\ o.ctxSizeOut <= o.ctxOut.cap /\ c.ctxOut
      BY <2>2 DEF Sized, ToC, Within
    <3>2. o.ctxOut.cap \in Sizes /\ o.ctxSizeOut \in Sizes
      BY SliceBounds DEF RunOptsType
    <3>3. CtxCopy(c, ctx) <= o.ctxOut.cap
      BY <3>1, <3>2, MaxSizeAssumption DEF CtxCopy, Sizes
    <3>4. QED
      BY <3>1, <3>3 DEF Within
  <2>3. QED
    BY <2>1, <2>2
<1>4. QED
  BY <1>1, <1>2, <1>3 DEF AccessesWithin

LEMMA SizedNoPanic ==
    ASSUME NEW o \in RunOptsType, Sized(o)
    PROVE  ~ToCPanics(o)
BY DEF Sized, ToCPanics

LEMMA SizedStep ==
    ASSUME TypeOK, Next
    PROVE  Sized(opts) /\ ~oob => ~oob' /\ status' = "ready"
<1> SUFFICES ASSUME Sized(opts), ~oob PROVE ~oob' /\ status' = "ready"
  OBVIOUS
<1>1. CASE RunPanics
  BY <1>1, SizedNoPanic DEF RunPanics, TypeOK
<1>2. CASE RunFails
  BY <1>2 DEF RunFails, CanRun
<1>3. CASE RunCompletes
  <2>1. PICK out \in Sizes, ctx \in Sizes :
          oob' = (oob \/ ~AccessesWithin(opts, ToC(opts), out, ctx))
    BY <1>3 DEF RunCompletes
  <2>2. AccessesWithin(opts, ToC(opts), out, ctx)
    BY SizedAccessesWithin DEF TypeOK
  <2>3. ~oob'
    BY <2>1, <2>2
  <2>4. status' = "ready"
    BY <1>3 DEF RunCompletes, CanRun
  <2>5. QED
    BY <2>3, <2>4
<1>4. QED
  BY <1>1, <1>2, <1>3 DEF Next, Run

(* A Run on sized RunOpts never panics in runOptsToC and never lets the    *)
(* kernel or runOptsFromC touch memory outside the Go buffers, for every   *)
(* buffer size and every output the program produces.                      *)
THEOREM SizedRunSafe == Spec => SizedRunIsSafe
<1>1. TypeOK /\ [Next]_vars => [Sized(opts) /\ ~oob => ~oob' /\ status' = "ready"]_vars
  BY SizedStep DEF vars
<1>2. QED
  BY <1>1, TypeCorrect, PTL DEF Spec, SizedRunIsSafe

-----------------------------------------------------------------------------
LEMMA OutputStep ==
    ASSUME TypeOK, OutputMatchesKernel, [Next]_vars
    PROVE  OutputMatchesKernel'
<1>1. CASE RunPanics
  BY <1>1 DEF RunPanics, OutputMatchesKernel
<1>2. CASE RunFails
  BY <1>2 DEF RunFails, OutputMatchesKernel
<1>3. CASE RunCompletes
  <2>1. PICK out \in Sizes, ctx \in Sizes :
          LET c == ToC(opts)
          IN  /\ copied' = IF c.dataOut THEN DataCopy(c, out) ELSE 0
              /\ IF NoSpace(c, out, ctx)
                   THEN lastResult' = "error" /\ opts' = opts
                   ELSE lastResult' = "ok" /\ opts' = FromC(opts, c, out, ctx)
    BY <1>3 DEF RunCompletes
  <2>2. CASE NoSpace(ToC(opts), out, ctx)
    BY <2>1, <2>2 DEF OutputMatchesKernel
  <2>3. CASE ~NoSpace(ToC(opts), out, ctx) /\ ~opts.dataOut.isNil
    <3>1. opts'.dataOut = GoBytes(out) /\ lastResult' = "ok"
      BY <2>1, <2>3, ToCType DEF FromC, TypeOK, RunOptsType
    <3>2. copied' = out
      BY <2>1, <2>3, ToCType DEF NoSpace, DataCopy, TypeOK
    <3>3. QED
      BY <3>1, <3>2 DEF OutputMatchesKernel, GoBytes
  <2>4. CASE ~NoSpace(ToC(opts), out, ctx) /\ opts.dataOut.isNil
    <3>1. opts'.dataOut = opts.dataOut
      BY <2>1, <2>4, ToCType DEF FromC, TypeOK, RunOptsType
    <3>2. QED
      BY <3>1, <2>4 DEF OutputMatchesKernel
  <2>5. QED
    BY <2>2, <2>3, <2>4
<1>4. CASE UNCHANGED vars
  BY <1>4 DEF vars, OutputMatchesKernel
<1>5. QED
  BY <1>1, <1>2, <1>3, <1>4 DEF Next, Run

(* After every Run that returned nil, DataOut is exactly as long as what   *)
(* the kernel wrote into it, for every buffer size and program output.     *)
THEOREM OutputMatches == Spec => []OutputMatchesKernel
<1>1. Init => OutputMatchesKernel
  BY DEF Init, OutputMatchesKernel
<1>2. QED
  BY <1>1, OutputStep, TypeCorrect, PTL DEF Spec

-----------------------------------------------------------------------------
(* The values of a C.int of the width CIntSpan stands for.                 *)
CIntRange == (CIntSpan \div 2 - CIntSpan) .. (CIntSpan \div 2 - 1)

(* C.int(x) always lies in the range of C.int.                             *)
LEMMA ToCIntRange ==
    ASSUME NEW x \in Int
    PROVE  ToCInt(x) \in CIntRange
<1>1. x % CIntSpan \in 0 .. CIntSpan - 1
  BY CIntSpanAssumption
<1>2. QED
  BY <1>1, CIntSpanAssumption DEF ToCInt, CIntRange

(* C.int(x) is x exactly when x lies in the range of C.int.                *)
LEMMA ToCIntIdentity ==
    ASSUME NEW x \in Int
    PROVE  ToCInt(x) = x <=> x \in CIntRange
<1>1. ASSUME x \in CIntRange, x >= 0
      PROVE  ToCInt(x) = x
  <2>1. x % CIntSpan = x
    BY <1>1, CIntSpanAssumption DEF CIntRange
  <2>2. QED
    BY <1>1, <2>1, CIntSpanAssumption DEF ToCInt, CIntRange
<1>2. ASSUME x \in CIntRange, x < 0
      PROVE  ToCInt(x) = x
  <2>1. x % CIntSpan = x + CIntSpan
    BY <1>2, CIntSpanAssumption DEF CIntRange
  <2>2. QED
    BY <1>2, <2>1, CIntSpanAssumption DEF ToCInt, CIntRange
<1>3. ToCInt(x) = x => x \in CIntRange
  BY ToCIntRange
<1>4. QED
  BY <1>1, <1>2, <1>3

LEMMA RepeatStep ==
    ASSUME TypeOK, [Next]_vars
    PROVE  lastResult' = "ok" /\ runs' = runs + 1 =>
               (opts'.repeat = opts.repeat <=> opts.repeat \in CIntRange)
<1> SUFFICES ASSUME lastResult' = "ok", runs' = runs + 1
             PROVE  opts'.repeat = opts.repeat <=> opts.repeat \in CIntRange
  OBVIOUS
<1>1. RunCompletes
  BY DEF Next, Run, RunPanics, RunFails, vars
<1>2. PICK out \in Sizes, ctx \in Sizes :
        IF NoSpace(ToC(opts), out, ctx)
          THEN lastResult' = "error" /\ opts' = opts
          ELSE lastResult' = "ok" /\ opts' = FromC(opts, ToC(opts), out, ctx)
  BY <1>1 DEF RunCompletes
<1>3. opts' = FromC(opts, ToC(opts), out, ctx)
  BY <1>2
<1>4. opts'.repeat = ToCInt(opts.repeat)
  BY <1>3 DEF FromC, ToC, TypeOK, RunOptsType
<1>5. QED
  BY <1>4, ToCIntIdentity DEF TypeOK, RunOptsType

(* A Run that returns nil gives the caller back the Repeat it passed if,   *)
(* and only if, that Repeat fits in a C.int: runOptsToC's C.int(Repeat)    *)
(* and runOptsFromC's int(optsC.repeat) round-trip exactly that range, so  *)
(* RepeatPreserved fails for every Repeat outside it, at every width.      *)
THEOREM RepeatKeptIffInCInt ==
    Spec => [][lastResult' = "ok" /\ runs' = runs + 1 =>
                 (opts'.repeat = opts.repeat <=> opts.repeat \in CIntRange)]_vars
<1>1. TypeOK /\ [Next]_vars =>
        [lastResult' = "ok" /\ runs' = runs + 1 =>
           (opts'.repeat = opts.repeat <=> opts.repeat \in CIntRange)]_vars
  BY RepeatStep
<1>2. QED
  BY <1>1, TypeCorrect, PTL DEF Spec

=============================================================================
