------------------------------ MODULE MCProgRun ------------------------------
(* ProgRun for TLC: buffers of up to two bytes, C.int of 16 bits, and the   *)
(* RunOpts a caller may build from them.                                   *)
EXTENDS ProgRun

MCMaxSize == 2
MCCIntSpan == 2 ^ 16
MCMaxRuns1 == 1
MCMaxRuns2 == 2

(* The data slices are every nil, empty or non-empty slice of up to two   *)
(* bytes; the context slices are nil or one byte, which is enough for the  *)
(* context to take each path of the conversion.                            *)
CtxSlices == {NilSlice, [isNil |-> FALSE, len |-> 1, cap |-> 1]}

EnumInputs ==
    [dataIn : Slices, dataOut : Slices, ctxIn : CtxSlices, ctxOut : CtxSlices,
     dataSizeIn : Sizes, dataSizeOut : Sizes, ctxSizeIn : 0 .. 1,
     ctxSizeOut : 0 .. 1, repeat : {1}]

SizedInputs == {o \in EnumInputs : Sized(o)}

(* Sized RunOpts with a Repeat that does not fit in C.int.                 *)
LargeRepeatInputs ==
    {[o EXCEPT !.repeat = r] :
        o \in {o \in SizedInputs : o.ctxIn = NilSlice /\ o.ctxOut = NilSlice},
        r \in {1, MCCIntSpan}}

(* The RunOpts of the usage example in Run's doc comment: DataIn and       *)
(* DataOut are make([]byte, 0, 14) with DataSizeIn = DataSizeOut = 14, and *)
(* Repeat 1, here with buffers of MaxSize bytes.                           *)
DocBuffer == [isNil |-> FALSE, len |-> 0, cap |-> MCMaxSize]
DocExampleInputs ==
    {[dataIn |-> DocBuffer, dataOut |-> DocBuffer,
      ctxIn |-> NilSlice, ctxOut |-> NilSlice,
      dataSizeIn |-> MCMaxSize, dataSizeOut |-> MCMaxSize,
      ctxSizeIn |-> 0, ctxSizeOut |-> 0, repeat |-> 1]}
=============================================================================
