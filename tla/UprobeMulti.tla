----------------------------- MODULE UprobeMulti -----------------------------
(***************************************************************************)
(* The argument marshalling of doAttachUprobeMulti (src/prog.go): offsets  *)
(* and cookies are Go slices handed to libbpf as two C arrays, with        *)
(* len(offsets) as the count of both.  libbpf reads cnt entries of each    *)
(* non-NULL array and attaches one uprobe per offset carrying the cookie   *)
(* of the same index; with no cookies array every cookie is 0, and with   *)
(* no offsets (and no func_pattern, which the binding never passes) it    *)
(* fails with EINVAL.  An entry read past the end of the Go slice is       *)
(* whatever lies in memory there: any value, Garbage included.             *)
(***************************************************************************)
EXTENDS Naturals, Sequences

CONSTANTS
    Offsets,   \* symbol offsets the caller may pass
    Cookies,   \* cookie values the caller may pass
    MaxLen,    \* longest offsets or cookies slice
    Garbage    \* a value no caller passed (outside Cookies and 0)


SeqsUpTo(S) == UNION {[1 .. n -> S] : n \in 0 .. MaxLen}

VARIABLES
    offsets,  \* the caller's offsets slice
    cookies,  \* the caller's cookies slice
    result,   \* "none", "attached" or "error"
    probes    \* probes[i]: the cookie of the uprobe attached at offsets[i]

vars == <<offsets, cookies, result, probes>>

(* What libbpf reads as cookies[i] of the C array: NULL (len(cookies) = 0) *)
(* gives 0; an index inside the Go slice its element; one past its end    *)
(* any value in memory.                                                    *)
CookieRead(i) ==
    IF Len(cookies) = 0 THEN {0}
    ELSE IF i <= Len(cookies) THEN {cookies[i]}
    ELSE Cookies \cup {0, Garbage}

(* doAttachUprobeMulti, with AttachUprobeMulti/AttachURetprobeMulti       *)
(* around it: NULL offsets are rejected, otherwise the link carries one    *)
(* probe per offset, or the kernel refuses it.                             *)
doAttachUprobeMulti ==
    /\ result = "none"
    /\ \/ /\ Len(offsets) = 0
          /\ result' = "error"
          /\ UNCHANGED probes
       \/ /\ Len(offsets) > 0
          /\ \E pr \in [1 .. Len(offsets) -> Cookies \cup {0, Garbage}] :
                /\ \A i \in 1 .. Len(offsets) : pr[i] \in CookieRead(i)
                /\ probes' = pr
          /\ result' = "attached"
       \/ /\ Len(offsets) > 0
          /\ result' = "error"
          /\ UNCHANGED probes
    /\ UNCHANGED <<offsets, cookies>>

Init ==
    /\ offsets \in SeqsUpTo(Offsets)
    /\ cookies \in SeqsUpTo(Cookies)
    /\ result = "none"
    /\ probes = <<>>

Next == doAttachUprobeMulti

Spec == Init /\ [][Next]_vars

(* Every variable holds a value of its type.                               *)
TypeOK ==
    /\ offsets \in SeqsUpTo(Offsets)
    /\ cookies \in SeqsUpTo(Cookies)
    /\ result \in {"none", "attached", "error"}
    /\ probes \in SeqsUpTo(Cookies \cup {0, Garbage})

(* The uprobe at offsets[i] carries the cookie the caller gave at index i, *)
(* or 0 when the caller gave none: the two slices are parallel arrays,  *)
(* the cookie of an offset at the same index (libbpf opts.cookies).      *)
CookiesFromCaller ==
    result = "attached" =>
        \A i \in DOMAIN probes :
            probes[i] = IF i <= Len(cookies) THEN cookies[i] ELSE 0
=============================================================================
