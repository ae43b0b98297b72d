-------------------------- MODULE UprobeMulti_proofs --------------------------
(***************************************************************************)
(* Proofs about UprobeMulti for every set of offsets and cookies and every *)
(* slice length: the caller that passes no cookies, or at least one per    *)
(* offset, gets every probe the cookie of its own index.                   *)
(***************************************************************************)
EXTENDS UprobeMulti, SequenceTheorems, TLAPS

(* A slice of SeqsUpTo(S) is a sequence of at most MaxLen elements of S.   *)
LEMMA SeqsUpToProps ==
    ASSUME NEW S, NEW s \in SeqsUpTo(S)
    PROVE  /\ s \in Seq(S)
           /\ Len(s) \in 0 .. MaxLen
           /\ DOMAIN s = 1 .. Len(s)
<1>1. PICK n \in 0 .. MaxLen : s \in [1 .. n -> S]
  BY DEF SeqsUpTo
<1>2. n \in Nat
  BY <1>1
<1>3. s \in Seq(S)
  BY <1>1, <1>2, SeqDef
<1>4. Len(s) \in Nat /\ DOMAIN s = 1 .. Len(s)
  BY <1>3, LenProperties
<1>5. Len(s) = n
  BY <1>1, <1>2, <1>4
<1>6. QED
  BY <1>1, <1>3, <1>4, <1>5

(* After an attach, there is one probe per offset, and each carries a      *)
(* value libbpf may have read as the cookie of its index.                  *)
ProbesInv ==
    result = "attached" =>
        /\ DOMAIN probes = 1 .. Len(offsets)
        /\ \A i \in 1 .. Len(offsets) : probes[i] \in CookieRead(i)

(* The caller's slices, which no step changes, and ProbesInv.             *)
IInv ==
    /\ offsets \in SeqsUpTo(Offsets)
    /\ cookies \in SeqsUpTo(Cookies)
    /\ ProbesInv

LEMMA InitIInv == Init => IInv
BY DEF Init, IInv, ProbesInv

LEMMA NextIInv == IInv /\ [Next]_vars => IInv'
<1> SUFFICES ASSUME IInv, [Next]_vars PROVE IInv'
  OBVIOUS
<1>1. CASE UNCHANGED vars
  BY <1>1 DEF vars, IInv, ProbesInv, CookieRead
<1>2. CASE Next
  <2>1. UNCHANGED <<offsets, cookies>>
    BY <1>2 DEF Next, doAttachUprobeMulti
  <2>2. CASE Len(offsets) > 0 /\ result' = "attached"
    <3>1. PICK pr \in [1 .. Len(offsets) -> Cookies \cup {0, Garbage}] :
                /\ \A i \in 1 .. Len(offsets) : pr[i] \in CookieRead(i)
                /\ probes' = pr
      BY <1>2, <2>2 DEF Next, doAttachUprobeMulti
    <3>2. QED
      BY <2>1, <3>1 DEF IInv, ProbesInv, CookieRead
  <2>3. CASE result' = "error"
    BY <2>1, <2>3 DEF IInv, ProbesInv
  <2>4. QED
    BY <1>2, <2>2, <2>3 DEF Next, doAttachUprobeMulti
<1>3. QED
  BY <1>1, <1>2

(* The caller passed no cookies, or at least one for every offset.         *)
CookiesCoverOffsets == Len(cookies) = 0 \/ Len(offsets) <= Len(cookies)

LEMMA CoveredCookiesFromCaller ==
    ASSUME IInv, CookiesCoverOffsets
    PROVE  CookiesFromCaller
<1> SUFFICES ASSUME result = "attached", NEW i \in DOMAIN probes
             PROVE  probes[i] = IF i <= Len(cookies) THEN cookies[i] ELSE 0
  BY DEF CookiesFromCaller
<1>1. i \in 1 .. Len(offsets) /\ probes[i] \in CookieRead(i)
  BY DEF IInv, ProbesInv
<1>2. Len(cookies) \in Nat
  BY SeqsUpToProps DEF IInv
<1>3. CASE Len(cookies) = 0
  BY <1>1, <1>3 DEF CookieRead
<1>4. CASE Len(cookies) # 0
  <2>1. i <= Len(cookies)
    BY <1>1, <1>2, <1>4 DEF CookiesCoverOffsets
  <2>2. QED
    BY <1>1, <1>4, <2>1 DEF CookieRead
<1>5. QED
  BY <1>3, <1>4

(* doAttachUprobeMulti hands every uprobe the cookie the caller gave at    *)
(* the same index, or 0 when the caller gave none, whenever the cookies    *)
(* slice is empty or at least as long as offsets: the out-of-bounds read   *)
(* that UprobeMulti_cookies shows needs a non-empty cookies slice shorter  *)
(* than offsets. It holds for every number of offsets and cookie values.   *)
THEOREM CookiesSafeWhenCovered ==
    Spec => [](CookiesCoverOffsets => CookiesFromCaller)
<1>1. IInv => (CookiesCoverOffsets => CookiesFromCaller)
  BY CoveredCookiesFromCaller
<1>2. QED
  BY <1>1, InitIInv, NextIInv, PTL DEF Spec

=============================================================================
