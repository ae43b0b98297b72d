-------------------------- MODULE ProgAttach_proofs --------------------------
(***************************************************************************)
(* Proofs about ProgAttach for every value of the constants: the type      *)
(* invariant, the refinement of the link life cycle, Close's teardown of  *)
(* the tracked links, and how far a Destroy reaches.                       *)
(***************************************************************************)
EXTENDS ProgAttach, SequenceTheorems, TLAPS

(* A goroutine between the read and the write of module.links holds a     *)
(* real link: ReadLinks is only reached with a fresh one.                  *)
PendingInv ==
    \A g \in Goroutines : pc[g] = "append" => pendingLink[g] \in LinkIds

TypeInv == TypeOK /\ PendingInv

(* The bpf_links alive in the kernel are exactly those whose BPFLink still *)
(* holds a non-nil pointer.                                                *)
(* Destroy and Close clear the pointer in the step that frees the link,    *)
(* and only a fresh attach sets it.                                        *)
LinkPointersMatchKernel == klinks = {l \in LinkIds : ptr[l]}

IInv == TypeInv /\ LinkPointersMatchKernel

-----------------------------------------------------------------------------
(* Each kind of step keeps the type invariant.                             *)

LEMMA AttachTrackedType ==
    ASSUME TypeInv, NEW g \in Goroutines, NEW lt \in LinkTypes,
           AttachTracked(g, lt)
    PROVE  TypeInv'
BY DEF TypeInv, TypeOK, PendingInv, AttachTracked, CanCall, NativeLink, ReadLinks, FreshLinks,
       Created

LEMMA AttachUntrackedType ==
    ASSUME TypeInv, NEW g \in Goroutines, NEW lt \in LinkTypes,
           AttachUntracked(g, lt)
    PROVE  TypeInv'
BY DEF TypeInv, TypeOK, PendingInv, AttachUntracked, CanCall, NativeLink, FreshLinks, Created

LEMMA AppendLinkType ==
    ASSUME TypeInv, NEW g \in Goroutines, AppendLink(g)
    PROVE  TypeInv'
<1>1. Append(snapshot[g], pendingLink[g]) \in Seq(LinkIds)
  BY AppendProperties DEF TypeInv, TypeOK, PendingInv, AppendLink
<1>2. QED
  BY <1>1 DEF TypeInv, TypeOK, PendingInv, AppendLink

LEMMA AttachNetnsType ==
    ASSUME TypeInv, NEW g \in Goroutines, AttachNetns(g)
    PROVE  TypeInv'
<1>1. fds' \in 0 .. FdLimit
  BY FdLimitAssumption DEF TypeInv, TypeOK, AttachNetns, CanOpen
<1>2. CASE \E l \in FreshLinks : NativeLink(l, "Netns") /\ ReadLinks(g, l)
  <2>1. PICK l \in FreshLinks : NativeLink(l, "Netns") /\ ReadLinks(g, l)
    BY <1>2
  <2>2. QED
    BY <1>1, <2>1 DEF AttachNetns, TypeInv, TypeOK, PendingInv, NativeLink,
                      ReadLinks, FreshLinks, LinkTypes, TrackedTypes
<1>3. CASE UNCHANGED <<pc, snapshot, pendingLink, kind, ptr, klinks>>
  BY <1>1, <1>3 DEF AttachNetns, TypeInv, TypeOK, PendingInv
<1>4. QED
  BY <1>2, <1>3 DEF AttachNetns

LEMMA AttachCgroupLegacyType ==
    ASSUME TypeInv, NEW g \in Goroutines, NEW p \in Progs, NEW h \in Hooks,
           AttachCgroupLegacy(g, p, h)
    PROVE  TypeInv'
<1>1. CASE AttachCgroup(g)
  BY <1>1, AttachTrackedType DEF AttachCgroup, LinkTypes, TrackedTypes
<1>2. CASE ~AttachCgroup(g)
  <2>1. PICK l \in FreshLinks :
              /\ kind' = [kind EXCEPT ![l] = "CgroupLegacy"]
              /\ legacy' = [legacy EXCEPT ![l] = <<p, h>>]
    BY <1>2 DEF AttachCgroupLegacy
  <2>2. kattach' = kattach \cup {<<p, h>>}
    BY <1>2 DEF AttachCgroupLegacy
  <2>3. UNCHANGED <<pc, snapshot, pendingLink, links, ptr, klinks, kxdp,
                    fds, closed, userDestroyed>>
    BY <1>2 DEF AttachCgroupLegacy
  <2>4. QED
    BY <2>1, <2>2, <2>3 DEF TypeInv, TypeOK, PendingInv, FreshLinks,
                            LinkTypes, LegacyInfo
<1>3. QED
  BY <1>1, <1>2

LEMMA KernelTableType ==
    ASSUME TypeInv, NEW g \in Goroutines, NEW p \in Progs, NEW h \in Hooks,
           \/ DetachCgroupLegacy(g, p, h)
           \/ AttachGenericFD(g, p, h)
           \/ DetachGenericFD(g, p, h)
    PROVE  TypeInv'
BY DEF TypeInv, TypeOK, PendingInv, DetachCgroupLegacy, DetachLegacy,
       AttachGenericFD, DetachGenericFD, LegacyInfo

LEMMA XDPTableType ==
    ASSUME TypeInv, NEW g \in Goroutines, NEW p \in Progs, NEW i \in Ifaces,
           AttachXDPLegacy(g, p, i) \/ DetachXDPLegacy(g, p, i)
    PROVE  TypeInv'
BY DEF TypeInv, TypeOK, PendingInv, AttachXDPLegacy, DetachXDPLegacy

LEMMA DestroyType ==
    ASSUME TypeInv, NEW g \in Goroutines, NEW l \in LinkIds, Destroy(g, l)
    PROVE  TypeInv'
BY DEF TypeInv, TypeOK, PendingInv, Destroy, DetachLegacy, CanCall, Created

LEMMA CloseType ==
    ASSUME TypeInv, NEW g \in Goroutines, Close(g)
    PROVE  TypeInv'
BY DEF TypeInv, TypeOK, PendingInv, Close, CanCall

-----------------------------------------------------------------------------
LEMMA NextTypeInv == TypeInv /\ [Next]_vars => TypeInv'
<1> SUFFICES ASSUME TypeInv, [Next]_vars PROVE TypeInv'
  OBVIOUS
<1>1. CASE UNCHANGED vars
  BY <1>1 DEF vars, TypeInv, TypeOK, PendingInv
<1>2. CASE Next
  <2>1. PICK g \in Goroutines : Step(g)
    BY <1>2 DEF Next
  <2>2. CASE \/ AttachCgroup(g) \/ AttachXDP(g) \/ AttachTracepoint(g)
             \/ AttachRawTracepoint(g) \/ AttachLSM(g) \/ AttachPerfEvent(g)
             \/ \E isRet \in BOOLEAN : attachKprobeCommon(g, isRet)
             \/ AttachIter(g)
    BY <2>2, AttachTrackedType
       DEF AttachCgroup, AttachXDP, AttachTracepoint, AttachRawTracepoint,
           AttachLSM, AttachPerfEvent, attachKprobeCommon, AttachIter,
           LinkTypes, TrackedTypes
  <2>3. CASE \/ AttachGeneric(g) \/ AttachUSDT(g)
             \/ \E isRet \in BOOLEAN : doAttachUprobe(g, isRet)
             \/ \E isRet \in BOOLEAN : doAttachUprobeMulti(g, isRet)
    BY <2>3, AttachUntrackedType
       DEF AttachGeneric, AttachUSDT, doAttachUprobe, doAttachUprobeMulti,
           LinkTypes, UntrackedTypes
  <2>4. CASE AttachNetns(g)
    BY <2>4, AttachNetnsType
  <2>5. CASE AppendLink(g)
    BY <2>5, AppendLinkType
  <2>6. CASE \E p \in Progs, h \in Hooks : AttachCgroupLegacy(g, p, h)
    BY <2>6, AttachCgroupLegacyType
  <2>7. CASE \E p \in Progs, h \in Hooks :
               \/ DetachCgroupLegacy(g, p, h)
               \/ AttachGenericFD(g, p, h)
               \/ DetachGenericFD(g, p, h)
    BY <2>7, KernelTableType
  <2>8. CASE \E p \in Progs, i \in Ifaces :
               AttachXDPLegacy(g, p, i) \/ DetachXDPLegacy(g, p, i)
    BY <2>8, XDPTableType
  <2>9. CASE \E l \in LinkIds : Destroy(g, l)
    BY <2>9, DestroyType
  <2>10. CASE Close(g)
    BY <2>10, CloseType
  <2>11. QED
    BY <2>1, <2>2, <2>3, <2>4, <2>5, <2>6, <2>7, <2>8, <2>9, <2>10
       DEF Step
<1>3. QED
  BY <1>1, <1>2

LEMMA InitTypeInv == Init => TypeInv
<1> SUFFICES ASSUME Init PROVE TypeInv
  OBVIOUS
<1>1. <<>> \in Seq(LinkIds)
  BY EmptySeq
<1>2. 0 \in 0 .. FdLimit
  BY FdLimitAssumption
<1>3. QED
  BY <1>1, <1>2 DEF Init, TypeInv, TypeOK, PendingInv, LinkTypes, NoType,
                    NoLegacy, LegacyInfo

(* Every reachable state of the binding is type-correct: module.links only *)
(* ever holds BPFLinks that wrap a link, for every number of goroutines,   *)
(* programs, hooks and links and every descriptor limit.                   *)
THEOREM TypeCorrect == Spec => []TypeOK
<1>1. TypeInv => TypeOK
  BY DEF TypeInv
<1>2. QED
  BY <1>1, InitTypeInv, NextTypeInv, PTL DEF Spec

-----------------------------------------------------------------------------
(* Each kind of step keeps the kernel's links and the non-nil pointers in  *)
(* step.                                                                   *)

LEMMA UnchangedPointersMatch ==
    ASSUME LinkPointersMatchKernel, UNCHANGED <<ptr, klinks>>
    PROVE  LinkPointersMatchKernel'
BY DEF LinkPointersMatchKernel

LEMMA NativeLinkMatch ==
    ASSUME TypeInv, LinkPointersMatchKernel, NEW l \in LinkIds, NEW lt,
           NativeLink(l, lt)
    PROVE  LinkPointersMatchKernel'
BY DEF TypeInv, TypeOK, LinkPointersMatchKernel, NativeLink

LEMMA DestroyMatch ==
    ASSUME TypeInv, LinkPointersMatchKernel, NEW g \in Goroutines,
           NEW l \in LinkIds, Destroy(g, l)
    PROVE  LinkPointersMatchKernel'
<1>1. CASE legacy[l] # NoLegacy
  BY <1>1, UnchangedPointersMatch DEF Destroy
<1>2. CASE legacy[l] = NoLegacy
  <2>1. ptr[l] /\ klinks' = klinks \ {l} /\ ptr' = [ptr EXCEPT ![l] = FALSE]
    BY <1>2 DEF Destroy
  <2>2. QED
    BY <2>1 DEF TypeInv, TypeOK, LinkPointersMatchKernel
<1>3. QED
  BY <1>1, <1>2

LEMMA CloseMatch ==
    ASSUME TypeInv, LinkPointersMatchKernel, NEW g \in Goroutines, Close(g)
    PROVE  LinkPointersMatchKernel'
<1> DEFINE torn == {l \in ElemsOf(links) : ptr[l]}
<1>1. klinks' = klinks \ torn /\ ptr' = [l \in LinkIds |-> ptr[l] /\ l \notin torn]
  BY DEF Close
<1>2. QED
  BY <1>1 DEF TypeInv, TypeOK, LinkPointersMatchKernel

LEMMA NextPointersMatch ==
    IInv /\ [Next]_vars => LinkPointersMatchKernel'
<1> SUFFICES ASSUME IInv, [Next]_vars PROVE LinkPointersMatchKernel'
  OBVIOUS
<1>0. TypeInv /\ LinkPointersMatchKernel
  BY DEF IInv
<1>1. CASE UNCHANGED vars
  BY <1>0, <1>1, UnchangedPointersMatch DEF vars
<1>2. CASE Next
  <2>1. PICK g \in Goroutines : Step(g)
    BY <1>2 DEF Next
  <2>2. CASE \E lt \in LinkTypes : AttachTracked(g, lt) \/ AttachUntracked(g, lt)
    <3>1. PICK lt \in LinkTypes : AttachTracked(g, lt) \/ AttachUntracked(g, lt)
      BY <2>2
    <3>2. PICK l \in FreshLinks : NativeLink(l, lt)
      BY <3>1 DEF AttachTracked, AttachUntracked
    <3>3. QED
      BY <1>0, <3>2, NativeLinkMatch DEF FreshLinks
  <2>3. CASE AttachNetns(g)
    <3>1. CASE \E l \in FreshLinks : NativeLink(l, "Netns") /\ ReadLinks(g, l)
      BY <1>0, <3>1, NativeLinkMatch DEF FreshLinks
    <3>2. CASE UNCHANGED <<pc, snapshot, pendingLink, kind, ptr, klinks>>
      BY <1>0, <3>2, UnchangedPointersMatch
    <3>3. QED
      BY <2>3, <3>1, <3>2 DEF AttachNetns
  <2>4. CASE \E p \in Progs, h \in Hooks : AttachCgroupLegacy(g, p, h)
    <3>1. PICK p \in Progs, h \in Hooks : AttachCgroupLegacy(g, p, h)
      BY <2>4
    <3>2. CASE AttachCgroup(g)
      <4>1. \E lt \in LinkTypes : AttachTracked(g, lt)
        BY <3>2 DEF AttachCgroup, LinkTypes, TrackedTypes
      <4>2. PICK lt \in LinkTypes : AttachTracked(g, lt)
        BY <4>1
      <4>3. PICK l \in FreshLinks : NativeLink(l, lt)
        BY <4>2 DEF AttachTracked
      <4>4. QED
        BY <1>0, <4>3, NativeLinkMatch DEF FreshLinks
    <3>3. CASE ~AttachCgroup(g)
      BY <1>0, <3>1, <3>3, UnchangedPointersMatch DEF AttachCgroupLegacy
    <3>4. QED
      BY <3>2, <3>3
  <2>5. CASE \E l \in LinkIds : Destroy(g, l)
    BY <1>0, <2>5, DestroyMatch
  <2>6. CASE Close(g)
    BY <1>0, <2>6, CloseMatch
  <2>7. CASE \/ AppendLink(g)
             \/ \E p \in Progs, h \in Hooks :
                    \/ DetachCgroupLegacy(g, p, h)
                    \/ AttachGenericFD(g, p, h)
                    \/ DetachGenericFD(g, p, h)
             \/ \E p \in Progs, i \in Ifaces :
                    AttachXDPLegacy(g, p, i) \/ DetachXDPLegacy(g, p, i)
    BY <1>0, <2>7, UnchangedPointersMatch
       DEF AppendLink, DetachCgroupLegacy, AttachGenericFD, DetachGenericFD,
           AttachXDPLegacy, DetachXDPLegacy
  <2>8. QED
    <3>1. \/ \E lt \in LinkTypes : AttachTracked(g, lt) \/ AttachUntracked(g, lt)
          \/ AttachNetns(g)
          \/ \E p \in Progs, h \in Hooks : AttachCgroupLegacy(g, p, h)
          \/ \E l \in LinkIds : Destroy(g, l)
          \/ Close(g)
          \/ AppendLink(g)
          \/ \E p \in Progs, h \in Hooks :
                 \/ DetachCgroupLegacy(g, p, h)
                 \/ AttachGenericFD(g, p, h)
                 \/ DetachGenericFD(g, p, h)
          \/ \E p \in Progs, i \in Ifaces :
                 AttachXDPLegacy(g, p, i) \/ DetachXDPLegacy(g, p, i)
      BY <2>1 DEF Step, AttachGeneric, AttachCgroup, AttachXDP, AttachTracepoint,
                  AttachRawTracepoint, AttachLSM, AttachPerfEvent,
                  attachKprobeCommon, AttachIter, doAttachUprobe,
                  doAttachUprobeMulti, AttachUSDT, LinkTypes, TrackedTypes,
                  UntrackedTypes
    <3>2. QED
      BY <3>1, <2>2, <2>3, <2>4, <2>5, <2>6, <2>7
<1>3. QED
  BY <1>1, <1>2

LEMMA InitIInv == Init => IInv
BY InitTypeInv DEF Init, IInv, LinkPointersMatchKernel

-----------------------------------------------------------------------------
(* The refinement mapping of ImplementsLifecycle: created <- Created,      *)
(* held <- Held, live <- klinks.                                           *)
LVars == <<Created, Held, klinks>>

LEMMA UnchangedLifecycle ==
    ASSUME UNCHANGED <<kind, ptr, klinks>>
    PROVE  UNCHANGED LVars
BY DEF LVars, Created, Held

(* A native attach is the abstract creation of a BPFLink holding a link.   *)
LEMMA NativeLinkCreates ==
    ASSUME TypeInv, NEW l \in FreshLinks, NEW lt \in LinkTypes, NativeLink(l, lt)
    PROVE  Lifecycle!Create(l)
BY DEF TypeInv, TypeOK, NativeLink, Lifecycle!Create, Created, FreshLinks,
       Held, LinkTypes, NoType, TrackedTypes, UntrackedTypes

(* The legacy fallback is the abstract creation of a fake BPFLink.         *)
LEMMA LegacyCreatesFake ==
    ASSUME TypeInv, NEW l \in FreshLinks,
           kind' = [kind EXCEPT ![l] = "CgroupLegacy"], UNCHANGED <<ptr, klinks>>
    PROVE  Lifecycle!CreateFake(l)
BY DEF TypeInv, TypeOK, Lifecycle!CreateFake, Created, FreshLinks, Held, NoType

LEMMA DestroyRefines ==
    ASSUME TypeInv, NEW g \in Goroutines, NEW l \in LinkIds, Destroy(g, l)
    PROVE  [Lifecycle!Next]_LVars
<1>1. CASE legacy[l] # NoLegacy
  BY <1>1, UnchangedLifecycle DEF Destroy
<1>2. CASE legacy[l] = NoLegacy
  <2>1. ptr[l] /\ klinks' = klinks \ {l} /\ ptr' = [ptr EXCEPT ![l] = FALSE]
        /\ kind' = kind
    BY <1>2 DEF Destroy
  <2>2. Lifecycle!Release({l})
    BY <2>1 DEF TypeInv, TypeOK, Lifecycle!Release, Held, Created
  <2>3. {l} \in SUBSET Held
    BY <2>1 DEF Held
  <2>4. QED
    BY <2>2, <2>3 DEF Lifecycle!Next, LVars, Held
<1>3. QED
  BY <1>1, <1>2

LEMMA CloseRefines ==
    ASSUME TypeInv, NEW g \in Goroutines, Close(g)
    PROVE  [Lifecycle!Next]_LVars
<1> DEFINE torn == {l \in ElemsOf(links) : ptr[l]}
<1>1. klinks' = klinks \ torn /\ ptr' = [l \in LinkIds |-> ptr[l] /\ l \notin torn]
      /\ kind' = kind
  BY DEF Close
<1>2. torn \cap LinkIds \in SUBSET Held
  BY DEF Held
<1>3. Lifecycle!Release(torn \cap LinkIds)
  BY <1>1 DEF TypeInv, TypeOK, Lifecycle!Release, Held, Created
<1>4. \E S \in SUBSET Held : Lifecycle!Release(S)
  BY <1>2, <1>3
<1>5. QED
  BY <1>4 DEF Lifecycle!Next

LEMMA NextRefines ==
    TypeInv /\ [Next]_vars => [Lifecycle!Next]_LVars
<1> SUFFICES ASSUME TypeInv, [Next]_vars PROVE [Lifecycle!Next]_LVars
  OBVIOUS
<1>1. CASE UNCHANGED vars
  BY <1>1, UnchangedLifecycle DEF vars
<1>2. CASE Next
  <2>1. PICK g \in Goroutines : Step(g)
    BY <1>2 DEF Next
  <2>2. ASSUME NEW l \in FreshLinks, NEW lt \in LinkTypes, NativeLink(l, lt)
        PROVE  [Lifecycle!Next]_LVars
    <3>1. Lifecycle!Create(l)
      BY <2>2, NativeLinkCreates
    <3>2. QED
      BY <3>1 DEF Lifecycle!Next, FreshLinks, LVars
  <2>3. CASE \E lt \in LinkTypes : AttachTracked(g, lt) \/ AttachUntracked(g, lt)
    <3>1. PICK lt \in LinkTypes : AttachTracked(g, lt) \/ AttachUntracked(g, lt)
      BY <2>3
    <3>2. PICK l \in FreshLinks : NativeLink(l, lt)
      BY <3>1 DEF AttachTracked, AttachUntracked
    <3>3. QED
      BY <3>2, <2>2
  <2>4. CASE AttachNetns(g)
    <3>1. CASE \E l \in FreshLinks : NativeLink(l, "Netns") /\ ReadLinks(g, l)
      BY <3>1, <2>2 DEF LinkTypes, TrackedTypes
    <3>2. CASE UNCHANGED <<pc, snapshot, pendingLink, kind, ptr, klinks>>
      BY <3>2, UnchangedLifecycle
    <3>3. QED
      BY <2>4, <3>1, <3>2 DEF AttachNetns
  <2>5. CASE \E p \in Progs, h \in Hooks : AttachCgroupLegacy(g, p, h)
    <3>1. PICK p \in Progs, h \in Hooks : AttachCgroupLegacy(g, p, h)
      BY <2>5
    <3>2. CASE AttachCgroup(g)
      <4>1. PICK l \in FreshLinks : NativeLink(l, "Cgroup")
        BY <3>2 DEF AttachCgroup, AttachTracked
      <4>2. QED
        BY <4>1, <2>2 DEF LinkTypes, TrackedTypes
    <3>3. CASE ~AttachCgroup(g)
      <4>1. PICK l \in FreshLinks : kind' = [kind EXCEPT ![l] = "CgroupLegacy"]
        BY <3>1, <3>3 DEF AttachCgroupLegacy
      <4>2. UNCHANGED <<ptr, klinks>>
        BY <3>1, <3>3 DEF AttachCgroupLegacy
      <4>3. Lifecycle!CreateFake(l)
        BY <4>1, <4>2, LegacyCreatesFake
      <4>4. QED
        BY <4>3 DEF Lifecycle!Next, FreshLinks, LVars
    <3>4. QED
      BY <3>2, <3>3
  <2>6. CASE \E l \in LinkIds : Destroy(g, l)
    BY <2>6, DestroyRefines
  <2>7. CASE Close(g)
    BY <2>7, CloseRefines
  <2>8. CASE \/ AppendLink(g)
             \/ \E p \in Progs, h \in Hooks :
                    \/ DetachCgroupLegacy(g, p, h)
                    \/ AttachGenericFD(g, p, h)
                    \/ DetachGenericFD(g, p, h)
             \/ \E p \in Progs, i \in Ifaces :
                    AttachXDPLegacy(g, p, i) \/ DetachXDPLegacy(g, p, i)
    BY <2>8, UnchangedLifecycle
       DEF AppendLink, DetachCgroupLegacy, AttachGenericFD, DetachGenericFD,
           AttachXDPLegacy, DetachXDPLegacy
  <2>9. QED
    <3>1. \/ \E lt \in LinkTypes : AttachTracked(g, lt) \/ AttachUntracked(g, lt)
          \/ AttachNetns(g)
          \/ \E p \in Progs, h \in Hooks : AttachCgroupLegacy(g, p, h)
          \/ \E l \in LinkIds : Destroy(g, l)
          \/ Close(g)
          \/ AppendLink(g)
          \/ \E p \in Progs, h \in Hooks :
                 \/ DetachCgroupLegacy(g, p, h)
                 \/ AttachGenericFD(g, p, h)
                 \/ DetachGenericFD(g, p, h)
          \/ \E p \in Progs, i \in Ifaces :
                 AttachXDPLegacy(g, p, i) \/ DetachXDPLegacy(g, p, i)
      BY <2>1 DEF Step, AttachGeneric, AttachCgroup, AttachXDP, AttachTracepoint,
                  AttachRawTracepoint, AttachLSM, AttachPerfEvent,
                  attachKprobeCommon, AttachIter, doAttachUprobe,
                  doAttachUprobeMulti, AttachUSDT, LinkTypes, TrackedTypes,
                  UntrackedTypes
    <3>2. QED
      BY <3>1, <2>3, <2>4, <2>5, <2>6, <2>7, <2>8
<1>3. QED
  BY <1>1, <1>2

(* The binding implements LinkLifecycle for every number of goroutines,    *)
(* programs, hooks and links: each attach creates a fresh BPFLink, and     *)
(* Destroy and Module.Close free only links a BPFLink holds, clearing the  *)
(* pointer in the same step, in every interleaving of goroutines.          *)
THEOREM Refinement == Spec => ImplementsLifecycle
<1>1. Init => Lifecycle!Init
  BY DEF Init, Lifecycle!Init, Created, Held, NoType
<1>2. QED
  BY <1>1, InitTypeInv, NextTypeInv, NextRefines, PTL
     DEF Spec, ImplementsLifecycle, Lifecycle!Spec, LVars

-----------------------------------------------------------------------------
(* The strengthening of TrackedLinksTornDown for a single goroutine.       *)
(* Every live link of a tracked type is in module.links, or is the link    *)
(* the goroutine is appending. While the goroutine is appending, nobody    *)
(* else has written module.links, so its snapshot is still current. Once   *)
(* Close has run, no call is in flight and no tracked link is alive.       *)
TrackedInv ==
    /\ \A l \in klinks :
          kind[l] \in TrackedTypes =>
              \/ l \in ElemsOf(links)
              \/ \E g \in Goroutines : pc[g] = "append" /\ pendingLink[g] = l
    /\ \A g \in Goroutines : pc[g] = "append" => snapshot[g] = links /\ ~closed
    /\ closed => AllIdle /\ \A l \in klinks : kind[l] \notin TrackedTypes

TInv == IInv /\ TrackedInv

(* Appending x to s adds x to the elements of s.                          *)
LEMMA ElemsOfAppend ==
    ASSUME NEW S, NEW s \in Seq(S), NEW x \in S
    PROVE  ElemsOf(Append(s, x)) = ElemsOf(s) \cup {x}
<1>1. /\ Len(Append(s, x)) = Len(s) + 1
      /\ \A i \in 1 .. Len(s) : Append(s, x)[i] = s[i]
      /\ Append(s, x)[Len(s) + 1] = x
  BY AppendProperties
<1>2. QED
  BY <1>1 DEF ElemsOf

(* A step that leaves the goroutines, module.links, the link types, the    *)
(* live links and closed alone keeps TrackedInv.                           *)
LEMMA TrackedFrame ==
    ASSUME TrackedInv,
           UNCHANGED <<pc, snapshot, pendingLink, links, kind, klinks, closed>>
    PROVE  TrackedInv'
BY DEF TrackedInv, AllIdle, ElemsOf

LEMMA TrackedDestroy ==
    ASSUME TrackedInv, NEW g \in Goroutines, NEW l \in LinkIds, Destroy(g, l)
    PROVE  TrackedInv'
<1>1. klinks' \subseteq klinks
  BY DEF Destroy
<1>2. UNCHANGED <<pc, snapshot, pendingLink, links, kind, closed>>
  BY DEF Destroy
<1>3. QED
  BY <1>1, <1>2 DEF TrackedInv, AllIdle, ElemsOf

(* A native attach that starts an append: the new link is the goroutine's  *)
(* pending link, and its snapshot is the current module.links.             *)
LEMMA TrackedStartAppend ==
    ASSUME TypeInv, TrackedInv, NEW g \in Goroutines, NEW l \in LinkIds,
           NEW lt, CanCall(g), NativeLink(l, lt), ReadLinks(g, l),
           UNCHANGED <<links, closed>>
    PROVE  TrackedInv'
<1>1. closed = FALSE /\ pc[g] = "idle"
  BY DEF CanCall, TypeInv, TypeOK
<1>2. ASSUME NEW l2 \in klinks', kind'[l2] \in TrackedTypes
      PROVE  \/ l2 \in ElemsOf(links')
             \/ \E g2 \in Goroutines : pc'[g2] = "append" /\ pendingLink'[g2] = l2
  <2>1. CASE l2 = l
    BY <2>1 DEF ReadLinks, TypeInv, TypeOK
  <2>2. CASE l2 # l
    <3>1. l2 \in klinks /\ kind[l2] \in TrackedTypes
      BY <1>2, <2>2 DEF NativeLink, TypeInv, TypeOK
    <3>2. \/ l2 \in ElemsOf(links)
          \/ \E g2 \in Goroutines : pc[g2] = "append" /\ pendingLink[g2] = l2
      BY <3>1 DEF TrackedInv
    <3>3. QED
      BY <3>2, <1>1 DEF ReadLinks, TypeInv, TypeOK, ElemsOf
  <2>3. QED
    BY <2>1, <2>2
<1>3. \A g2 \in Goroutines : pc'[g2] = "append" => snapshot'[g2] = links' /\ ~closed'
  BY <1>1 DEF ReadLinks, TrackedInv, TypeInv, TypeOK
<1>4. QED
  BY <1>1, <1>2, <1>3 DEF TrackedInv

(* A native attach that returns its link without appending it gives the    *)
(* link an untracked type.                                                 *)
LEMMA TrackedUntracked ==
    ASSUME TypeInv, TrackedInv, NEW g \in Goroutines, NEW l \in LinkIds,
           NEW lt \in UntrackedTypes, CanCall(g), NativeLink(l, lt),
           UNCHANGED <<pc, snapshot, pendingLink, links, closed>>
    PROVE  TrackedInv'
<1>1. closed = FALSE
  BY DEF CanCall
<1>2. ASSUME NEW l2 \in klinks', kind'[l2] \in TrackedTypes
      PROVE  l2 \in klinks /\ kind[l2] \in TrackedTypes
  BY <1>2 DEF NativeLink, TypeInv, TypeOK, UntrackedTypes, TrackedTypes
<1>3. QED
  BY <1>1, <1>2 DEF TrackedInv, ElemsOf

(* The legacy fallback creates a fake link, which is not alive.            *)
LEMMA TrackedFake ==
    ASSUME TypeInv, TrackedInv, NEW l \in LinkIds,
           kind' = [kind EXCEPT ![l] = "CgroupLegacy"],
           UNCHANGED <<pc, snapshot, pendingLink, links, klinks, closed>>
    PROVE  TrackedInv'
<1>1. ASSUME NEW l2 \in klinks', kind'[l2] \in TrackedTypes
      PROVE  l2 \in klinks /\ kind[l2] \in TrackedTypes
  BY <1>1 DEF TypeInv, TypeOK, TrackedTypes
<1>2. QED
  BY <1>1 DEF TrackedInv, AllIdle, ElemsOf

(* With a single goroutine, the write half of the append stores exactly    *)
(* module.links extended by the pending link: nobody wrote in between.     *)
LEMMA TrackedAppend ==
    ASSUME NEW g0, Goroutines = {g0}, TypeInv, TrackedInv, AppendLink(g0)
    PROVE  TrackedInv'
<1>1. snapshot[g0] = links /\ ~closed /\ pendingLink[g0] \in LinkIds
  BY DEF AppendLink, TrackedInv, TypeInv, PendingInv
<1>2. ElemsOf(links') = ElemsOf(links) \cup {pendingLink[g0]}
  BY <1>1, ElemsOfAppend DEF AppendLink, TypeInv, TypeOK
<1>3. pc' = [pc EXCEPT ![g0] = "idle"] /\ UNCHANGED <<kind, klinks, closed>>
  BY DEF AppendLink
<1>4. ASSUME NEW l \in klinks', kind'[l] \in TrackedTypes
      PROVE  l \in ElemsOf(links')
  <2>1. \/ l \in ElemsOf(links)
        \/ \E g \in Goroutines : pc[g] = "append" /\ pendingLink[g] = l
    BY <1>3, <1>4 DEF TrackedInv
  <2>2. QED
    BY <2>1, <1>2
<1>5. \A g \in Goroutines : pc'[g] = "idle"
  BY <1>3 DEF TypeInv, TypeOK
<1>6. QED
  BY <1>1, <1>3, <1>4, <1>5 DEF TrackedInv

(* With a single goroutine, Close runs with no append in flight, so every  *)
(* live tracked link is in module.links and, holding its pointer, torn.    *)
LEMMA TrackedClose ==
    ASSUME NEW g0, Goroutines = {g0}, TypeInv, LinkPointersMatchKernel,
           TrackedInv, Close(g0)
    PROVE  TrackedInv'
<1> DEFINE torn == {l \in ElemsOf(links) : ptr[l]}
<1>1. klinks' = klinks \ torn /\ closed' = TRUE
      /\ UNCHANGED <<pc, snapshot, pendingLink, links, kind>>
  BY DEF Close
<1>2. pc[g0] = "idle"
  BY DEF Close, CanCall
<1>3. ASSUME NEW l \in klinks, kind[l] \in TrackedTypes
      PROVE  l \in torn
  <2>1. l \in ElemsOf(links)
    BY <1>2, <1>3 DEF TrackedInv
  <2>2. ptr[l]
    BY <1>3 DEF LinkPointersMatchKernel
  <2>3. QED
    BY <2>1, <2>2
<1>4. \A l \in klinks' : kind'[l] \notin TrackedTypes
  BY <1>1, <1>3
<1>5. QED
  BY <1>1, <1>2, <1>4 DEF TrackedInv, AllIdle

LEMMA NextTrackedInv ==
    ASSUME NEW g0, Goroutines = {g0}, TInv, [Next]_vars
    PROVE  TrackedInv'
<1>0. TypeInv /\ LinkPointersMatchKernel /\ TrackedInv
  BY DEF TInv, IInv
<1>1. CASE UNCHANGED vars
  BY <1>0, <1>1, TrackedFrame DEF vars
<1>2. CASE Next
  <2>1. Step(g0)
    BY <1>2 DEF Next
  <2>2. CASE \E lt \in LinkTypes : AttachTracked(g0, lt)
    <3>1. PICK lt \in LinkTypes : AttachTracked(g0, lt)
      BY <2>2
    <3>2. PICK l \in FreshLinks : NativeLink(l, lt) /\ ReadLinks(g0, l)
      BY <3>1 DEF AttachTracked
    <3>3. QED
      BY <1>0, <3>1, <3>2, TrackedStartAppend DEF AttachTracked, FreshLinks
  <2>3. CASE \E lt \in UntrackedTypes : AttachUntracked(g0, lt)
    <3>1. PICK lt \in UntrackedTypes : AttachUntracked(g0, lt)
      BY <2>3
    <3>2. PICK l \in FreshLinks : NativeLink(l, lt)
      BY <3>1 DEF AttachUntracked
    <3>3. QED
      BY <1>0, <3>1, <3>2, TrackedUntracked DEF AttachUntracked, FreshLinks
  <2>4. CASE AttachNetns(g0)
    <3>1. CASE \E l \in FreshLinks : NativeLink(l, "Netns") /\ ReadLinks(g0, l)
      <4>1. PICK l \in FreshLinks : NativeLink(l, "Netns") /\ ReadLinks(g0, l)
        BY <3>1
      <4>2. QED
        BY <1>0, <2>4, <4>1, TrackedStartAppend DEF AttachNetns, FreshLinks
    <3>2. CASE UNCHANGED <<pc, snapshot, pendingLink, kind, ptr, klinks>>
      BY <1>0, <2>4, <3>2, TrackedFrame DEF AttachNetns
    <3>3. QED
      BY <2>4, <3>1, <3>2 DEF AttachNetns
  <2>5. CASE \E p \in Progs, h \in Hooks : AttachCgroupLegacy(g0, p, h)
    <3>1. PICK p \in Progs, h \in Hooks : AttachCgroupLegacy(g0, p, h)
      BY <2>5
    <3>2. CASE AttachCgroup(g0)
      <4>1. PICK l \in FreshLinks : NativeLink(l, "Cgroup") /\ ReadLinks(g0, l)
        BY <3>2 DEF AttachCgroup, AttachTracked
      <4>2. QED
        BY <1>0, <3>2, <4>1, TrackedStartAppend
           DEF AttachCgroup, AttachTracked, FreshLinks
    <3>3. CASE ~AttachCgroup(g0)
      <4>1. PICK l \in FreshLinks : kind' = [kind EXCEPT ![l] = "CgroupLegacy"]
        BY <3>1, <3>3 DEF AttachCgroupLegacy
      <4>2. UNCHANGED <<pc, snapshot, pendingLink, links, klinks, closed>>
        BY <3>1, <3>3 DEF AttachCgroupLegacy
      <4>3. QED
        BY <1>0, <4>1, <4>2, TrackedFake DEF FreshLinks
    <3>4. QED
      BY <3>2, <3>3
  <2>6. CASE AppendLink(g0)
    BY <1>0, <2>6, TrackedAppend
  <2>7. CASE \E l \in LinkIds : Destroy(g0, l)
    BY <1>0, <2>7, TrackedDestroy
  <2>8. CASE Close(g0)
    BY <1>0, <2>8, TrackedClose
  <2>9. CASE \/ \E p \in Progs, h \in Hooks :
                    \/ DetachCgroupLegacy(g0, p, h)
                    \/ AttachGenericFD(g0, p, h)
                    \/ DetachGenericFD(g0, p, h)
             \/ \E p \in Progs, i \in Ifaces :
                    AttachXDPLegacy(g0, p, i) \/ DetachXDPLegacy(g0, p, i)
    BY <1>0, <2>9, TrackedFrame
       DEF DetachCgroupLegacy, AttachGenericFD, DetachGenericFD,
           AttachXDPLegacy, DetachXDPLegacy
  <2>10. QED
    <3>1. \/ \E lt \in LinkTypes : AttachTracked(g0, lt)
          \/ \E lt \in UntrackedTypes : AttachUntracked(g0, lt)
          \/ AttachNetns(g0)
          \/ \E p \in Progs, h \in Hooks : AttachCgroupLegacy(g0, p, h)
          \/ AppendLink(g0)
          \/ \E l \in LinkIds : Destroy(g0, l)
          \/ Close(g0)
          \/ \E p \in Progs, h \in Hooks :
                 \/ DetachCgroupLegacy(g0, p, h)
                 \/ AttachGenericFD(g0, p, h)
                 \/ DetachGenericFD(g0, p, h)
          \/ \E p \in Progs, i \in Ifaces :
                 AttachXDPLegacy(g0, p, i) \/ DetachXDPLegacy(g0, p, i)
      BY <2>1 DEF Step, AttachGeneric, AttachCgroup, AttachXDP, AttachTracepoint,
                  AttachRawTracepoint, AttachLSM, AttachPerfEvent,
                  attachKprobeCommon, AttachIter, doAttachUprobe,
                  doAttachUprobeMulti, AttachUSDT, LinkTypes, TrackedTypes,
                  UntrackedTypes
    <3>2. QED
      BY <3>1, <2>2, <2>3, <2>4, <2>5, <2>6, <2>7, <2>8, <2>9
<1>3. QED
  BY <1>1, <1>2

(* With one goroutine using the module, once Module.Close has run no link  *)
(* of a type that the attach methods append to module.links is still      *)
(* alive, for every number of programs, hooks, devices and links. With    *)
(* two goroutines it fails: an append can land after Close.               *)
THEOREM TrackedTornDownSingle ==
    ASSUME NEW g0, Goroutines = {g0}
    PROVE  Spec => []TrackedLinksTornDown
<1>1. Init => TInv
  BY InitIInv DEF Init, TInv, TrackedInv, AllIdle
<1>2. TInv /\ [Next]_vars => TInv'
  BY NextTypeInv, NextPointersMatch, NextTrackedInv DEF TInv, IInv
<1>3. TInv => TrackedLinksTornDown
  BY DEF TInv, TrackedInv, TrackedLinksTornDown
<1>4. QED
  BY <1>1, <1>2, <1>3, PTL DEF Spec

-----------------------------------------------------------------------------
(* Destroying a BPFLink detaches another one only when both are legacy     *)
(* fake links for the same program and hook: that is exactly how far      *)
(* LinksIndependent fails (ProgAttach_legacy_shared), and a real link is   *)
(* never disturbed by the Destroy of another link.                         *)
DestroyDisturbsOnlySharedFakes ==
    [][\A l1, l2 \in Created :
          /\ l1 # l2
          /\ l1 \in userDestroyed' \ userDestroyed
          /\ Attached(l2)
          /\ ~Attached(l2)'
          => legacy[l2] # NoLegacy /\ legacy[l2] = legacy[l1]]_vars

(* Only Destroy adds to the links the caller has destroyed.                *)
LEMMA OnlyDestroyDestroys ==
    ASSUME [Next]_vars, userDestroyed' # userDestroyed
    PROVE  \E g \in Goroutines, l \in LinkIds : Destroy(g, l)
<1>1. ~UNCHANGED vars
  BY DEF vars
<1>2. PICK g \in Goroutines : Step(g)
  BY <1>1 DEF Next
<1>3. ~\/ AttachGeneric(g) \/ AttachCgroup(g) \/ AttachXDP(g)
       \/ AttachTracepoint(g) \/ AttachRawTracepoint(g) \/ AttachLSM(g)
       \/ AttachPerfEvent(g) \/ \E isRet \in BOOLEAN : attachKprobeCommon(g, isRet)
       \/ AttachIter(g) \/ AttachUSDT(g)
       \/ \E isRet \in BOOLEAN : doAttachUprobe(g, isRet)
       \/ \E isRet \in BOOLEAN : doAttachUprobeMulti(g, isRet)
  BY DEF AttachGeneric, AttachCgroup, AttachXDP, AttachTracepoint,
         AttachRawTracepoint, AttachLSM, AttachPerfEvent, attachKprobeCommon,
         AttachIter, AttachUSDT, doAttachUprobe, doAttachUprobeMulti,
         AttachTracked, AttachUntracked
<1>4. ~\/ AttachNetns(g) \/ AppendLink(g) \/ Close(g)
  BY DEF AttachNetns, AppendLink, Close
<1>5. ~\E p \in Progs, h \in Hooks :
          \/ AttachCgroupLegacy(g, p, h)
          \/ DetachCgroupLegacy(g, p, h)
          \/ AttachGenericFD(g, p, h)
          \/ DetachGenericFD(g, p, h)
  BY DEF AttachCgroupLegacy, AttachCgroup, AttachTracked, DetachCgroupLegacy,
         AttachGenericFD, DetachGenericFD
<1>6. ~\E p \in Progs, i \in Ifaces :
          AttachXDPLegacy(g, p, i) \/ DetachXDPLegacy(g, p, i)
  BY DEF AttachXDPLegacy, DetachXDPLegacy
<1>7. QED
  BY <1>2, <1>3, <1>4, <1>5, <1>6 DEF Step

LEMMA DestroyDisturbsStep ==
    ASSUME TypeOK, [Next]_vars, NEW l1 \in Created, NEW l2 \in Created,
           l1 # l2, l1 \in userDestroyed' \ userDestroyed,
           Attached(l2), ~Attached(l2)'
    PROVE  legacy[l2] # NoLegacy /\ legacy[l2] = legacy[l1]
<1>1. PICK g \in Goroutines, l \in LinkIds : Destroy(g, l)
  BY OnlyDestroyDestroys
<1>2. l = l1
  BY <1>1 DEF Destroy
<1>3. UNCHANGED legacy
  BY <1>1 DEF Destroy
<1>4. CASE legacy[l1] # NoLegacy
  <2>1. legacy[l1] = <<legacy[l1][1], legacy[l1][2]>>
    BY <1>4 DEF TypeOK, LegacyInfo, NoLegacy, Created
  <2>2. kattach' = kattach \ {legacy[l1]} /\ UNCHANGED klinks
    BY <1>1, <1>2, <1>4, <2>1 DEF Destroy, DetachLegacy
  <2>3. QED
    BY <1>3, <2>2 DEF Attached
<1>5. CASE legacy[l1] = NoLegacy
  <2>1. klinks' = klinks \ {l1} /\ UNCHANGED kattach
    BY <1>1, <1>2, <1>5 DEF Destroy
  <2>2. QED
    BY <1>3, <2>1 DEF Attached
<1>6. QED
  BY <1>4, <1>5

(* Destroying a BPFLink leaves every other link attached, except legacy    *)
(* fake links that share its program and hook, for every number of         *)
(* goroutines, programs, hooks and links.                                  *)
THEOREM DestroyIndependentUpToSharing == Spec => DestroyDisturbsOnlySharedFakes
<1>1. TypeOK /\ [Next]_vars =>
        [\A l1, l2 \in Created :
            /\ l1 # l2
            /\ l1 \in userDestroyed' \ userDestroyed
            /\ Attached(l2)
            /\ ~Attached(l2)'
            => legacy[l2] # NoLegacy /\ legacy[l2] = legacy[l1]]_vars
  BY DestroyDisturbsStep
<1>2. QED
  BY <1>1, TypeCorrect, PTL DEF Spec, DestroyDisturbsOnlySharedFakes

=============================================================================
