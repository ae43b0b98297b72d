----------------------------- MODULE ProgAttach -----------------------------
(***************************************************************************)
(* The attach surface of BPFProg (src/prog.go) and the bookkeeping that    *)
(* lets a Module tear its links down again.                                *)
(*                                                                         *)
(* Every Attach* method calls one libbpf attach function.  On success it   *)
(* wraps the returned struct bpf_link in a BPFLink and, for some link      *)
(* types only, appends it to p.module.links with                           *)
(*     p.module.links = append(p.module.links, bpfLink)                    *)
(* which is a read of the slice followed by a write of it, with no lock:   *)
(* the two are separate steps here, so that goroutines attaching programs  *)
(* of one module concurrently interleave between them.                     *)
(*                                                                         *)
(* The kernel side is abstracted to what the bookkeeping is about: the set *)
(* of live bpf_links, the table of program attachments made without a     *)
(* link (bpf_prog_attach, used by the legacy cgroup fallback and by        *)
(* AttachGenericFD) and the program each device runs through the netlink   *)
(* XDP interface.  A native call that fails returns an error and changes   *)
(* nothing; that is a stuttering step, except where the code has already   *)
(* changed state before the failure (AttachNetns, AttachCgroupLegacy).     *)
(*                                                                         *)
(* Module.Close and BPFLink.Destroy live in files that are not part of the *)
(* sources given here; they are modelled from the spec: Close tears down   *)
(* the links in module.links whose pointer is non-nil, Destroy detaches    *)
(* its own link (through DetachCgroupLegacy for a legacy fake link) and    *)
(* sets the pointer of a real link to nil.                                 *)
(***************************************************************************)
EXTENDS Naturals, Sequences, FiniteSets

CONSTANTS
    Goroutines,  \* callers that use the binding, possibly concurrently
    Progs,       \* the BPFProg handles of one Module
    Hooks,       \* (cgroup directory, attach type) targets of bpf_prog_attach
    Ifaces,      \* network devices, for the netlink XDP attachment
    LinkIds,     \* identities of the BPFLink objects the binding may create
    FdLimit,     \* descriptors the process may still open (RLIMIT_NOFILE)
    NoLink,      \* no BPFLink
    NoProg       \* no program

ASSUME NoLinkAssumption == NoLink \notin LinkIds
ASSUME NoProgAssumption == NoProg \notin Progs
ASSUME FdLimitAssumption == FdLimit \in Nat

VARIABLES
    pc,           \* pc[g]: "idle", or "append" between the read and the write of module.links
    snapshot,     \* snapshot[g]: the value of module.links that g read
    pendingLink,  \* pendingLink[g]: the BPFLink g is appending
    links,        \* Module.links, the links Close tears down
    kind,         \* kind[l]: BPFLink.linkType, NoType while l is not created
    ptr,          \* ptr[l]: BPFLink.link is non-nil
    legacy,       \* legacy[l]: BPFLink.legacy, <<prog, hook>> of a fake link, or <<>>
    klinks,       \* the bpf_links alive in the kernel
    kattach,      \* the kernel's <<prog, hook>> attachments made without a link
    kxdp,         \* kxdp[i]: the program attached to device i through netlink
    fds,          \* descriptors the binding left open after its calls returned
    closed,       \* Module.Close has run
    userDestroyed \* links whose Destroy returned nil to the caller

vars == <<pc, snapshot, pendingLink, links, kind, ptr, legacy, klinks,
          kattach, kxdp, fds, closed, userDestroyed>>

-----------------------------------------------------------------------------
(* BPFLinkType values the code assigns, split by whether the attach method *)
(* appends the link to module.links.                                       *)
TrackedTypes == {"Cgroup", "XDP", "Tracepoint", "RawTracepoint", "LSM",
                 "PerfEvent", "Kprobe", "Kretprobe", "Netns", "Iter"}
UntrackedTypes == {"Tracing", "Uprobe", "Uretprobe", "USDT"}
LinkTypes == TrackedTypes \cup UntrackedTypes \cup {"CgroupLegacy"}
NoType == "none"

NoLegacy == <<>>
LegacyInfo == Progs \X Hooks

Created == {l \in LinkIds : kind[l] # NoType}
FreshLinks == LinkIds \ Created
ElemsOf(s) == {s[i] : i \in 1 .. Len(s)}

(* A goroutine may start a call of the binding: it is not inside one, and  *)
(* the module has not been closed (its bpf_programs are freed by Close).   *)
CanCall(g) == ~closed /\ pc[g] = "idle"

(* syscall.Open of a directory or namespace file succeeds.                 *)
CanOpen == fds < FdLimit

-----------------------------------------------------------------------------
(* Mutant: the BPFLink literal leaves out link: linkC.                    *)
NativeLinkNoPointer(l, lt) ==
    /\ kind' = [kind EXCEPT ![l] = lt]
    /\ UNCHANGED ptr
    /\ klinks' = klinks \cup {l}

(* libbpf returned a new bpf_link, which the code wraps in BPFLink l.      *)
NativeLink(l, lt) ==
    /\ kind' = [kind EXCEPT ![l] = lt]
    /\ ptr' = [ptr EXCEPT ![l] = TRUE]
    /\ klinks' = klinks \cup {l}

(* The read half of p.module.links = append(p.module.links, bpfLink).      *)
ReadLinks(g, l) ==
    /\ pc' = [pc EXCEPT ![g] = "append"]
    /\ snapshot' = [snapshot EXCEPT ![g] = links]
    /\ pendingLink' = [pendingLink EXCEPT ![g] = l]

(* An attach method that appends its link to module.links.                 *)
AttachTracked(g, lt) ==
    /\ CanCall(g)
    /\ \E l \in FreshLinks : NativeLink(l, lt) /\ ReadLinks(g, l)
    /\ UNCHANGED <<links, legacy, kattach, kxdp, fds, closed, userDestroyed>>

(* An attach method that returns its link without appending it.            *)
AttachUntracked(g, lt) ==
    /\ CanCall(g)
    /\ \E l \in FreshLinks : NativeLink(l, lt)
    /\ UNCHANGED <<pc, snapshot, pendingLink, links, legacy, kattach, kxdp,
                   fds, closed, userDestroyed>>

(* The write half of the append: g stores its snapshot extended by its     *)
(* link, whatever another goroutine wrote in between.                      *)
AppendLink(g) ==
    /\ pc[g] = "append"
    /\ links' = Append(snapshot[g], pendingLink[g])
    /\ pc' = [pc EXCEPT ![g] = "idle"]
    /\ snapshot' = [snapshot EXCEPT ![g] = <<>>]
    /\ pendingLink' = [pendingLink EXCEPT ![g] = NoLink]
    /\ UNCHANGED <<kind, ptr, legacy, klinks, kattach, kxdp, fds, closed,
                   userDestroyed>>

-----------------------------------------------------------------------------
(* The attach methods.                                                     *)

AttachGeneric(g) == AttachUntracked(g, "Tracing")

(* getCgroupDirFD opens the directory; the deferred Close releases it.     *)
AttachCgroup(g) == CanOpen /\ AttachTracked(g, "Cgroup")

AttachXDP(g) == AttachTracked(g, "XDP")

(* Mutant: the append to module.links is left out.                        *)
AttachTracepointUntracked(g) == AttachUntracked(g, "Tracepoint")

AttachTracepoint(g) == AttachTracked(g, "Tracepoint")

AttachRawTracepoint(g) == AttachTracked(g, "RawTracepoint")

AttachLSM(g) == AttachTracked(g, "LSM")

AttachPerfEvent(g) == AttachTracked(g, "PerfEvent")

attachKprobeCommon(g, isRet) ==
    AttachTracked(g, IF isRet THEN "Kretprobe" ELSE "Kprobe")

(* Mutant: the linkC == nil check is dropped, so a BPFLink with no link    *)
(* is appended on the failure path.                                        *)
AttachNetnsNoNilCheck(g) ==
    /\ CanCall(g)
    /\ CanOpen
    /\ fds' = fds + 1
    /\ \/ \E l \in FreshLinks : NativeLink(l, "Netns") /\ ReadLinks(g, l)
       \/ ReadLinks(g, NoLink) /\ UNCHANGED <<kind, ptr, klinks>>
    /\ UNCHANGED <<links, legacy, kattach, kxdp, closed, userDestroyed>>

(* The namespace file is opened and never closed, on the success and on    *)
(* the failure path of bpf_program__attach_netns.                          *)
AttachNetns(g) ==
    /\ CanCall(g)
    /\ CanOpen
    /\ fds' = fds + 1
    /\ \/ \E l \in FreshLinks : NativeLink(l, "Netns") /\ ReadLinks(g, l)
       \/ UNCHANGED <<pc, snapshot, pendingLink, kind, ptr, klinks>>
    /\ UNCHANGED <<links, legacy, kattach, kxdp, closed, userDestroyed>>

AttachIter(g) == AttachTracked(g, "Iter")

doAttachUprobe(g, isRet) ==
    AttachUntracked(g, IF isRet THEN "Uretprobe" ELSE "Uprobe")

doAttachUprobeMulti(g, isRet) ==
    AttachUntracked(g, IF isRet THEN "Uretprobe" ELSE "Uprobe")

AttachUSDT(g) == AttachUntracked(g, "USDT")

-----------------------------------------------------------------------------
(* Attachments made with bpf_prog_attach / bpf_prog_detach2 and netlink.   *)

(* The kernel part of DetachCgroupLegacy: open the cgroup directory, then  *)
(* bpf_prog_detach2, which fails with ENOENT when p is not attached at h.  *)
DetachLegacy(p, h) ==
    /\ CanOpen
    /\ <<p, h>> \in kattach
    /\ kattach' = kattach \ {<<p, h>>}

(* AttachCgroup first; if it fails (an old kernel without cgroup links, a  *)
(* failed open) the legacy bpf_prog_attach, which yields a fake BPFLink    *)
(* with a nil link that is not appended to module.links.                   *)
AttachCgroupLegacy(g, p, h) ==
    \/ AttachCgroup(g)
    \/ /\ CanCall(g)
       /\ CanOpen
       /\ \E l \in FreshLinks :
            /\ kind' = [kind EXCEPT ![l] = "CgroupLegacy"]
            /\ legacy' = [legacy EXCEPT ![l] = <<p, h>>]
       /\ kattach' = kattach \cup {<<p, h>>}
       /\ UNCHANGED <<pc, snapshot, pendingLink, links, ptr, klinks, kxdp,
                      fds, closed, userDestroyed>>

DetachCgroupLegacy(g, p, h) ==
    /\ CanCall(g)
    /\ DetachLegacy(p, h)
    /\ UNCHANGED <<pc, snapshot, pendingLink, links, kind, ptr, legacy,
                   klinks, kxdp, fds, closed, userDestroyed>>

(* bpf_xdp_attach with no expected old program replaces the one attached. *)
AttachXDPLegacy(g, p, i) ==
    /\ CanCall(g)
    /\ kxdp' = [kxdp EXCEPT ![i] = p]
    /\ UNCHANGED <<pc, snapshot, pendingLink, links, kind, ptr, legacy,
                   klinks, kattach, fds, closed, userDestroyed>>

(* The opts carry old_prog_fd = p.FileDescriptor(), so libbpf adds         *)
(* XDP_FLAGS_REPLACE and the kernel detaches only if p is the one attached.*)
DetachXDPLegacy(g, p, i) ==
    /\ CanCall(g)
    /\ kxdp[i] = p
    /\ kxdp' = [kxdp EXCEPT ![i] = NoProg]
    /\ UNCHANGED <<pc, snapshot, pendingLink, links, kind, ptr, legacy,
                   klinks, kattach, fds, closed, userDestroyed>>

AttachGenericFD(g, p, h) ==
    /\ CanCall(g)
    /\ kattach' = kattach \cup {<<p, h>>}
    /\ UNCHANGED <<pc, snapshot, pendingLink, links, kind, ptr, legacy,
                   klinks, kxdp, fds, closed, userDestroyed>>

DetachGenericFD(g, p, h) ==
    /\ CanCall(g)
    /\ <<p, h>> \in kattach
    /\ kattach' = kattach \ {<<p, h>>}
    /\ UNCHANGED <<pc, snapshot, pendingLink, links, kind, ptr, legacy,
                   klinks, kxdp, fds, closed, userDestroyed>>

-----------------------------------------------------------------------------
(* Teardown: BPFLink.Destroy and Module.Close.                             *)

(* A fake link is detached with DetachCgroupLegacy from its legacy info;   *)
(* a real one with bpf_link__destroy, after which l.link is nil.  Destroy  *)
(* of a real link whose pointer is already nil returns nil and changes     *)
(* nothing.                                                                *)
Destroy(g, l) ==
    /\ CanCall(g)
    /\ l \in Created
    /\ \/ /\ legacy[l] # NoLegacy
          /\ DetachLegacy(legacy[l][1], legacy[l][2])
          /\ UNCHANGED <<ptr, klinks>>
       \/ /\ legacy[l] = NoLegacy
          /\ ptr[l]
          /\ klinks' = klinks \ {l}
          /\ ptr' = [ptr EXCEPT ![l] = FALSE]
          /\ UNCHANGED kattach
    /\ userDestroyed' = userDestroyed \cup {l}
    /\ UNCHANGED <<pc, snapshot, pendingLink, links, kind, legacy, kxdp, fds,
                   closed>>

(* Close destroys every link of module.links whose pointer is non-nil and  *)
(* closes the bpf_object.                                                  *)
Close(g) ==
    /\ CanCall(g)
    /\ LET torn == {l \in ElemsOf(links) : ptr[l]}
       IN  /\ klinks' = klinks \ torn
           /\ ptr' = [l \in LinkIds |-> ptr[l] /\ l \notin torn]
    /\ closed' = TRUE
    /\ UNCHANGED <<pc, snapshot, pendingLink, links, kind, legacy, kattach,
                   kxdp, fds, userDestroyed>>

-----------------------------------------------------------------------------
Init ==
    /\ pc = [g \in Goroutines |-> "idle"]
    /\ snapshot = [g \in Goroutines |-> <<>>]
    /\ pendingLink = [g \in Goroutines |-> NoLink]
    /\ links = <<>>
    /\ kind = [l \in LinkIds |-> NoType]
    /\ ptr = [l \in LinkIds |-> FALSE]
    /\ legacy = [l \in LinkIds |-> NoLegacy]
    /\ klinks = {}
    /\ kattach = {}
    /\ kxdp = [i \in Ifaces |-> NoProg]
    /\ fds = 0
    /\ closed = FALSE
    /\ userDestroyed = {}

(* One step of goroutine g: a call of the binding, or the write half of  *)
(* an append it has started.                                              *)
Step(g) ==
    \/ AttachGeneric(g)
    \/ AttachCgroup(g)
    \/ AttachXDP(g)
    \/ AttachTracepoint(g)
    \/ AttachRawTracepoint(g)
    \/ AttachLSM(g)
    \/ AttachPerfEvent(g)
    \/ \E isRet \in BOOLEAN : attachKprobeCommon(g, isRet)
    \/ AttachNetns(g)
    \/ AttachIter(g)
    \/ \E isRet \in BOOLEAN : doAttachUprobe(g, isRet)
    \/ \E isRet \in BOOLEAN : doAttachUprobeMulti(g, isRet)
    \/ AttachUSDT(g)
    \/ AppendLink(g)
    \/ \E p \in Progs, h \in Hooks :
           \/ AttachCgroupLegacy(g, p, h)
           \/ DetachCgroupLegacy(g, p, h)
           \/ AttachGenericFD(g, p, h)
           \/ DetachGenericFD(g, p, h)
    \/ \E p \in Progs, i \in Ifaces :
           \/ AttachXDPLegacy(g, p, i)
           \/ DetachXDPLegacy(g, p, i)
    \/ \E l \in LinkIds : Destroy(g, l)
    \/ Close(g)

Next == \E g \in Goroutines : Step(g)

Spec == Init /\ [][Next]_vars

-----------------------------------------------------------------------------
(* Properties.                                                             *)

AllIdle == \A g \in Goroutines : pc[g] = "idle"

(* The kernel attachment a BPFLink stands for is still in place.           *)
Attached(l) ==
    IF legacy[l] # NoLegacy THEN legacy[l] \in kattach ELSE l \in klinks

(* Every variable holds a value of its type; in particular module.links    *)
(* holds only BPFLinks that wrap a link.                                   *)
TypeOK ==
    /\ pc \in [Goroutines -> {"idle", "append"}]
    /\ snapshot \in [Goroutines -> Seq(LinkIds)]
    /\ pendingLink \in [Goroutines -> LinkIds \cup {NoLink}]
    /\ links \in Seq(LinkIds)
    /\ kind \in [LinkIds -> LinkTypes \cup {NoType}]
    /\ ptr \in [LinkIds -> BOOLEAN]
    /\ legacy \in [LinkIds -> LegacyInfo \cup {NoLegacy}]
    /\ klinks \subseteq LinkIds
    /\ kattach \subseteq LegacyInfo
    /\ kxdp \in [Ifaces -> Progs \cup {NoProg}]
    /\ fds \in 0 .. FdLimit
    /\ closed \in BOOLEAN
    /\ userDestroyed \subseteq LinkIds

(* Once Module.Close has run and no call is in flight, no link returned by *)
(* an attach method that records its link in module.links (cgroup, XDP,   *)
(* tracepoints, LSM, perf event, kprobes, netns, iter) is still alive.     *)
TrackedLinksTornDown ==
    closed /\ AllIdle =>
        \A l \in Created : kind[l] \in TrackedTypes => l \notin klinks

(* Once Module.Close has run and no call is in flight, every BPFLink the   *)
(* binding returned and the caller did not destroy is detached: the spec   *)
(* has the binding track the links it creates so they can be torn down.    *)
ReturnedLinksTornDownByClose ==
    closed /\ AllIdle =>
        \A l \in Created \ userDestroyed : ~Attached(l)

(* Destroying one BPFLink never detaches another one, as for real links;   *)
(* the comment of DetachCgroupLegacy says callers need not tell legacy     *)
(* fake links from real ones.                                              *)
LinksIndependent ==
    [][\A l1, l2 \in Created :
          /\ l1 # l2
          /\ l1 \in userDestroyed' \ userDestroyed
          /\ Attached(l2)
          => Attached(l2)']_vars

(* The binding holds no descriptor open once its calls have returned.      *)
NoFdLeak == AllIdle => fds = 0

-----------------------------------------------------------------------------
(* The BPFLinks whose link pointer is non-nil.                             *)
Held == {l \in LinkIds : ptr[l]}

Lifecycle == INSTANCE LinkLifecycle
                 WITH Ids <- LinkIds, created <- Created, held <- Held,
                      live <- klinks

(* The binding implements the lifecycle of LinkLifecycle: every attach,    *)
(* Destroy and Module.Close step, in any interleaving of goroutines, is a  *)
(* creation of a fresh BPFLink, a release of links that BPFLinks held      *)
(* (the pointer cleared in the step that frees the kernel link), or        *)
(* leaves the links alone.                                                 *)
ImplementsLifecycle == Lifecycle!Spec

=============================================================================
