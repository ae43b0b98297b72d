---------------------------- MODULE LinkLifecycle ----------------------------
(***************************************************************************)
(* What the binding promises about the lifetime of a bpf_link, whatever    *)
(* calls make it and free it: a BPFLink gets a fresh identity when it is   *)
(* created; a real one holds its pointer exactly while the kernel link is  *)
(* alive, so a link is only ever freed through a BPFLink that holds it,    *)
(* and the pointer goes in the same step; a fake (legacy) one never holds  *)
(* a kernel link.                                                          *)
(***************************************************************************)
CONSTANT Ids   \* identities of BPFLink objects

VARIABLES
    created,  \* BPFLinks that have been created
    held,     \* BPFLinks whose link pointer is non-nil
    live      \* kernel bpf_links still alive

Init == created = {} /\ held = {} /\ live = {}

(* An attach returns a new BPFLink that holds a new kernel link.           *)
Create(l) ==
    /\ l \in Ids \ created
    /\ created' = created \cup {l}
    /\ held' = held \cup {l}
    /\ live' = live \cup {l}

(* An attach returns a new BPFLink with no kernel link behind it.          *)
CreateFake(l) ==
    /\ l \in Ids \ created
    /\ created' = created \cup {l}
    /\ UNCHANGED <<held, live>>

(* Some held links are freed, and their BPFLinks let go of them.           *)
Release(S) ==
    /\ S \subseteq held
    /\ held' = held \ S
    /\ live' = live \ S
    /\ UNCHANGED created

Next ==
    \/ \E l \in Ids : Create(l) \/ CreateFake(l)
    \/ \E S \in SUBSET held : Release(S)

Spec == Init /\ [][Next]_<<created, held, live>>
=============================================================================
