---------------------------- MODULE MCProgAttach ----------------------------
(* Small instances of ProgAttach for TLC.                                  *)
EXTENDS ProgAttach, TLC

CONSTANTS g1, g2, p1, p2, h1, i1, l1, l2, l3

MCGoroutines1 == {g1}
MCGoroutines2 == {g1, g2}
MCProgs == {p1, p2}
MCHooks == {h1}
MCIfaces == {i1}
MCLinkIds == {l1, l2, l3}
MCLinkIds2 == {l1, l2}
MCFdLimit == 2

Symmetry == Permutations(LinkIds) \cup Permutations(Goroutines)
            \cup Permutations(Progs)
=============================================================================
