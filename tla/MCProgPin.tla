----------------------------- MODULE MCProgPin -----------------------------
(* Small instances of ProgPin for TLC.                                     *)
EXTENDS ProgPin, TLC

CONSTANTS p1, p2, d1, d2, n1, n2, n3

MCProgs1 == {p1}
MCProgs2 == {p1, p2}
MCDirs == {d1, d2}
MCNames == {n1, n2}
MCNames3 == {n1, n2, n3}

Symmetry == Permutations(Progs)
=============================================================================
