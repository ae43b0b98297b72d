\* Two programs of one module pinning and unpinning.
CONSTANTS
    p1 = p1
    p2 = p2
    d1 = d1
    d2 = d2
    n1 = n1
    n2 = n2
    n3 = n3
    Progs <- MCProgs2
    Dirs <- MCDirs
    Names <- MCNames
    NoProg = NoProg
    NoPath = NoPath
SYMMETRY Symmetry
SPECIFICATION Spec
INVARIANT PinPathSound
