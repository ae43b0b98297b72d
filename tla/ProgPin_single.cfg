\* One program pinning and unpinning by absolute and relative paths across Chdir.
CONSTANTS
    p1 = p1
    p2 = p2
    d1 = d1
    d2 = d2
    n1 = n1
    n2 = n2
    n3 = n3
    Progs <- MCProgs1
    Dirs <- MCDirs
    Names <- MCNames3
    NoProg = NoProg
    NoPath = NoPath
SYMMETRY Symmetry
SPECIFICATION Spec
INVARIANT TypeOK
INVARIANT PinPathSound
