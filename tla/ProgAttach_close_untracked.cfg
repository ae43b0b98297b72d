\* One goroutine: what Module.Close leaves attached.
CONSTANTS
    g1 = g1
    g2 = g2
    p1 = p1
    p2 = p2
    h1 = h1
    i1 = i1
    l1 = l1
    l2 = l2
    l3 = l3
    Goroutines <- MCGoroutines1
    Progs <- MCProgs
    Hooks <- MCHooks
    Ifaces <- MCIfaces
    LinkIds <- MCLinkIds
    FdLimit <- MCFdLimit
    NoLink = NoLink
    NoProg = NoProg
SYMMETRY Symmetry
SPECIFICATION Spec
\* After Module.Close no call may start: the program has finished with the module.
CHECK_DEADLOCK FALSE
INVARIANT ReturnedLinksTornDownByClose
