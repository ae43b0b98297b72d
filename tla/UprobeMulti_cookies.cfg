\* Offsets and cookies slices of up to two entries, of every length.
CONSTANTS
    o1 = o1
    o2 = o2
    c1 = c1
    c2 = c2
    garbage = garbage
    Offsets <- MCOffsets
    Cookies <- MCCookies
    MaxLen <- MCMaxLen
    Garbage <- garbage
SPECIFICATION Spec
\* The call returns once; nothing follows it.
CHECK_DEADLOCK FALSE
INVARIANT CookiesFromCaller
