---------------------------- MODULE ProgPin_proofs ----------------------------
(***************************************************************************)
(* Proofs about ProgPin for every set of programs, directories and names.  *)
(***************************************************************************)
EXTENDS ProgPin, TLAPS

(* A path argument names a location once resolved against a directory.    *)
LEMMA ResolveType ==
    ASSUME NEW path \in PathArgs, NEW d \in Dirs
    PROVE  Resolve(path, d) \in Locations
BY NamesAssumption DEF Resolve, PathArgs, Locations

(* An absolute location resolves to itself from every directory.           *)
LEMMA ResolveAbsolute ==
    ASSUME NEW loc \in Locations, NEW d
    PROVE  Resolve(loc, d) = loc
BY NamesAssumption DEF Resolve

LEMMA NextTypeOK == TypeOK /\ [Next]_vars => TypeOK'
<1> SUFFICES ASSUME TypeOK, [Next]_vars PROVE TypeOK'
  OBVIOUS
<1>1. ASSUME NEW p \in Progs, NEW path \in PathArgs, Pin(p, path)
      PROVE  TypeOK'
  <2>1. Resolve(path, cwd) \in Locations
    BY ResolveType DEF TypeOK
  <2>2. QED
    BY <1>1, <2>1 DEF Pin, TypeOK
<1>2. ASSUME NEW p \in Progs, NEW path \in PathArgs, Unpin(p, path)
      PROVE  TypeOK'
  <2>1. Resolve(path, cwd) \in Locations
    BY ResolveType DEF TypeOK
  <2>2. QED
    BY <1>2, <2>1 DEF Unpin, TypeOK
<1>3. QED
  BY <1>1, <1>2 DEF Next, Chdir, TypeOK, vars

(* Every reachable state of Pin and Unpin is type-correct: pinnedPath only *)
(* ever holds an absolute location or "", whatever the caller passed.     *)
THEOREM TypeCorrect == Spec => []TypeOK
<1>1. Init => TypeOK
  BY DEF Init, TypeOK
<1>2. QED
  BY <1>1, NextTypeOK, PTL DEF Spec

-----------------------------------------------------------------------------
LEMMA NextPinPathSound ==
    ASSUME NEW p0, Progs = {p0},
           TypeOK, PinPathSound, [Next]_vars
    PROVE  PinPathSound'
<1>1. ASSUME NEW p \in Progs, NEW path \in PathArgs, Pin(p, path)
      PROVE  PinPathSound'
  <2> DEFINE absPath == Resolve(path, cwd)
  <2>1. absPath \in Locations
    BY ResolveType DEF TypeOK
  <2>2. pinnedPath'[p0] = absPath /\ pins'[absPath] = p0 /\ cwd' = cwd
    BY <1>1, <2>1 DEF Pin, TypeOK
  <2>3. QED
    BY <2>1, <2>2, ResolveAbsolute DEF PinPathSound
<1>2. ASSUME NEW p \in Progs, NEW path \in PathArgs, Unpin(p, path)
      PROVE  PinPathSound'
  BY <1>2 DEF Unpin, PinPathSound, TypeOK
<1>3. ASSUME NEW d \in Dirs, Chdir(d)
      PROVE  PinPathSound'
  <2>1. pinnedPath[p0] # NoPath => pinnedPath[p0] \in Locations
    BY DEF TypeOK
  <2>2. QED
    BY <1>3, <2>1, ResolveAbsolute DEF Chdir, PinPathSound
<1>4. CASE UNCHANGED vars
  BY <1>4 DEF vars, PinPathSound
<1>5. QED
  BY <1>1, <1>2, <1>3, <1>4 DEF Next

(* For a program pinned and unpinned through its own handle only, PinPath  *)
(* always names a file that pins it, however often the working directory  *)
(* changes between Pin and PinPath: Pin stores the path filepath.Abs made. *)
THEOREM PinPathSoundSingle ==
    ASSUME NEW p0, Progs = {p0}
    PROVE  Spec => []PinPathSound
<1>1. Init => PinPathSound
  BY DEF Init, PinPathSound
<1>2. TypeOK /\ PinPathSound /\ [Next]_vars => PinPathSound'
  BY NextPinPathSound
<1>3. QED
  BY <1>1, <1>2, TypeCorrect, PTL DEF Spec

=============================================================================
