------------------------------- MODULE ProgPin -------------------------------
(***************************************************************************)
(* BPFProg.Pin, Unpin and PinPath (src/prog.go).  The binding keeps the    *)
(* path a program was last pinned at in BPFProg.pinnedPath, since libbpf   *)
(* has no getter for it.  Pin makes its argument absolute with             *)
(* filepath.Abs before bpf_program__pin; Unpin passes its argument as it   *)
(* is to bpf_program__unpin, which unlinks it relative to the working      *)
(* directory of the moment.                                                *)
(*                                                                         *)
(* The bpf filesystem is a function from locations (directory, name) to    *)
(* the program pinned there.  A path argument is a location or a name      *)
(* relative to the working directory, which the program may change at any *)
(* time (os.Chdir).  A failing call (path not on bpffs, program not        *)
(* loaded) returns an error and changes nothing: a stuttering step.        *)
(***************************************************************************)
EXTENDS Naturals

CONSTANTS
    Progs,   \* BPFProg handles
    Dirs,    \* directories of the bpf filesystem
    Names,   \* file names
    NoProg,  \* nothing pinned at a location
    NoPath   \* pinnedPath = ""

Locations == Dirs \X Names

ASSUME NoProgAssumption == NoProg \notin Progs
ASSUME NoPathAssumption == NoPath \notin Locations \cup Names
ASSUME DirsAssumption == Dirs # {}
ASSUME NamesAssumption == Names \cap Locations = {}

VARIABLES
    cwd,         \* the process working directory
    pins,        \* pins[loc]: the program pinned at loc, or NoProg
    pinnedPath   \* pinnedPath[p]: BPFProg.pinnedPath

vars == <<cwd, pins, pinnedPath>>

(* A path argument: absolute, or a name relative to the working directory. *)
PathArgs == Locations \cup Names

(* filepath.Abs, and the kernel's lookup of a relative path: a relative    *)
(* name is joined to the working directory.                                *)
Resolve(path, dir) == IF path \in Names THEN <<dir, path>> ELSE path

(* Mutant: Pin records its argument instead of the absolute path.          *)
PinRelative(p, path) ==
    LET loc == Resolve(path, cwd)
    IN  /\ pins[loc] = NoProg
        /\ pins' = [pins EXCEPT ![loc] = p]
        /\ pinnedPath' = [pinnedPath EXCEPT ![p] = path]
        /\ UNCHANGED cwd

(* bpf_obj_pin fails with EEXIST when the location is taken.               *)
Pin(p, path) ==
    LET absPath == Resolve(path, cwd)
    IN  /\ pins[absPath] = NoProg
        /\ pins' = [pins EXCEPT ![absPath] = p]
        /\ pinnedPath' = [pinnedPath EXCEPT ![p] = absPath]
        /\ UNCHANGED cwd

(* Mutant: Unpin leaves pinnedPath as it was.                             *)
UnpinNoReset(p, path) ==
    LET loc == Resolve(path, cwd)
    IN  /\ pins[loc] # NoProg
        /\ pins' = [pins EXCEPT ![loc] = NoProg]
        /\ UNCHANGED <<cwd, pinnedPath>>

(* unlink succeeds on any pinned file, whichever program it pins, and the  *)
(* binding then clears pinnedPath whatever path it held.                   *)
Unpin(p, path) ==
    LET loc == Resolve(path, cwd)
    IN  /\ pins[loc] # NoProg
        /\ pins' = [pins EXCEPT ![loc] = NoProg]
        /\ pinnedPath' = [pinnedPath EXCEPT ![p] = NoPath]
        /\ UNCHANGED cwd

(* The program changes its working directory.                              *)
Chdir(d) ==
    /\ cwd' = d
    /\ UNCHANGED <<pins, pinnedPath>>

Init ==
    /\ cwd \in Dirs
    /\ pins = [loc \in Locations |-> NoProg]
    /\ pinnedPath = [p \in Progs |-> NoPath]

Next ==
    \/ \E p \in Progs, path \in PathArgs : Pin(p, path) \/ Unpin(p, path)
    \/ \E d \in Dirs : Chdir(d)

Spec == Init /\ [][Next]_vars

-----------------------------------------------------------------------------
(* Every variable holds a value of its type.                               *)
TypeOK ==
    /\ cwd \in Dirs
    /\ pins \in [Locations -> Progs \cup {NoProg}]
    /\ pinnedPath \in [Progs -> Locations \cup {NoPath}]

(* PinPath() names, from whatever directory the program is in now, a file *)
(* that pins the program: Pin stored an absolute path, so a later Chdir    *)
(* does not move what it refers to.                                        *)
PinPathSound ==
    \A p \in Progs :
        pinnedPath[p] # NoPath => pins[Resolve(pinnedPath[p], cwd)] = p
=============================================================================
