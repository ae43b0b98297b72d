# TLA+ models of libbpfgo's BPFProg (src/prog.go)

This directory holds a TLA+ verification development for the `BPFProg` side of
libbpfgo, the Go binding of libbpf. It contains:

- the TLA+ modules;
- the TLC configurations that check the modules on small instances;
- the TLAPS proofs;
- `PROJECT.json`, which maps every definition to the Go lines it models and
  lists the runs, mutants, findings, hazards and theorems.

## The system

`src/prog.go` is the only program source given. It defines the methods of
`BPFProg`, a handle on one BPF program of a `Module`.

| Part | Code | What it does |
|---|---|---|
| Attach methods | `AttachGeneric`, `AttachCgroup`, `AttachXDP`, `AttachTracepoint`, `AttachRawTracepoint`, `AttachLSM`, `AttachPerfEvent`, `attachKprobeCommon` and its four wrappers, `AttachNetns`, `AttachIter`, `doAttachUprobe`/`doAttachUprobeMulti` and their four wrappers, `AttachUSDT` | Each calls one libbpf attach function. On success it wraps the `struct bpf_link` in a `BPFLink`. Some of them append the link to `p.module.links`, which is the list `Module.Close` tears down. |
| Link-less attachments | `AttachCgroupLegacy`/`DetachCgroupLegacy`, `AttachGenericFD`/`DetachGenericFD`, `AttachXDPLegacy`/`DetachXDPLegacy` | These use `bpf_prog_attach` or netlink XDP directly, with no kernel link. The legacy cgroup fallback returns a *fake* `BPFLink` with a nil `link`, and its `Destroy` calls `DetachCgroupLegacy`. |
| Pinning | `Pin`, `Unpin`, `PinPath` | `Pin` makes the path absolute with `filepath.Abs` and stores it in `pinnedPath`. `Unpin` clears `pinnedPath`. |
| Test run | `runOptsToC`, `runOptsFromC`, `Run` | These convert Go slices and counters into `bpf_test_run_opts` and back. |
| Pass-through accessors | `SetAutoload`, `SetType`, the getters, and so on | These keep no state of the binding. |

`BPFLink.Destroy` and `Module.Close` are in files that are not part of the
given sources. They are modelled from the spec and marked `spec_modelled` in
the map:

- `Close` destroys every link in `module.links` whose pointer is non-nil.
- `Destroy` detaches its own link and sets `link` to nil.

Nothing in `prog.go` takes a lock. Two goroutines that attach programs of one
module therefore race on `p.module.links = append(p.module.links, bpfLink)`.

## Modules

### `ProgAttach.tla`: the attach surface and link bookkeeping

**Constants:**

- `Goroutines`, `Progs`, `Hooks`, `Ifaces` and `LinkIds`: sets of model values.
- `FdLimit`: the descriptors that may still be opened.
- `NoLink` and `NoProg`: sentinels.

**Variables:**

| Variable | Go state or kernel state |
|---|---|
| `links` | `Module.links`, a sequence of link ids |
| `kind[l]` | `BPFLink.linkType` |
| `ptr[l]` | `BPFLink.link != nil` |
| `legacy[l]` | `BPFLink.legacy` as `<<prog, hook>>` |
| `klinks` | the live kernel `bpf_link`s |
| `kattach` | the `bpf_prog_attach` table |
| `kxdp` | the netlink XDP program of each device |
| `fds` | descriptors left open by returned calls |
| `closed` | `Close` has run |
| `userDestroyed` | links the caller has destroyed |
| `pc`, `snapshot`, `pendingLink` | the state of a goroutine that is between the read and the write of the append |

**Actions.** There is one action per method. An attach method that appends is
`AttachTracked`, the link is created and `module.links` read, followed later by
`AppendLink`, which writes back the snapshot plus the link. An attach method
that does not append is `AttachUntracked`.

**Failure paths.** A native call that fails changes nothing, so it is a
stutter. The two exceptions are the two places where the code has already
changed state when it fails:

- `AttachNetns` counts its leaked descriptor on both paths.
- `AttachCgroupLegacy` falls back to the legacy attach.

**Data abstraction.** Paths, names, event names and the libbpf option
structures are abstracted away. The properties only tell apart which link,
which program, which hook and which device.

`MCProgAttach.tla` instantiates the module for TLC with two goroutines, two
programs, one hook, one device, 2 or 3 link ids and `FdLimit = 2`. It uses
symmetry over links, goroutines and programs, all of which are
interchangeable model values.

### `ProgPin.tla`: `Pin`/`Unpin` and the cached `pinnedPath`

The bpf filesystem is `pins`, a function from locations `(dir, name)` to the
program pinned there.

- A path argument is either an absolute location or a name relative to `cwd`.
- `Resolve` is `filepath.Abs`.
- `Chdir` is the program changing its working directory, which is an
  environment step, not a line of `prog.go`.

`MCProgPin.tla` gives 1 or 2 programs, 2 directories and 2 or 3 names.

### `UprobeMulti.tla`: the offsets and cookies arrays of `doAttachUprobeMulti`

- `offsets` and `cookies` are the caller's slices, as sequences over small
  sets of model values.
- `doAttachUprobeMulti` passes `&offsets[0]` and `&cookies[0]` (NULL when a
  slice is empty) with the single count `len(offsets)`.
- `CookieRead(i)` is what libbpf reads as cookie `i`:
  - 0 when no cookies were passed;
  - `cookies[i]` when it exists;
  - otherwise any value, `Garbage` included, because the read is past the
    slice (undefined behaviour as a nondeterministic choice).

`MCUprobeMulti.tla` gives slices of up to two entries.

### `ProgRun.tla`: `runOptsToC`, the test run, `runOptsFromC`, `Run`

**Slices.** A Go slice is the record `[isNil, len, cap]`. The byte contents
are abstracted away, because no property reads them.

- `&s[0]` on a non-nil slice with `len = 0` panics (`ToCPanics`).
- `C.GoBytes(p, n)` is `GoBytes(n)`, a fresh slice with `len = cap = n`.

**Conversions.**

- `ToC` is `runOptsToC`. A pointer is present exactly when the slice is
  non-nil. A size is 0 for a nil slice and the caller's field otherwise.
- `ToCInt` is the `C.int` conversion of `Repeat`, a signed wrap modulo the
  constant `CIntSpan`.
- `FromC` is `runOptsFromC`: every non-nil slice becomes `GoBytes` of its size
  field as libbpf returns it, and `Repeat` is the converted value.

**The kernel** (`BPF_PROG_TEST_RUN`, outside `prog.go`) is an environment
choice of the program's output size `out` and context size `ctx` in
`0..MaxSize`:

- the data copy is clamped to `data_size_out` unless that is 0, and a clamp
  makes the call fail with ENOSPC;
- the context copy is clamped to `ctx_size_out`;
- the sizes reported are the full sizes;
- the call may also fail before touching any buffer (`RunFails`).

`oob` records whether any access, by the kernel or by `GoBytes`, went past the
capacity of a Go buffer. `copied` records how many bytes the kernel wrote to
`DataOut`.

**Actions.** `Run` is the whole method in one of three outcomes:

- `RunPanics`: `runOptsToC` panics;
- `RunFails`: the syscall fails early;
- `RunCompletes`: the kernel copies. ENOSPC returns an error, and success
  applies `FromC`.

`runs` caps the number of calls at `MaxRuns`.

`MCProgRun.tla` sets `MaxSize = 2`, so a slice has length and capacity of at
most two. It gives `C.int` a span of `2^16`, because TLC's integers are
32-bit, and allows one or two Runs. It defines the input sets:

| Input set | What it holds |
|---|---|
| `EnumInputs` | every RunOpts over those slices (context sizes up to 1) |
| `SizedInputs` | the `Sized` ones |
| `LargeRepeatInputs` | `Repeat` of 1 or of the span |
| `DocExampleInputs` | the RunOpts of the doc comment's example, with buffers of `MaxSize` bytes |

### `LinkLifecycle.tla`: the abstract life cycle of a `bpf_link`

`LinkLifecycle.tla` is what the binding promises about links:

- `created`: the ids ever handed out;
- `held`: the ids whose handle still owns a kernel link;
- `live`: the live kernel links.

It has three actions:

- `Create`: a fresh link that is held and live;
- `CreateFake`: a link with no kernel side (the legacy cgroup fallback);
- `Release(S)`: held links released together, by a Destroy or by Close.

`ProgAttach` implements it under the refinement mapping:

- `Created`: ids in use;
- `Held`: the ids with `ptr[l]`;
- `live`: `klinks`.

The property `ImplementsLifecycle == Lifecycle!Spec` is checked by TLC in
`ProgAttach_single` with one goroutine and proved by TLAPS for any number of
goroutines.

### `ProgAttach_proofs.tla`, `ProgPin_proofs.tla`, `ProgRun_proofs.tla`, `UprobeMulti_proofs.tla`: TLAPS proofs

See [What is proved](#what-is-proved).

## Runs

| Run (cfg) | Expect | Checks | What it shows |
|---|---|---|---|
| `ProgAttach_single` | pass | `TypeOK`, `TrackedLinksTornDown`, `ImplementsLifecycle` | With one goroutine, across every order of every call, Close leaves no tracked link alive, and every step is a step of the abstract link life cycle (about 720,000 distinct states). |
| `ProgAttach_append_race` | violation | `TrackedLinksTornDown` | g1 attaches and reads `links`, g2 closes the module, then g1 writes its append. The link is alive after Close. |
| `ProgAttach_close_untracked` | violation | `ReturnedLinksTornDownByClose` | `AttachGeneric` (and the uprobe, USDT and legacy cgroup attaches) do not append. Close leaves those links attached. |
| `ProgAttach_legacy_shared` | violation | `LinksIndependent` | Two legacy fake links for one program and hook share one kernel attachment. Destroying one detaches the other. |
| `ProgAttach_netns_fd` | violation | `NoFdLeak` | `AttachNetns` never closes the namespace descriptor it opens (`prog.go:538`). |
| `ProgPin_single` | pass | `TypeOK`, `PinPathSound` | For one program, `PinPath` always names a file pinning it, across Chdir, relative and absolute paths. |
| `ProgPin_cross_unpin` | violation | `PinPathSound` | Another handle's `Unpin` removes the file, but the first program's `PinPath` still names it. |
| `ProgRun_single` | pass | `TypeOK`, `OutputMatchesKernel`, `SizedRunIsSafe` | Over every RunOpts of the bound and two successive Runs, two things hold. A Run whose non-nil slices are non-empty and whose size fields fit them (`Sized`) never panics or goes out of bounds. After a successful Run, `len(DataOut)` is what the kernel copied. |
| `ProgRun_rerun` | violation | `MemorySafe` | A `Sized` RunOpts passed to `Run` twice. After the first call, `DataOut` is `GoBytes` of the output size, shorter than `DataSizeOut`, so the second call lets the kernel write past it (or panics on an empty slice). |
| `ProgRun_doc_example` | violation | `MemorySafe` | The usage example in the comment above `Run` builds `DataIn` and `DataOut` with `make([]byte, 0, 14)`. These are non-nil and empty, so `&DataIn[0]` in `runOptsToC` panics on the first Run. |
| `ProgRun_repeat` | violation | `RepeatPreserved` | A `Repeat` outside the `C.int` range is wrapped and written back, so a successful Run changes it. |
| `UprobeMulti_cookies` | violation | `CookiesFromCaller` | Two offsets and one cookie: libbpf reads the second cookie past the end of the Go slice. |

The violation runs are the findings listed in `PROJECT.json`. Every property of
a passing run has a mutant in `PROJECT.json`, a plausible bug of the mapped
code that TLC catches:

- `AttachNetns` without its nil check;
- `AttachTracepoint` without the append;
- `Pin` storing the relative path;
- `Unpin` not clearing `pinnedPath`;
- a native attach not setting the link pointer (breaks the refinement);
- `runOptsToC` passing `DataSizeOut` as `data_size_in`;
- `runOptsFromC` sizing `DataOut` by the requested rather than the reported
  size, or reslicing the old buffer past its capacity.

The `ProgAttach` runs set `CHECK_DEADLOCK FALSE`. After `Module.Close` the
module's programs are freed and no call may start, so a closed module really
does stop. `ProgPin` is checked for deadlock: `Chdir` is always enabled. The `ProgRun`
runs stop after `MaxRuns` calls or a panic, and `UprobeMulti` models one call,
so they set `CHECK_DEADLOCK FALSE` too.

### Bounds

**`ProgAttach`:**

- Three link ids are enough for one goroutine to create a tracked link, an
  untracked link and a legacy link, or two legacy links that share a hook,
  before closing.
- Two goroutines with two links are enough for the append race: one
  goroutine's read/write pair of `module.links` interleaved with another's
  attach or Close. The refinement is checked with one goroutine, because
  TLAPS proves it for any number.
- `FdLimit = 2` lets the leak reach the limit, where the later opens fail.

**`ProgPin`:** two directories and a relative name are what make a `Chdir`
between `Pin` and `PinPath` matter.

**`ProgRun`:**

- Capacities up to 2 give, for every buffer, the nil, the empty, the full and
  the partly used slice.
- Output sizes 0 to 2 give an output that is shorter than, equal to and longer
  than `DataSizeOut`.
- Two Runs are what the rerun hazard needs.
- The doc example's 14-byte buffers become buffers of `MaxSize` bytes. The
  panic depends only on their length being 0.
- A 16-bit `C.int` keeps the wrap of the code's 32-bit one. The wrap is the
  same at any width, and TLC's integers are 32-bit.

**`UprobeMulti`:** two entries are the least for a cookies slice shorter than
a non-empty offsets slice.

### Fairness

None: every property checked is a safety property, including the refinement,
whose abstract specification has no fairness. The binding promises no
progress: each call runs to completion in the calling goroutine, and no
handler waits on another. A liveness property would only restate that a
called method returns.

## What is proved

The proofs are in four modules. They hold for every value of the constants
and use only the named assumptions of the modules that declare them.

### `ProgAttach_proofs.tla`

These proofs assume `NoLink \notin LinkIds`, `NoProg \notin Progs` and
`FdLimit \in Nat`.

**`TypeCorrect`** proves `Spec => []TypeOK`. `TypeOK` alone is not inductive:
`AppendLink` needs to know that a goroutine in the middle of an append holds a
real link. The proof therefore uses `TypeInv == TypeOK /\ PendingInv`. It is
organised as follows:

- one lemma per kind of step, for tracked attach, untracked attach, append,
  netns, legacy cgroup, the kernel tables, Destroy and Close;
- `NextTypeInv`, which splits `Next` along the disjuncts of `Step`;
- `InitTypeInv`.

The invariant `LinkPointersMatchKernel` says that the live kernel links are
exactly the links whose pointer is non-nil. The proofs below rest on it, and it
holds because three things move together:

- a native attach sets the pointer and creates the link in one step;
- `Destroy` clears the pointer in the step that frees the link;
- `Close` clears the pointers of exactly the links it frees.

This invariant, conjoined with `TypeInv`, is shown inductive step by step.

**`TrackedTornDownSingle`** proves `Spec => []TrackedLinksTornDown` under the
hypothesis `Goroutines = {g0}`: one goroutine uses the module, as in
`ProgAttach_single`. The strengthening `TrackedInv` says three things:

- every live link of a tracked type is in `module.links`, or is the link a
  goroutine has created and is about to append;
- a goroutine about to append holds the current `links` as its snapshot, and
  the module is not closed;
- once closed, every goroutine is idle and no tracked link is live.

The second conjunct is where the hypothesis is needed. With two goroutines,
one's append can replace `links` while the other holds an older snapshot, and
the other's append then drops a link. That is the lost update that
`ProgAttach_append_race` finds, so the property is false there and the
theorem does not claim it.

**`DestroyIndependentUpToSharing`** proves the action property
`DestroyDisturbsOnlySharedFakes`. When `Destroy` of one link detaches another,
both are legacy fake links with the same (program, hook) pair. This is the
whole extent of the `LinksIndependent` violation of `ProgAttach_legacy_shared`,
stated for every instance. The proof uses `TypeCorrect` and the lemma that
only `Destroy` adds to `userDestroyed`.

**`Refinement`** proves `Spec => ImplementsLifecycle`. The initial state maps
to the empty abstract state. Every step maps to an abstract step or a
stutter, through one lemma per kind of step:

- a native attach is `Create`, because the link is fresh and becomes live and
  held at once;
- the legacy fallback is `CreateFake`;
- `Destroy` releases one held link;
- `Close` releases the torn links that are held.

The lemmas rest on the invariant `LinkPointersMatchKernel` above.

### `ProgPin_proofs.tla`

These proofs assume that `Names` and `Locations` are disjoint.

- **`TypeCorrect`** proves `Spec => []TypeOK` with the lemma `ResolveAbsolute`:
  `filepath.Abs` always yields a location.
- **`PinPathSoundSingle`** proves `Spec => []PinPathSound` when there is one
  program. `PinPathSound` is inductive together with `TypeOK`. With two
  programs it is false, as `ProgPin_cross_unpin` shows.

### `ProgRun_proofs.tla`

These proofs assume `MaxSize \in Nat`, `CIntSpan \in Nat \ {0}`,
`MaxRuns \in Nat` and `Inputs \subseteq RunOptsType`.

- **`TypeCorrect`** proves `Spec => []TypeOK`. It uses lemmas on `GoBytes`,
  `ToCInt`, `ToC`, `FromC` and the copy sizes.
- **`SizedRunSafe`** proves `Spec => SizedRunIsSafe`. The lemmas
  `SizedNoPanic` and `SizedAccessesWithin` show that `Sized` opts pass every
  `&s[0]`, and that each kernel or `GoBytes` access stays within the
  capacities, for every choice of the kernel.
- **`OutputMatches`** proves `Spec => []OutputMatchesKernel`. `TypeOK` is
  enough as the strengthening, because every successful step sets `DataOut`
  and `copied` together.
- **`RepeatKeptIffInCInt`** proves that a `Run` returning nil gives back the
  caller's `Repeat` exactly when it lies in
  `CIntRange == (CIntSpan \div 2 - CIntSpan) .. (CIntSpan \div 2 - 1)`. The lemmas `ToCIntRange` and
  `ToCIntIdentity` give the range of the wrap-around conversion
  `C.int(opts.Repeat)`, and the values it fixes. This is the general form of
  the counterexample of `ProgRun_repeat`.

### `UprobeMulti_proofs.tla`

**`CookiesSafeWhenCovered`** proves that
`Spec => [](CookiesCoverOffsets => CookiesFromCaller)`. If the caller passes
no cookies, or at least one per offset, every attached uprobe carries the
caller's cookie for its index, or 0. The strengthening `ProbesInv` says that
after an attach there is one probe per offset, and that each holds a value
libbpf may read for its index (`CookieRead`).

`CookiesFromCaller` itself is false for a non-empty `cookies` shorter than
`offsets`, which is the case `UprobeMulti_cookies` finds. The theorem
therefore states exactly the precondition under which the code is safe.

The model declares no assumption on `MaxLen`. The invariant therefore avoids
facts that need `MaxLen \in Nat`, and uses only the caller's slices and
`ProbesInv`.

**Limits of the prover.** The following are checked by TLC only:

- `PinPathSound` with several programs, which is false;
- `TrackedLinksTornDown` with several goroutines, which is false;
- the violation properties as they stand. For four of them a theorem above
  gives the exact condition under which they hold: `TrackedLinksTornDown`,
  `LinksIndependent`, `RepeatPreserved` and `CookiesFromCaller`.
  For `MemorySafe`, `SizedRunSafe` proves that every step from `Sized` opts
  is safe. The rerun fails because the opts a `Run` returns are no longer
  `Sized`, and the doc example fails because its slices are empty, which
  `Sized` rules out.
  `ReturnedLinksTornDownByClose` and `NoFdLeak` have no such theorem: no
  instance makes them true except one where the methods are never called;
- liveness, of which there is none here.

TLAPS cannot do liveness, `ENABLED`, or induction over recursive definitions.
None of the modules declares a RECURSIVE operator.

## Not modelled

| Part | Why |
|---|---|
| The bytes in `DataIn`, `DataOut`, `CtxIn` and `CtxOut`, and `RetVal`, `Duration`, `Flags`, `CPU` and `BatchSize` | No property tells the contents apart. The scalar fields are copied through unchanged, except `Repeat`, which is modelled. |
| A nil `*RunOpts` passed to `Run` | It is not enumerated. `runOptsToC` returns nil and `Run` passes NULL to libbpf, which rejects it. |
| The kernel's own checks of the context size | The context copy is modelled only by its clamp. |
| Setters and getters | They pass straight through to libbpf. |
| A program pinned at several paths | `pinnedPath` keeps only the last path, so after unpinning one of two pins `PinPath` is "" while a pin remains. It is the same stale cache that `ProgPin_cross_unpin` shows, so it has no run of its own. |
| The usage example in the comment above `Run` | Its `make([]byte, 0, 14)` buffers are empty non-nil slices, which `runOptsToC` dereferences with `&s[0]` and so panics. That panic is the case that `Sized` excludes, and `ProgRun_single`'s mutants show that `SizedRunIsSafe` depends on excluding it. There is no separate run for the example. |
| Use of a `BPFProg` after `Close` | The model forbids new calls once the module is closed, rather than modelling the use-after-free. |
| The CI workflow and the Vagrant builder | They are configuration, not program code. |
