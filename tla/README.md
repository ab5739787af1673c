# Formal models of linux_binder_idl

`linux_binder_idl` builds Android's binder for Linux and gives interface authors
a host tool for *stable* AIDL interfaces: sources are copied to
`stable/aidl/<module>/current`, frozen as numbered versions, turned into C++ and
built as one library per version. These TLA+ modules model the stateful parts of
that tool and of the build around it. TLC checks them on small instances; TLAPS
proves every safety property that the runs check for all instances.

`PROJECT.json` lists components, runs, mutants, the source lines behind each
definition, hazards, findings and theorems.

## The system

| part | source | state | operations |
|---|---|---|---|
| API life cycle | `host/aidl_api.py`, `aidl_interface.py`, `aidl_gen_rule.py`, `interface-update.py` | source directory, version directories with `.hash`, `interface.yaml`, generated sources | `update_api`, `freeze_api`, `generate` |
| build beside the life cycle | `aidl_gen_rule.py`, `aidl_interface.py` | what a build has read so far | `aidl_ops -g` while another process updates or freezes |
| module-local layout | `aidl_interface.py`, `aidl_api.py`, `aidl_gen_rule.py` | `current`, snapshots and versions, each with files, `.hash`, `interface.yaml`, sources | the same operations, `resolve_emit_version` |
| import resolution | `aidl_interface.py` | imports of the version in development (with pins), recorded imports of frozen versions | `get_dependencies`, `process_imports` |
| library list | `aidl_interface.py`, `host/CMakeLists.inc` | all `interface.yaml`, `dependencies.txt` | `aidl_ops -a`, CMake reading the list |
| interface libraries | `host/CMakeLists.inc` | AIDL, generated sources, targets of the run | `target_build_interfaces_libraries`, `AddInterfaceLibrary` |
| build switches | `CMakeLists.txt`, `build-linux-binder-aidl.sh` | CMake cache | configuring directly or through the script, `clean` |
| surface audit | `host/aidl_surface.py` | dumps of releases | `dump-surface`, `diff-surface` |
| example, recipe, stubs, scripts | `example/`, `binder_aidl_gen/`, `*.sh` | see *Not modelled* | |

Interactions: the life cycle records in `interface.yaml` what import resolution
found; the library list is computed from all `interface.yaml` files and sorted by
`topological_sort`; `AddInterfaceLibrary` walks that list and calls the tool's
`generate`; what a generated library promises its clients is what
`diff-surface` audits between releases.

What makes it hard: a process can die between any two of its writes and is then
run again; exit statuses of shell commands are thrown away; developers save files
while the tool reads them; builds run beside it without a lock; interfaces are
reached through imports in several versions; outputs of earlier runs
(`dependencies.txt`, generated sources, the CMake cache) are picked up by later
ones.

## Modules

### AidlApi (with ApiDirs, FrozenLog)

One stable interface in the central layout. The disk is `src` (the developers'
directory), `dirs`/`files`/`hash` (the directories under `stable/aidl/<module>`,
number 0 being `current`), `versions`/`torn` (the `versions_with_info` list, and
whether `interface.yaml` is truncated), the file `has_development`, and `gen`.
The process is `pc`, `op`, `loaded` (the number of versions it loaded) and `todo`
(files it has yet to copy).

| actions | code |
|---|---|
| `Invoke`, `LoadFails` | `aidl_ops.py` main, loading `interface.yaml` |
| `PreValidate`, `Rsync`, `RsyncEnd` | `handle_update_api` |
| `RemoveHash`, `HashGen` | `update_hash_for_current_api` |
| `Validate` | `validate_interface`, called last by update and first by the others |
| `CheckForDevelopment`, `DependenciesCheck`, `MakeVersionDir`, `CopyFile`, `CopyHash`, `CopyEnd`, `AppendVersion`, `WriteDefinition` | `handle_freeze_api` and what it calls |
| `Generate` | `handle_source_gen`, `gen_cpp_sources` |
| `Crash`, `EditSource`, `RestoreDefinition` | environment |

A tool step is one change to the disk. The AIDL compiler is not in the
repository: `--checkapi` is any preorder on file contents (`ApiDirs`), and the
digest is injective. `Faults` selects what may go wrong: `"crash"`,
`"command"` (a command whose status nobody looks at fails), `"edit"` (files are
saved while the tool runs; otherwise only between invocations).

`FrozenLog` is the abstract specification: a log of APIs to which a version is
only appended, where it extends its predecessor and is not equal to it.
`AidlApi` implements it with `log <- [v \in 1 .. versions |-> files[v]]`.

### TwoTools

A build (`aidl_ops -g`) beside the process of `AidlApi`. `AidlApi` takes a
generation that runs alone as one step after validation; here it is one step per
read: `BLoad` (`interface.yaml`), `BLookForCurrent` and `BListVersions` (which
directories exist), `BCheckIntegrity` and `BCheckCompatibility` (per dump, the
digest and the files), `BListSources`, `BReadHash`, `BCompile`. `b_loaded` is the
number of versions it loaded, which may be out of date for the rest of its run.
`b_blames` is a history variable: what the last failed check was about.

### ModuleLocal

One interface in the module-local layout: `current` (0), the versions 1, 2, ... of
`freeze_api` and the snapshots of a release script, all in one directory. Each place
has `files`, `hash`, `def` (its `interface.yaml`: a pinned `version:` or none, and
the number of frozen versions) and `gen`. `Invoke` chooses roots and then the
definition that `load_interfaces` would keep (`Winners`): current if it is among
them, else any. Validation always looks at `current`, whichever definition was
chosen. `Skip` is `update_api`, which does nothing here; freezing is `RemoveHash`,
`HashGen`, `MakeVersionDir`, `Copy` (of AIDL files, `.hash`, `interface.yaml` and
generated sources, in any order), `RemoveDefinition`, `AppendVersion`,
`WriteDefinition`. `Release` is external: the repository reads snapshots but does not
make them, so one may come with or without a digest and with any pin.

### Imports

Several interfaces; the disk is what their `interface.yaml` files say. An
operation is the sequence of `get_dependencies` calls it makes (`calls`); a call is
the recursion of `process_imports`, one frame per active call (`stack`), which
fills `api_dependecies`. `rec_counter` is the depth of the stack.

### TopologicalSort (with LibOrder)

`topological_sort`, an action per loop body: `Pop`, `Relax`, `Relaxed`, `Finish`.
`LibOrder` is what callers rely on: any library may be put out once all its
dependents are out, and the sort ends when there is none. The refinement hides the
in-degrees and the queue.

### LibDeps

`Load`, `Remove`, `Sort`, `Write`, `Written` are `aidl_ops -a`; `Configure` and
`read_interfaces_lib_dependencies` are the CMake code around it. The two sortings
are connected by what `DependentsFirst` establishes: `Write` takes the libraries in
any order in which dependencies come first.

### InterfaceLibrary

A configure run selects targets (`Configure`) and adds each with the recursion of
`AddInterfaceLibrary` (`AddRequested`, `AddDependency`, `Reuse`, `GenerateSource`,
`WriteSource`, `Generated`). Generated trees survive the run, targets do not.

### BuildSwitches

`Configured` is what `CMakeLists.txt` makes of a set of switches; `Script` is what
`build-linux-binder-aidl.sh` checks, probes and passes on; `Cmake` (external) is
how `-D` and `-U` act on the cache. `fresh` is a history variable: what cmake would
have said in a new directory.

### Surface

`dump_surface` turns declarations into lines, with enum integers derived by
counting; `parse_dump`, `_diff_sequence`, `_diff_enum` and `diff_surface` classify
two dumps. `Release` appends a release and its report. Statements are records of
name, const flag and remaining text; comments and spacing are left out. The
reference definition `Serves` says what a client relies on: transactions and fields
by position, a union's exact arms, enum integers and constants by value. The constant
`sorted` is Python's: any enumeration of the names of a tree will do for the proofs.
The few operators on sequences it needs are defined in the module itself, because the
prover takes several times as long for each step with all of `SequencesExt` in scope.

## Runs

| run | shows | size |
|---|---|---|
| `lifecycle` | `TypeOK`, `RegisteredIntact`, `GeneratedMatchesFrozen`, `ImplementsFrozenLog` with crashes and saves at any moment | 514k states |
| `lifecycle_faults` | `CurrentCompatible`, `FrozenImmutable` with crashes, unnoticed failures and breaking edits | 694k |
| `two_tools` | `FrozenNeverBlamed`, `GeneratedMatchesFrozen`, `VersionsGrow` for a build beside updates, freezes and crashes | 3.8M |
| `module_local` | `PinnedSourcesMatch`, `DigestIsOfSources`, `WholeTreeKeepsFrozen` with any roots, edits, crashes and releases | 3.4M |
| `imports` | what a resolution finds, in which order, for which versions; that it ends; that a frozen version stays resolvable | 1.4M |
| `topological_sort` | order, exact cycle detection, refinement of `LibOrder`, termination | 16k |
| `lib_deps` | the list is closed at every moment and complete after a good run | 135k |
| `interface_library` | dependencies first, no library added twice, current libraries fresh, complete frozen sources untouched, runs end | 141k |
| `build_switches` | accepted switches agree, the script behaves as cmake in a fresh directory, protocol 7 only with 32-bit pointers | 1.7k states, 3.2M steps |
| `surface` | a series without a breaking report serves the clients of every release in it; breaking reports are real; additions are seen as removals backwards; a dump cut off between two lines is never taken for the whole | 390k |

Two runs end in a violation of something the repository says:

- `freeze_twice`: after a successful `freeze_api`, a second one reports modified
  files although nothing was touched: the digest of `current` carries the tag of the
  version just frozen (`aidl_interface.py:936`). Run `update_api` first.
- `surface_enum`: after an initializer that is not an integer literal, inserting an
  enum value moves the integers behind it and is classified `major`
  (`aidl_surface.py:190`).

### Bounds

- *Life cycle*: two files and two frozen versions are the least with a partial
  copy, a predecessor to be compatible with, and a leftover directory next to a
  registered version. `lifecycle` uses one content (adding a file is the compatible
  change, deleting one the breaking change); `lifecycle_faults` has a content that
  breaks, too. The proofs have no bounds.
- *TwoTools*: one file, two contents, two versions: the build can load one version
  and run through the freezing of the next. Crashes of both processes.
- *ModuleLocal*: one version, one snapshot, one file with two contents, pins 0 and
  1 or none: three definitions of one name, one of them left by a crash. With two
  versions the state space is too large; the proofs have no bounds.
- *Imports*: A imports B and C, B imports C: the least graph in which one interface
  is met in two versions. C can be pinned to version 1 or 2, before or after that
  version is frozen. Two frozen versions for B and C, one for A.
- *TopologicalSort*: every dictionary on three libraries with lists of up to two
  entries, equal entries and self-dependencies included. It deadlocks when done.
- *LibDeps*: two interfaces, each with `current` and a snapshot; one edit after the
  first state, which is arbitrary.
- *InterfaceLibrary*: A needs `current` and version 1 of B; two types, two contents.
- *BuildSwitches*: 48 and 9 stand for all invalid values.
- *Surface*: all bodies of up to three statements over five (a method in two
  variants, two others, a const), all enums of up to two values, all headers, a
  nested type; series of three releases. A series ends with a breaking report or at
  the bound, so deadlock is not checked.

### Fairness

`imports`, `topological_sort` and `interface_library` check that an operation
ends, under weak fairness of the steps of the running tool (`Resolve`, `Finish`; `Next`;
`AddInterfaceLibrary \/ Done`). The tool is one sequential process that waits for
nobody, so this says only that it is scheduled. Edits, new invocations and
failures are not fair.

## Proofs

All are safety results, for every value of the constants that satisfies the named
assumptions of the modules (finite sets of libraries and interfaces, a preorder for
compatibility, sentinels distinct from values). Each follows from an inductive
invariant of its module.

`AidlApiProofs`, for every set of files, every content preorder and every
`MaxVersion`:

| theorem | assumes |
|---|---|
| `TypeCorrect`: `TypeOK` | nothing about faults |
| `FrozenNeverChanges`: `FrozenImmutable` | nothing about faults |
| `GeneratedAlwaysMatches`: `GeneratedMatchesFrozen` | nothing about faults |
| `RegisteredAlwaysIntact`: `RegisteredIntact` | no command fails unnoticed |
| `RefinesFrozenLog`: `ImplementsFrozenLog` | no command fails unnoticed |
| `CurrentAlwaysCompatible`: `CurrentCompatible` | nothing is saved while the tool runs |

The assumptions are needed: TLC violates `RegisteredIntact` with `"command"` and
`CurrentCompatible` with `"edit"`. The argument, in the order of the module:

- `ProcessInv` ties the process to the disk: while the tool runs, `loaded` equals
  `versions`, so every write goes to `current` or to the directory after the last
  registered one. `FrozenNeverChanges` follows from it alone.
- `LeftoverInv`: a directory left by a dead `freeze_api` has no file that
  `current` lacks, because nothing ever deletes a file of `current`. So copying over it
  gives exactly `current`.
- `CopyInv`: during a freeze `current` matches its digest, and the files not in
  `todo` have been copied. With it, `IntactInv` is inductive.
- `FreezeInv`: what validation and `has_development` said about `current` stays true
  until the version is registered; `LogStep` turns the registering step into a step of
  `FrozenLog`.
- `GenInv`: no complete sources exist under a number that is not registered yet, and those
  under a registered one are of it.
- `MonotoneInv`: every version directory, registered or left over, is extended by
  `current`. It rests on transitivity of the preorder and on `CompatibleCopy`: adding
  one file of a compatible successor keeps a directory compatible.

The same module proves of `TwoTools`, a build beside such a process,
`GeneratedMatchesBeside` and `FrozenNeverChangesBeside` (any faults),
`BuilderNeverBlamesFrozen`, `RefinesFrozenLogBeside` and `VersionsAlwaysGrow` (no command
fails unnoticed). The builder writes nothing
the developer's process reads, so the invariants above carry over. `BuilderInv` adds
that the versions it loaded are a prefix of the registered ones, that the dumps it has
yet to check are consecutive, and that what it read of a frozen version is still
there; `ChainInv` that each registered version extends the one before it.
`VersionsAlwaysGrow` is about versions any distance apart, which `freeze_api` never
compares: by transitivity a new one extends all earlier ones, and were it extended by
one of them, it would be extended by its predecessor, which `check_for_development`
rules out (`GrowthInv`).

`ModuleLocalProofs`: `WholeTreeSafe`, `PinnedAlwaysMatch`, `DigestAlwaysOfSources`, for
any number of versions, snapshots and pins. `ToolInv`: if current is among the roots
the tool works on it, and `loaded` is the length of its list of versions, so a freeze
writes behind all registered ones. `CheckedInv`: when generation starts, the digest of
`current` is absent or of its present files.

`TopologicalSortProofs`: `TypeCorrect`, `DependentsAlwaysFirst`,
`CycleAlwaysDetected`, `SortImplementsLibOrder`, `SortProgresses`, for all finite dictionaries.
`CountInv`: the in-degree of a library is the number of entries naming it that have
not been gone through yet (`Pending`), and there are none exactly when it is queued or
out. Entries rather than dependents are counted because a list may name a library
twice. `OnceInv`: nothing is queued or put out twice. From these, an empty queue means
that every library left has a dependent among those left. `SortProgresses` is the
safety half of termination: with each step the pair of libraries still to come out and
of entries still to go through for the last one gets smaller lexicographically.

`LibDepsProofs`: `ListAlwaysClosed`, `CleanListAlwaysComplete`. `FileInv`: while
`dependencies.txt` is written it holds one line for each library not in `todo`, and
`todo` only has libraries whose dependencies are known.

`InterfaceLibraryProofs`: `DependenciesAlwaysAdded`, `CurrentAlwaysFresh`,
`FrozenSourcesAlwaysKept`, for cyclic lists of dependencies too, and `AlwaysAddedOnce`. `CallInv`: for each
call on the stack a dependency is added, waiting, or the call above. `SourceInv`: in a
tree that is being generated, what is not waiting is fresh, and in a frozen one only
what is missing waits. `AlwaysAddedOnce` is for lists that are not circular: with a level
for each library (`Levels`), the calls on the stack are for ever lower ones (`FallInv`),
so what a call adds is not being added by a call around it.

`BuildSwitchesProofs`: `SwitchesAlwaysAgree`, `Protocol7Always32Bit`,
`ScriptAlwaysFreshCmake`, for all values a switch may be given. `DecidedInv`: an
accepted result is what `CMakeLists.txt` makes of the cache as it is now. The last
theorem compares the script's own checks with those of `CMakeLists.txt` case by case.

`ImportsProofs`: `TypeCorrect`, `ImportsAlwaysFirst`, `FrozenAlwaysResolvable`,
`AlwaysNewest`, `FrozenAlwaysClosed`, `RecordsWhatItChecked`, `RecordNeverCircular`,
`FrozenNeverLoops`, `OrderedNeverLoops`, for any graph of imports, cyclic ones included
but for the last, and any pins.

- `RecordedInv`: `append_version` records versions that exist, or 0. `CallInv`: for
  each frame an import is done, waiting, or the frame above. `FrozenInv`: below a
  frozen version only recorded versions are asked for.
- `ChainInv`: each frame was called by the one below it for one of its imports.
  `NewestInv`: there is a set of interfaces in versions, those whose calls have
  returned (`Met`), that is closed under imports, has all the imports of an active
  call but those that wait or are being resolved, lies in every closed set with the
  target's imports, and whose newest members are `api_dependecies`. No induction
  over the depth of the recursion is needed: the set grows with every return.
- `CheckedInv`: what the dependency check of a running `freeze_api` has resolved for an
  import without a pin is its latest version. It needs `NoEarlyPin`: someone who
  pins a version that is yet to be frozen makes the check use the version in
  development, while the latest frozen one is recorded. TLC shows this
  without that hypothesis.
- `process_imports` has no memory of where it has been, so it must not meet what it is
  still dealing with. `RecordNeverCircular`: no set of frozen versions goes round in
  a circle through the imports recorded for them, even if developers turn imports around
  between freezes. `OrderInv` is a rank of the frozen versions, the order in which they
  were frozen: what a version records was frozen before it. `FrozenNeverLoops` follows:
  resolving a frozen version meets no version twice on the way down. For the versions in
  development it takes a hypothesis on the developers: `OrderedNeverLoops`, if there are
  levels such that an interface only ever imports interfaces of a lower level
  (`LevelInv`). That imports are never circular at one moment is not enough; see the
  divergences below.

`SurfaceProofs`, for every set of trees of well-formed declarations
(`TreesAssumption`: types that `sorted` enumerates, no two members of one name in one type) and
series of any length: `DumpReadBack`, `AdditiveComposes`, `RollbackAlwaysSeen`,
`ClientsAlwaysServed`, `BreakingAlwaysReal`, `CutDumpAlwaysSeen`.

- `Verdict`: what `diff_surface` answers is decided by a relation `Kept` on the parsed
  dumps: breaking unless the new one keeps the old one, nothing if each keeps the
  other. `KeptReflexive`, `KeptTransitive`: it is a preorder. So comparing neighbours is
  enough (`AdditiveComposes`).
- `EnumBody`: counting from the last literal gives the compiler's integers, where the
  tool can know them. `KeptServes`, `ServesKept`: what is kept is what clients need, and
  conversely if every enum integer is derivable.
- `RoundTrip`: `parse_dump` inverts `dump_surface`, and of a dump cut off somewhere it
  reads a part; `CutLost`: such a part does not keep the whole.
- `SurfaceInv` is the history: each report is that on two neighbouring dumps, and
  as long as none is breaking the last release keeps all earlier ones.

These need an induction over sequences. The provers take no predicate as a parameter,
so `Induction` is stated for a set of numbers, from the least number outside it.
`FoldRuns` turns a fold into a run with one state per element, to which it applies.

Only model-checked: liveness (`EveryOperationEnds`, `Terminates`, `EveryRunEnds`), which
is out of the prover's reach. `SortProgresses`, `FrozenNeverLoops`,
`OrderedNeverLoops` and `AlwaysAddedOnce` are the parts of them that are safety.

## Divergences met while modelling, without a run

- A source file that was deleted stays in `current`: rsync has no `--delete`
  (`aidl_api.py:275`).
- A file saved between the check and rsync overwrites `current` unchecked
  (`aidl_api.py:276`); `freeze_api` checks it again.
- A failed copy is registered (`aidl_api.py:85`).
- Sources generated for `current` carry a digest, not `notfrozen`
  (`aidl_gen_rule.py:300`).
- When `aidl_ops -a` fails to load a definition, CMake uses the list of an earlier
  run (`host/CMakeLists.inc:137`).
- `latest` adds every frozen version (`host/CMakeLists.inc:467`); a missing version is
  reported with `message(FATAL_ERROR, ...)`, which does not stop CMake (`:488`).
- In the module-local layout the first build of a frozen version is refused
  (`aidl_gen_rule.py:390`).
- Freezing against an import that was never frozen records version 0 of it
  (`aidl_api.py:120`); a comment at `aidl_interface.py:534` says that imported
  interfaces must be frozen transitively.
- Imports that are turned around between two freezes can make `freeze_api` recurse until
  Python gives up, although they are never circular at one moment: B is frozen with an
  import of A and drops it, then A imports B. For A, `freeze_api` goes to the latest
  version of B, from there to A, which was never frozen and is taken as it is now, and
  from there to B again (`aidl_interface.py:586`). Found when `OrderedNeverLoops` could
  not be proved for imports that are merely acyclic.
- The sources of a removed type stay in the tree and are compiled into the library
  (`host/CMakeLists.inc:249`); a comment at `:222` says regeneration rules out stale code.
- Module-local: after a `freeze_api` the digest of `current` has an old tag, and
  `update_api`, which would renew it, does nothing (`aidl_api.py:212`); generation and
  freezing are refused until someone deletes `current/.hash`.
- Module-local: with roots that name only a snapshot, `freeze_api` goes by the
  snapshot's list of versions, copies `current` over a version that exists and appends
  to the snapshot's `interface.yaml` (`aidl_interface.py:461`, `aidl_api.py:80`). Hence
  `WholeTreeKeepsFrozen` is about roots that include `current`.
- Module-local: a snapshot's own `.hash` is never checked, and building a snapshot
  fails when `current` fails validation (`aidl_interface.py:379`).
- Module-local: `cp -rf current/.` takes generated sources along into the version.
- `interface-update.py:58` needs ruamel.yaml, which the list of requirements lacks;
  without it each freeze leaves its version unregistered and reports success. In the
  model this is a `"command"` fault.
- The script knows `TARGET_LIB64_VERSION` only as `ON`
  (`build-linux-binder-aidl.sh:109`); CMake takes any true value.

## Not modelled

- Two processes that both write (two freezes at once): nothing in the code or its
  documentation supports it, and a version can be registered twice. Unstable
  interfaces: generation returns before it does anything for them.
- Module-local: roots that name a numbered version alone, a module without
  `current`, and commands that fail unnoticed (they are in `AidlApi`).
- `Surface`: comments, strings and spacing; a dump cut off inside a line.
- Include directories, link flags, install rules, source lists and target properties
  in CMake.
- The Yocto include and recipe, service supervision: what happens in which order is
  decided by BitBake, systemd and the kernel.
- The FWManager example and the `IServiceManager` stubs: their threads and transport
  are those of libbinder, which is not in the repository.
- The example build, the clone and patch scripts, the device tool: straight lines of
  commands. An `.aidl` file saved during generation is older than the stamp of the
  example build (`build-binder-example.sh:159`) and is not generated from.
- Logging, patches to sources that are not here, the audit and test scripts.
