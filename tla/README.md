# nodejs_resolver: a TLA+ model, its checks and its proofs

`nodejs_resolver` (Rust, `src/src/`) resolves a request such as `./x`,
`foo/bar` or `#internal` from a directory to a file, as Node and webpack's
enhanced-resolve do.  One `Resolver` is used by many threads at once and shares
a cache with other resolvers.  This directory holds TLA+ modules that model the
library, TLC configurations that check them on small instances, and proofs that
TLAPS checks.  `PROJECT.json` maps every definition to its source lines and
lists runs, mutants, hazards, findings and theorems.

## 1. Inventory

| Component | Source | State | Operations |
|---|---|---|---|
| Shared entry cache | `entry.rs`, `cache.rs` | `Cache::entries` (concurrent map path -> `Arc<Entry>`); per `Entry` the write-once cells `stat`, `pkg_info`, `real`, `symlink` and the parent pointer | `load_entry`, `cached_stat`, `pkg_info`, `real`, `symlink`, `clear_entries` |
| Resolution pipeline | `lib.rs`, `resolve.rs`, `state.rs`, `context.rs`, `info.rs` | the `State` on its way through the chain, `Context::depth`, `Context::fully_specified`, `Context::resolve_to_context` | `resolve`, `_resolve`, `resolve_as_*`, `_resolve_with_tsconfig` |
| Plugins | `plugin/*.rs` | none of their own; some change `fully_specified` around a nested `_resolve` | alias, browser, exports, imports, main field, main file, extension alias, parse, prefer relative |
| Symlinks | `plugin/symlink.rs` | the cells `real` and `symlink` | real path of a result, memoised per directory |
| Result | `resource.rs` | - | `Resource::new` |
| Request parsing | `parse.rs`, `kind.rs` | - | `parse_identifier`, `PathKind` |
| Exports and imports mapping | `map.rs`, texts in `plugin/exports_field.rs`, `plugin/imports_field.rs` | the locals of the loops: best key, stack of conditions | from a request to the targets of a field, `check_target` |
| File cache | `fs.rs` | cached contents with a modification time | `read_description_file`, `read_tsconfig` with a 300 ms debounce |
| Descriptions | `description.rs` | parsed `package.json` | constructors, accessors |
| Tsconfig | `tsconfig.rs`, `tsconfig_path.rs` | parsed `tsconfig.json` | `extends`, `baseUrl`, `paths` |
| Options, errors, logging | `options.rs`, `error.rs`, `log.rs` | plain data | - |

How they interact.  `resolve` parses the request and runs `_resolve`, a chain
of `State::then` closures.  Almost every link of the chain calls `_resolve`
again: aliases, fields of a description, main files, module folders further up.
The links communicate through the `State` they return and through the
`Context`, which is borrowed mutably by all of them.  They ask the entry cache
what a path is and which description is the nearest; the entry cache asks the
file cache and the disk.  Between threads only the two caches are shared.

What is hard, and what makes each part correct:

* *Entry cache.*  Threads miss, insert and initialise at the same time, and the
  initialiser of one `pkg_info` cell initialises the cell of the parent while it
  holds its own.  Correct means: no cycle of threads that wait for cells, cells
  written once, an initialiser that fails leaves the cell empty and wakes the
  others, every answer was true of the disk at some moment since the last
  `clear_entries`, and, once a race for its entry is over, a path gets the same
  answer until then.
* *Pipeline and plugins.*  `depth` and `fully_specified` are put back by hand
  after nested calls; `Error`, `Failed`, `Ignored` and `Resolving` mean
  different things to the loops that look at them; what refers to itself must
  end.  Correct means: errors are final, the context is balanced on every path,
  every call returns, what is returned is the kind of thing the options ask for,
  and it is the *first* candidate of the documented order.
* *Result.*  `resolve` unwraps the description of the result.
* *Symlinks.*  The real path of every directory on the way is memoised, by
  several threads, in cells that are filled at different moments.  Correct
  means: what one request memoises is right for all later ones, and an answer is
  the canonical path, or is explained by the disks there were.
* *File cache.*  A modification time is compared with a clock and across
  threads; the debounce may hide a write.
* *Tsconfig.*  `extends` is followed by recursion that `depth` does not count,
  most failures of the extended file are ignored, `resolve_to_context` is put
  back by hand, and `paths` is a hash map.  Correct means: the nearest file of
  the chain decides, the context is kept, every call returns, and the order of
  the hash map decides only between patterns that both match.
* *Mapping and parsing.*  A comparison of keys that has to be a total order, a
  search through nested conditions with its own stack, scanners that look ahead
  by a byte.  Correct means: the result does not depend on the order of the
  keys, the targets are those Node's rules give, and texts are split at the same
  places whatever is in them.

`PROJECT.json` lists these hazards line by line, with the properties that cover
each one.

## 2. Modules

| Module | What it is |
|---|---|
| `EntryCache` | the entry cache, every interleaving of its threads |
| `MCEntryCache` | trees and disks for TLC |
| `EntryCacheProofs` | its inductive invariants and proofs |
| `Resolve` | one call of `resolve`: the chain, the plugins, the context |
| `ResolvePromise` | the abstract specification of a plain call: the list of candidates, by recursion over directories and calls, of which the first file wins; and what the documentation of the options says |
| `MCResolve` | worlds (disk, descriptions, options, request) for TLC |
| `ResolveProofs` | invariants of the chain, and proofs |
| `CachedFs` | the file cache: one file, its readers, its modification times and the debounce |
| `MCCachedFs` | threads for TLC |
| `CachedFsProofs` | its inductive invariants and proofs |
| `RealPath` | the abstract specification of symlinks: a question and its canonical answer, without cells |
| `Symlink` | `resolve_symlink`, every interleaving of its threads on the cells `real` and `symlink`; implements `RealPath` |
| `MCSymlink` | a tree and its disks for TLC |
| `SymlinkProofs` | its inductive invariant, and the proof that its answers are those of `RealPath` |
| `TsConfig` | `_resolve_with_tsconfig`: reading and merging the chain of files, `baseUrl`, `paths` |
| `MCTsConfig` | chains of files and tables of paths for TLC |
| `TsConfigProofs` | the invariant of the calls on its stack, and proofs |
| `TsConfigAnswers` | what merging and the table of `paths` come to: further invariants, and proofs |
| `Parse` | the text of a request: `parse_identifier`, `PathKind`, the name of the module |
| `FieldMapping` | from the text of a request to the targets of an `exports` or `imports` field and what the plugin makes of them |
| `FieldReference` | what `FieldMapping` is to compute, without its loops, and its properties |
| `MCFieldMapping` | requests, tables of keys and nested values for TLC |
| `FieldMappingProofs` | the loops over bytes and keys, their invariants, and proofs |
| `Basics` | what several proofs need: induction and recursion over numbers and over values inside each other, the parts of sequences, and `FlattenSeq` |

Three compositions: `Symlink` runs on the entries of `EntryCache`, with
`load_entry` as one step; `FieldMapping` uses the operators of `Parse` at the
places where the plugins call `from_request`; `TsConfig` and `FieldMapping` call
`_resolve`, which is the system of `Resolve`, and take its results from their
world, as `Resolve` takes the targets of a field from its own.

### EntryCache

`entries` is `Cache::entries`.  `heap` holds every `Entry` ever made, because
an `Arc` keeps an entry alive that the map does not have any more; an id is the
thread that made the entry and a number.  An `Entry` has its `path`, its
`parent` id, the cells `stat` and `pkg` and the `holder` of the lock inside the
`OnceCell` of `pkg_info` while an initialiser runs.

A thread's call is a small program counter over the code:

* `load_entry` recurses to the parent on a miss and makes its own entry on the
  way back.  The frames that wait for their parent are the set `missing`.
  `Probe` is `entries.get`, `Insert` is `entry().or_insert()`, which keeps the
  entry of a faster thread while the caller goes on with its own.
* `Stat` is `cached_stat` (`is_file`, `is_dir`, `exists`).
* `PkgInfo` is `get_or_try_init`: use the value, become the initialiser, or
  block.  `InitPkg`, `ReadPkg`, `StorePkg` and `FailPkg` are the initialiser.
  The recursion to the parent needs no stack: the frames below are the cells
  whose `holder` is the thread, each the child of the next.
* `StartClear`, `ClearShard` are `clear_entries`: `DashMap::clear` locks one
  shard at a time, so paths disappear in any order while others insert.
* `Change` is another program: it writes, breaks or removes a description file,
  creates or removes a file, or makes, removes or replaces a directory that has
  nothing else in it.

`disk` says of each path whether it is a directory, and then what its
description file is, or a file, or nothing; `IsDisk` says that what exists lies
in a directory.  `Dirs` are the paths that may be directories; the others are
files or nothing.  `plan` has the calls that each thread is still to make: a
plan per thread, from the constant `Plans`, bounds a run.  `since` and `adm` are
history: the contents of the disk since the last `clear_entries`, and those that
a call may therefore report.  So are `overlap` (did a clear run beside another
call?), `asked` (paths for which a stat was answered since the clear), `settled`
(threads whose call began after that, or that were alone from its beginning to
now) and `told` (what these were answered).  No action of the code looks at them.

### Resolve

The nested closures become a stack: `control` is what is still to run,
innermost call first, and `state` is the `State` that runs through it.  A link
of the chain that is a closure of `State::then` acts on `State::Resolving` only
(`Then`), and `Skip` passes any other state on.  The `for` loops of the plugins
are the link `attempt`; a plugin that sets `fully_specified` pushes a link
`restore` under the nested call, where the code puts the old value back; the
`depth` of `Context` is decreased by the link `leave`.  `Enter` is the head of
`_resolve`, `ResolveAsModules`, `InModules`, `ResolveNodeModules`, `UnlessFile`,
`UnlessFailed` and `FindUp` are the loop over the folders of modules.

Data is abstract: a name is a sequence of atoms, so that an extension can be
added and replaced; a path is a sequence of names; a request is its kind, its
names, and what followed them.  What a field of a description says is part of
the *world* `w`, chosen in `Init`: disk, descriptions, options and request.

### CachedFs

`cached` is the `CachedEntry` of one file in the map of `CachedFS`.  `Field`
says in which map: a `tsconfig.json` is read with the time in the stat cell of
its `Entry`, so `entry` and `stat` are what `EntryCache` has, reduced to that
one path (`Probe`, `Insert`, `Stat`, `Clear`); a `package.json` is read with
`EntryStat::default()`, which has no time (`StatGiven`).  `Get` is the lookup
with `is_modified`, `Read` is `fs::read_to_string`, `Store` parses and keeps.
`Panic` is the answer of a call whose `duration_since` panics.

The file has versions with a time of writing.  `Tick`, `Write` and `Rename` are
the clock and another program.  The clock does not go back; a rename keeps the
time.  `since` and `adm` are history: what the file was since the last
`clear_entries`, and what a call may therefore report.

### Symlink and RealPath

An entry is its path and a generation: `Clear` begins a new one, and calls that
run keep the entries they have (`of`).  `real` and `link` are the two cells of
every entry, `holder` is the lock inside the `OnceCell` of `symlink` while its
initialiser runs.  `AskReal` and `AskLink` are the loop of `resolve_symlink`;
`ReadLink` and `Canonicalize` are the initialiser, two reads of the disk with a
`Change` possible in between; `Finish` joins what was found with the names below
and calls `init_real` on the head; `InitOwn` is the `for_each` over the stack,
one entry a step, as other threads see it.

`RealPath` has none of that: `Ask`, `Reply`, the disk and `Clear`.  `Promise`
instantiates it with the goal of a busy thread as its question.  The refinement
comes in two parts: `AnswersCanonical` is its safety part (`Safe`), which is
proved, and `ImplementsRealPath` the whole specification with the promise that
every question is answered, which TLC checks.

### TsConfig

`stack` has the calls of `parse_file_to_value`.  `ReadFile`, `AskExtends` and
`Extend` are its body up to the recursion, `MergeUp` is what the caller does
with the result; the stack is empty once the tsconfig is parsed.  `Reached` are
the files of the chain, the least set that is `Closed` under `extends`, and a
chain is `Endless` if each of them extends another.  `Extend` has the three ways
a result of `_resolve` is treated: read on, an error, or nothing to extend.
`ParseTsFile` is `TsConfigInfo` with its `unwrap`s.  `TryBaseUrl`, `NextEntry`,
`TryPath` and `Plain` are the attempts in the order of the code
(TypeScript tries `paths` first), which a path that is ignored ends like one that is found; `NextEntry`
takes the entries of the hash map in any order.

A JSON value is a record of its type and its value, and `NoField` is the `None`
of `Value::get`.  `merge` descends as deep as a tsconfig has objects: the file,
`compilerOptions`, `paths`, the list of a pattern.  `TextAssumption` says that
the files are values down to there (`Content`) and that patterns are texts
(`Table`).  `Texts` are the sequences of `Chars`.

### Parse, FieldMapping and FieldReference

A text is the sequence of its bytes (`Texts`), because the scanners of `parse.rs`,
`map.rs` and `resolve.rs` count bytes, look one byte ahead or mix bytes with
characters.  `Marks` are the bytes they look for, `Letters` the letters of ASCII,
which the name of a drive has, and `"^" "~"` are the two bytes of a character that
is not ASCII.  Letters stand for all names; the names of conditions are kept
whole.  The scanners are recursive functions over the byte they are at.  The JSON values of a
field are the constant `Values`, which `ValueAssumption` closes under elements and
members; `Nesting` says how deep each of them is.  `FieldMapping` follows a request from `from_request` to the answer of
the plugin.  `ExportsKeys` and `ImportsKeys` are the checks of the keys and the
exact match, `Scan` is one turn of the loop over patterns, `MapString`,
`MapArray`, `MapObject`, `MapOther` are `mapping` with its recursion as the list
`todo`, `Condition` and `Exhausted` are one turn of the labelled loop of
`conditional_mapping` with its own stack `lookup`, `TryItem` and `TakeFirst` are
the plugins.  `found` of a world are the targets with which `_resolve` is
finished: found, ignored or failed with an error, which end the loop of the
plugin alike (`Resolve` tells them apart).  `FieldReference` says the same by splitting, by sets of keys, by
a recursive function over the value, and by counting directories.

## 3. Runs

| Run | Question | Bounds |
|---|---|---|
| `EntryCacheRace` | two threads race for the entries and cells of a chain of directories while a description changes or a directory comes or goes; one asks three times, one clears, one is alone and clears in between: write-once cells, ordered waiting, explained answers, fresh after a clear, one stat per path when a race is over, every call returns | 4 paths, 6 disks, 1 change, 9 plans of up to 6 calls |
| `EntryCacheClear` | *violation*: a load that overlaps `clear_entries` brings old entries back | 2 threads, 2 calls, 1 change |
| `ResolveCalls` | plain requests on every set of the files they may find: is the first candidate found?  Aliases, fallback, browser, imports, exports, main fields, extension aliases, `resolve_to_context`, cycles among them: is the context balanced, is a result what the options ask for, are errors final, is a description that does not parse one, does every call return? | 2304, 1007 and 1600 worlds, `MaxDepth` 24 |
| `CachedFsDebounce` | two threads, writes at any time: what does the debounce hide, and what does a panic need? | 2 calls per thread, 2 writes, interval 1, clock up to 1 |
| `CachedFsPanic` | *violation*: two entries of one path bring times out of order, and `is_modified` panics | 1 call per thread, 1 write |
| `ResolveFallback`, `ResolveUnread`, `ResolveModule`, `ResolveContext` | *violations*, see below | 2 to 4 worlds each |
| `SymlinkRace` | two threads ask for the real paths of a directory and of a file in it while links change and entries are cleared: do the calls implement `RealPath`, and are the cells right for those who come later? | 6 disks, 1 call per thread, 1 change, 1 clear |
| `TsConfigWorlds` | chains of tsconfig files, whole, broken, missing or cyclic, and tables of overlapping patterns in any order: what is merged, what fails, what does the hash map decide? | 3 files, `MaxFrames` 4, 3 tables, 6 targets |
| `FieldWorlds` | requests against tables in every order of their keys, and against nested arrays and conditions: is the result the one the declarative definitions give? | up to 3 of 8 keys, 2 levels of arrays and conditions, about 9800 worlds |

Why the bounds are enough.  A race for a cell needs two threads and a chain of
directories in which one of them starts below the other: three paths.  A stale
answer needs one change; an answer from before a clear needs two calls.  The
candidates of a plain request are decided by which of a few files exist, so
every set of them at every level (the directory, its parent, the root) is
taken, and the files such a request must not look at are all there or none.
The order of the search has cases that need more than one directory: a main
field that leads to a directory with a main field of its own, or back to where it
came from; a second folder of modules, or one with an absolute path; a request
for a file in a package.  `DeepWorlds` has them, on every set of seven files,
and in 192 more worlds where every file is a link to a file of its own.
`MaxDepth` is 127 in the code; the run uses 24 so that cyclic worlds
overflow in short behaviours, and 24 is deeper than any call of these worlds
that does end.  Larger values add rounds of the same cycle; the theorems hold
for all of them.  One change of the disk and one call per thread suffice for the
race of `pkg_info`: the disks have all ways in which an initialiser fails, and
a second call only finds cells that are filled, which is the beginning of
the other thread's call.  For one stat per path, one thread asks three times for
the directory that the other asks for once: the first of these may race, the
other two come after.  The six calls of a thread alone fill the cells by a
question for a description, read them, clear, and read again, with the change
before, between or after; two of the disks have an empty directory that the
change removes, or a path that it makes one.

The debounce compares two times: an interval of one moment hides exactly the
writes of that moment, and the second moment is the first that must be seen.

A real path is put together from one directory above and the names below it:
a directory and a file in it, each a link or not, are all the cases, and one
change lets two cells be filled from different disks.  Three tsconfig files are
a cycle of one or two, and a chain whose middle says nothing.  Two keys show a
wrong comparison, three one that is not transitive.  Two levels of conditions
are what the stack of `conditional_mapping` needs to go back and on.

Fairness.  `EntryCache` and `Symlink` assume `WF_vars(Run(t))` for each thread: the operating
system goes on scheduling a thread that is inside a call.  Nothing is assumed of
the calls, the disk or `clear_entries` being started.  The lock of a `OnceCell`
needs no strong fairness here, because a thread that waits finds the cell free
as soon as the other initialiser ends and the calls are finitely many.
`Resolve`, `TsConfig` and `FieldMapping` assume `WF_vars(Next)`: one thread that
runs on.  `CachedFs` has
safety properties only and assumes none.  `CHECK_DEADLOCK` is off because
finished calls stop.

## 4. What the violations show

Each of these runs checks one statement of the documentation or the tests
against the code, and TLC shows how the code departs from it.

* `EntryCacheClear`: a load that is between its miss and its insert when
  `clear_entries` runs inserts a child of the old parent entry; later calls find
  it and report the description from before.
* `ResolveFallback`: the fallback table is used for `State::Failed` only; a
  directory without a main file ends as `State::Resolving`.
* `ResolveUnread`: `Resource::new` unwraps the description of the file that was
  found, but looked up were those of the path that was requested, of modules
  and of directories.  When the own `package.json` of the file does not parse,
  resolve panics instead of returning the error.  TLC shows one behaviour; each
  of the four worlds of the run has one: the real path of a link lies in the
  broken package; `x.js` lies in it beside a directory `x` that has a readable
  description; a target of `imports` lies in it (`ImportsFieldPlugin` looks up
  nothing); it is a subdirectory of a module (only the module's own directory
  is looked up).  What does hold is `BrokenIsError`: the description of the
  requested path itself is never passed over.
* `ResolveModule`: a module without a description of its own inherits the one
  of the project around it, and the project's `exports` answer for it.
* `ResolveContext`: "Resolve to a context instead of a file" (`options.rs:51`).
  `resolve_node_modules` looks at the option only when the module is a directory.
  When it is not, the module is looked for as a file (`resolve.rs:219`), and a
  `node_modules/y.js` is the result.  `ContextOrModule` says that this is the only
  way to a file: with the option, a success is a directory, or a file that lies in
  a folder of modules itself.
* `CachedFsPanic`: `load_entry` returns the entry it made itself even when
  `or_insert` kept another one, so a path can have two entries and two answers.
  Two threads miss the entry of a `tsconfig.json` at once and memoise the time
  before and after a write.  The one with the later time fills the file cache,
  the other one then calls `duration_since` on a time that is later than its
  own, and `expect("after > before")` panics inside `resolve`.  The later time
  stays in the file cache, so every call with the older entry panics until
  `clear_entries`; `PanicExplained` shows that it takes two entries of one path
  and is not a matter of the clock.

One more thing the models show and no document denies.  Two tsconfig files that
extend each other recurse until the stack of the thread ends (`tsconfig.rs:98`);
`CrashIsCycle` shows that nothing else does.

## 5. Proofs

TLAPS checks these theorems for any number of threads, any tree of paths, any
world and any bounds.  The runs named in section 3 check the same properties on
small instances.

| Theorem | Module | Statement |
|---|---|---|
| `TypeOKHolds` | `EntryCacheProofs` | `Spec => []TypeOK` |
| `WaitOrderHolds` | `EntryCacheProofs` | `Spec => []WaitOrder`: threads never wait for `pkg_info` cells in a cycle |
| `CellsWriteOnceHolds` | `EntryCacheProofs` | `Spec => CellsWriteOnce` |
| `FreshAnswersHolds` | `EntryCacheProofs` | `Spec => []FreshAnswers`: answers are explained by the disk since the last clear, unless a clear ran beside another call |
| `StableStatHolds` | `EntryCacheProofs` | `Spec => []StableStat`: calls that begin after a race for an entry is over agree until the clear |
| `TypeOKHolds` | `ResolveProofs` | `Spec => []TypeOK` |
| `ErrorIsFinalHolds` | `ResolveProofs` | `Spec => ErrorIsFinal` |
| `OverflowIsFinalHolds` | `ResolveProofs` | `Spec => []OverflowIsFinal` |
| `DepthMatchesHolds` | `ResolveProofs` | `Spec => []DepthMatches`: what is entered is left, on every way back |
| `FullyRestoredHolds` | `ResolveProofs` | `Spec => []FullyRestored` |
| `ResultIsFileHolds` | `ResolveProofs` | `Spec => []ResultIsFile`: without `resolve_to_context` a success is an existing file |
| `TargetUsedUpHolds` | `ResolveProofs` | `Spec => []TargetUsedUp` |
| `FirstFileWinsHolds` | `ResolveProofs` | `Spec => []FirstFileWins`: a call that nothing rewrites returns the first file of the list, with `symlinks` its real path, or overflows where the list does |
| `BrokenIsErrorHolds` | `ResolveProofs` | `Spec => []BrokenIsError`: a description of the requested path that does not parse is never passed over |
| `TypeOKHolds` | `CachedFsProofs` | `Spec => []TypeOK` |
| `DebouncedHolds` | `CachedFsProofs` | `Spec => []Debounced`: an older answer was followed by a newer version within the interval |
| `PanicExplainedHolds` | `CachedFsProofs` | `Spec => []PanicExplained`: a panic takes two entries of one path |
| `DescriptionsCurrent` | `CachedFsProofs` | `Spec => []AnswersCurrent`, if `Field = "descriptions"` |
| `AloneNoPanic` | `CachedFsProofs` | `Spec => []NoPanic`, if there is one thread |
| `TypeOKHolds` | `SymlinkProofs` | `Spec => []TypeOK` |
| `CellsCanonicalHolds` | `SymlinkProofs` | `Spec => []CellsCanonical` |
| `AnswersCanonicalHolds` | `SymlinkProofs` | `Spec => AnswersCanonical`: the calls implement the safety part of `RealPath` |
| `TypeOKHolds` | `TsConfigProofs` | `Spec => []TypeOK` |
| `ContextKeptHolds` | `TsConfigProofs` | `Spec => []ContextKept` |
| `CrashIsCycleHolds` | `TsConfigProofs` | `Spec => []CrashIsCycle`: the stack overflows if and only if the files go round |
| `FailuresExplainedHolds` | `TsConfigProofs` | `Spec => []FailuresExplained` |
| `NearestWinsHolds` | `TsConfigAnswers` | `Spec => []NearestWins`: what a merged tsconfig says of a key is what the first file of the chain says that says anything |
| `AnswerAllowedHolds` | `TsConfigAnswers` | `Spec => []AnswerAllowed`: in the order of this program, `baseUrl` before `paths`, of a pattern the first path that is there, the plain request last |
| `TypeOKHolds` | `FieldMappingProofs` | `Spec => []TypeOK` |
| `ParsedRightHolds` | `FieldMappingProofs` | `Spec => []ParsedRight`: the loop of `parse_identifier` cuts any text where the rule says |
| `ModuleSplitHolds` | `FieldMappingProofs` | `Spec => []ModuleSplit` |
| `BestIsBestHolds` | `FieldMappingProofs` | `Spec => []BestIsBest`: the chosen key beats every other key, in any order of the table |
| `WalkAgreesHolds` | `FieldMappingProofs` | `Spec => []WalkAgrees`: `check_target` accepts what never leaves the package |
| `TargetsExplainedHolds` | `FieldMappingProofs` | `Spec => []TargetsExplained`: the loops over values and conditions list what the recursion over the field says |

Assumptions.  TLC evaluates each of them on the runs of its module.

* `PathAssumption` (`EntryCache`): the paths form trees, a description file is
  not a directory and has a parent, and what has a child may be a directory; (`Symlink`): with a path, the directories
  above it.
* `DiskAssumption` (`Symlink`): what exists and is no link has the canonical path
  of its parent, extended by its name.
* `SentinelAssumption` (most modules): the values that stand for "none" or for a
  failure are different from what they stand beside.
* `BoundAssumption`, `DepthAssumption`: the bounds are numbers, the initial
  disks are disks (`IsDisk`) and plans are sequences of calls; `MaxDepth` is a positive number.
* `FrameAssumption` (`TsConfig`): there are finitely many files, and the stack of
  the thread has room for a call per file.
* `WorldAssumption` (`Resolve`, `TsConfig`, `FieldMapping`): the options and files
  have the types of the code as far as the proofs look at them; in `Resolve`,
  there are finitely many descriptions, and a main field is a relative request,
  because its `./` is added when it has none (`main_field.rs:41`); and, for
  `ResultIsFile`, the real path of a file is a file and that of a directory a
  directory, as `canonicalize` has it on a disk that nobody changes.
* `TextAssumption` (`TsConfig`): a request is a text, a `tsconfig.json` that parses
  has no holes in its objects, and the keys of `paths` are texts; `serde_json`
  gives no other values.
* `ValueAssumption` (`FieldMapping`): an element or member of a value is a value.
* `NestingAssumption` (`FieldMapping`): values inside each other come to an end:
  each has a number, and those inside it have lower ones.  A JSON text is finite.

*Entry cache.*  `Inv` is inductive: `TypeOK`, `HeapInv` and, per thread,
`LoadInv` and `QueryInv`.  `HeapInv`: an entry points to an entry of its parent
directory, the map is keyed by the path of its entries, a cell that is set has
no initialiser.  `LoadInv`: the frames of `load_entry` are the paths between the
innermost frame and the goal, so whoever returns finds its caller.  `QueryInv`:
the cells a thread is initialising belong to entries from its goal up to the
entry it is at, no two of the same path, each the parent of the next one down.
It is what `WaitOrder` needs: the holder of a cell is at that entry or above,
and if it waits itself, it waits strictly above.  Without "each the parent of
the next" `StorePkg` could return to the wrong cell.  There is one lemma per
action (`ProbeKeeps` ... `ClearShardKeeps`); `OtherThread` says once that a step
of one thread leaves the invariant of the others alone.

`CellsWriteOnce` follows from `Inv` step by step: it needs that the thread that
stores is the holder, hence that the cell is empty (`CellsKept`).

`AnswersExplained` is false with `clear_entries`: `EntryCacheClear` is the
counterexample.  `FreshAnswers` says what is left of it, and its proof locates the
reason.  `ClearInv`: as long as no clear ran beside another call (`~overlap`), a
clear is alone, and what it went through is empty.  `FreshInv`: then there is a
set `L` of *live* entries, those made since the last clear.  It is closed under
parents and has all entries of the map and all that threads use (`LiveInv`), so
that a thread never fills or reads a cell that is not live.  `ExplainInv(L)` is
about contents: a filled cell of a live entry is explained by contents the disk
had since the clear; while a thread climbs, every directory between a cell it holds
and the entry it is at was seen without a description file; and what a thread
brings back explains all cells it holds.  When a clear is through no entry is
live, and the contents that explain answers begin anew (`ClearEnds`).

`StableStat` holds for any number of threads because a race for an entry is over
when a stat was answered: the map then has an entry of the path, and whoever comes
later goes on with that one.  `ToldInv`: what was asked for is on the map, and the
cell of its entry has what was told.  `Settled(t)`: a call of a settled thread hits
at its first look, or is alone, so that nobody inserts before it.  `SettledInv` is
both, as long as no clear ran beside another call.  Without "settled" the property
is false, for the reason `CachedFsPanic` shows: of two threads that miss at once,
the one whose entry was not kept has cells of its own.

*Pipeline.*  `ErrorIsFinal` holds because every link either begins with `Then` or
asks `IsFinished`; the lemma `ErrorStep` goes through all actions.
`OverflowIsFinal` follows by induction, with that lemma: only `Enter` increases
`depth`, and it makes the error at the step in which it reaches the limit.
The other properties are parts of one invariant, `CallInv`.  None of them is
inductive alone, because they speak of the whole stack of pending links:
`ChainOK` says that the stack is a sequence of links of the known shapes, whose
lists of alternatives and last resorts are states a plugin may go on with.
Links that restore nothing and leave nothing are pushed and dropped freely
(`Neutral`); a plugin that changes `fully_specified` pushes a `restore` with the
value there was, so that either an outer `restore` decides as before, or that
value was the one of the options; and `depth` is the number of `leave` links,
counted with `Opened`, one more after an overflow (`Late`).  `StateOK` says of a
success that it has no target left and that its path exists, as a file unless
`resolve_to_context` is set: `LoadFinds` is the
lemma for the extensions, and the real path of `Symlink` is the place where
`WorldAssumption` is needed.  One lemma per group of actions
(`PluginsKeep`, `MethodsKeep`, `AttemptKeeps`, `EnterKeeps`, `LeaveKeeps`) has one
step per action.

`BrokenIsError` is about the beginning of a call.  `BrokenInv`: until
`PackageScope` has looked up the description, the state is the request as it was
made (`Straight`), and the pending links are the ones `_resolve` begins with, in
order (`OnWay`), with at most a loop without alternatives in front of them.  An
option that could rewrite the request would need an entry; without one the list
of alternatives is empty.  Then `PackageScope` ends in the error, and `ErrorStep`
keeps it.

`FirstFileWins` compares the whole call with `Tries`, a list that knows nothing of
chains and states: a path stands for its files, then for what is inside the
directory, and a module for the folders from `from` upwards.  The definitions
`Inside` and `Search` recurse over the calls that may still be made, so that a
cycle of main fields is a list too; it ends in `TooDeep`.  The proof reads such a
list from the left: `Ends(A, x)` is what a search that tries `A` comes to if `x` is
what comes after `A`, and `EndsJoined` takes it apart at any place.  `SearchInv` is
the invariant.  Between two links of the chain stands a *note*: what the state
looks like when it gets there, how many calls may still be made, and what the call
answers from there on.  `Agrees(l, a, b)` says what a link owes: its note `a`
answers as the tries of `l`, followed by what the note `b` after it answers.
`Leads` says it of a whole chain, from the note that fits the state and answers
`First(Tries)` to a last one that answers `Nothing`; or else the call has finished
and is `Right`.  A link that pushes others in its place owes notes between them
(`Advance`); a file that is found is the answer of the note in front of it
(`FoundIt`).  There is one lemma per link (`QuietStep` for all that a plain call
passes through, `EnterStep`, `DispatchStep`, `LoadStep`, `LoopStep`, `DirStep`,
`MainStep`, `ModulesStep`, `FindUpStep`, `NodeStep` and so on), and `SearchStep`
goes through the actions.  `CallInv` and `DepthInv` come with it: the notes count
the calls that are left, which `depth` must agree with.  That the recursive
functions satisfy their equations is `InsideSolved` and `SearchSolved`; the lists
of one call for each of several places are taken apart with `FlattenSeq`.  TLC
checks the theorem's statement but not `SearchInv`, which quantifies over notes.

What a call returns for a file it has found is up to the links after the search:
`Closing` (in `CallInv`) says that the pending links end with the one of the
symlinks and the one that loads the result, whatever the search pushes in front
of them, so the answer is the file itself until then and its real path afterwards
(`Right`).

Attempting this proof changed the statement.  An earlier list went one
directory deep: it was right for the worlds of the run and wrong for main fields
that lead to a directory with a description of its own, for two folders of
modules, and for a call too many in front of a file that exists.  The list now
has these, and so has the run (`DeepWorlds`).

*File cache.*  `Inv` says what the times are worth.  `CachedInv`: the cached time
is never later than the time of the cached content, because `read_to_string`
runs after the stat was taken.  `EntryInv` and `CallInv`: the time in a stat
cell that the map has was that of a content since the last `clear_entries`, and
the time a call carries that of a content it may report; a cell of an id nobody
used is empty, so that a new `Entry` does not bring an old time.  `OrderInv`: a
version that is cached or about to be is one that a call may report or is older
than all of those.  A hit is then within the interval of a later content the
call may report.  There is one lemma per action; `AnswerKeeps` serves the three
that end a call, and `BehindKeeps` is the order of versions under every step.
`AloneInv` adds, for one thread, that its entry is the one of the map or that
the map has none: then no stat is older than the cached time.
`PanicExplained` needs to know where a cached time comes from: it is the time in
the stat cell of some entry of the path, so a reader who brings another time has
another entry.

`AnswersCurrent` and `NoPanic` are not invariants in general: the debounce breaks
the first for a `tsconfig.json` and a second thread the second.

*Symlinks.*  `Inv` says which disk each filled cell comes from.  `CellsOK(g, S)`:
every `real` or `symlink` cell of generation `g` has an answer that the disks `S`
explain, and the canonical path if `S` is one disk; `LoopInv`: what the loop of
`resolve_symlink` found so far is a prefix of its goal, and what it has read is
explained by the disks it saw.  The calls that share entries have seen the same
disks, which is what makes a cell that one call fills right for another.  The
refinement theorem then maps each step that sets an answer to `Reply`, the
beginning of a call to `Ask`, `Change` and `Clear` to themselves, and all others
to stutters.

*Tsconfig.*  `CallsInv`: each file on the stack is the one that the file below it
extends, and the bottom is the root.  `TopInv` says what was read of the top, and
`AllRead` that every file of the chain was read once the stack unwinds.  A stack
that is as deep as it may be has more files than there are or the same file twice
(the pigeonhole principle, from the library's theorem about cardinality), and a
file that comes twice makes the chain `Endless`; conversely a chain that is
`Endless` never gets to the end that `AllRead` needs.

`NearestWins` compares the merged value with files that were popped long ago, so
it needs two facts about the whole stack.  `StackIsChain`: position `i` of the
stack has the file `Nth[i - 1]` of the chain, and when the last file returns, the
stack is the whole chain (`StackIsWhole`, again by counting).  `ReadInv`: each
file below the top was read, and the value that a call at position `n` returns
*wins* from `n` on (`Wins`): on each key it agrees with the first of the files
from there to the end of the chain that says anything, and has nothing if none
does.  `MergeDecides` is the step: `merge(a, b)` agrees with `a` on a key of which
`a` speaks, and with `b` otherwise.  It is proved for keys of length two and
three, level by level (`Decides1` to `Decides3`), because the members of a merged
object are merged again.  Agreement is weaker than equality: two objects agree,
and so do a null and nothing.  An induction over the levels of any value would not
be in reach of the provers; that a tsconfig has only three is what makes it one.

`AnswerAllowed` looks back from the answer at everything that was tried.
`PathsInv`: every entry that was taken from the table has no path that is there
(`Tried`), or is the one whose remaining paths are the `queue` (`Rest`); the next
path decides whether `FirstHits` of the entry is its lookup (`RestGoesOn`).  What
is left is that the code and the specification mean the same by a star.
`StarsIs`: the text that `match_star` finds, by comparing lengths, a prefix and a
suffix, is the only one of `Stars`, which says that putting a star in its place
gives the pattern.  `SplicedAt` and `FitsAt` take both to statements about single
characters.

*Mapping and parsing.*  The scanners and `check_target` are recursive functions
over the byte they are at, and `Basics` has what it takes to reason about them:
`Recursion` says that a loop over `1..n` goes through some values, so that the
recursive function of a scanner is one, and `UpTo` is induction up to the length
of the text, stated for a set of numbers because the provers cannot instantiate a
theorem over predicates.
`ScanOK` is the invariant of the loop of `parse_identifier` (where the fragment
and the query began, if they did), `WalkOK` that of `check_target` (the depth is
the number of directories gone down less those gone up, and was never
negative).  `FieldInv` is the type invariant with what each program counter
implies, and `OrderInv` says that the best key so far beats all keys seen so far.
It rests on lemmas about the comparison of keys: `PrecedesBeats` (the comparison
of the code is the order of the specification on keys that fit the request),
`BeatsTransitive`, and `PatternFits` with `FitsCovers` (a key that passes the test
of the code covers the request).

`TargetsExplained` compares loops with a recursion over JSON values.  The
recursive functions `Chosen` and `TargetsOf` satisfy their equations because a
value refers to values of lower `Nesting` only (`TreeRecursion` in `Basics`, which
builds the function rank by rank; `ChosenIs` and `TargetsAre` apply it).
`TargetsInv` is what holds of the list of values still to be mapped: either it is
one value that stands for the same targets as the match and nothing was listed
(`Whole`), or all of it are items of arrays, and what was listed, followed by what
is coming, is all (`Pieces`).  The two differ in what an error does: it ends the
call or is dropped.  Each action replaces the first value by what is inside of it
(`Replaced`) or by what it says (`Swapped`), which takes the laws of `FlattenSeq`
that `Basics` proves (`FlattenConcat`, `FlattenOne`, `FlattenEach`).  While
conditions are searched, `Answering` says what the stack of objects will
find: what the innermost object says from its next condition on, or, if that is
nothing, what the one around it says.  `SaidNext` is the step from one condition
to the next one that applies, `AnsweringPush` and `AnsweringPop` those into an
object and out of it.

Only model-checked, and why:

* Liveness (`CallsReturn`, `Returns`, the promise of an answer in
  `ImplementsRealPath`): out of the prover's reach, as is `ENABLED`.
* `ContextOrModule`: it looks back from the result to the folder that the search
  found it in, through whatever `_resolve` calls came between.  The invariant of
  the pipeline has no such history; it would be `SearchInv` beyond `Plain`.

## 6. Not modelled, and the plan

Every component with logic of its own has a model, and every invariant and action
property of the passing runs but `ContextOrModule` is a theorem.  What would come next:

1. `FirstFileWins` beyond `Plain`: fully specified calls, `resolve_to_context`, and
   descriptions with `exports`.

Not modelled, and why:

* `Resolver::new`: how `enforce_extension` is derived from the extensions and
  where a cache is shared.  A world has the derived options.
* `_resolve` inside `TsConfig` and `FieldMapping` is a table of the world, so a
  `depth` that stays one too high after an overflow inside `extends` is not
  seen there (`Resolve` has it), and a request below `baseUrl` that ended with a
  slash is a path like any other.
* In `Resolve`, the texts of an alias and of a target are names: `LeadsOut` counts
  the directories of plain names, and `CheckTarget` in `FieldMapping` has the
  bytes, dot-names included.
* What the text of a star means when it has a dollar: `TargetMapping` doubles it
  as the code does, `TargetsExplained` leaves such requests out.
* JSON parsing, the wording of errors, tracing, benchmarks and examples: no
  state of the resolver.
* The shards of `DashMap` beyond the order of `clear`, memory reclamation of
  entries, a writer that puts an older modification time on a file, and
  `CachedFS::read_file`, which nothing calls.
