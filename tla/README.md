# A TLA+ model of atomicfile

atomicfile is a Go package that replaces files atomically: a write becomes visible whole or not
at all, says truthfully whether it would survive a power loss, and leaves no litter. These
modules model the part of it where that is decided, the order of system calls and what can come
between any two of them, and check it with TLC and with TLAPS.

Paths below are relative to the repository's source, `src/`.

## 1. The system

| Component | State it keeps | Operations | Who it interacts with |
| --- | --- | --- | --- |
| Write engine: `write.go`, `writeroot.go` | none between calls; in a call a staged temp, its name, an error | `WriteFile`, `WriteReader`, their `InRoot` forms | the directory, other writers in it, sweeps, the context |
| Parent chain (`WithMkdirMode`): `mkdirAllAbs`, `mkdirAllInRoot` | in a call, whether an fsync failed | part of every write | directories other writers create too |
| `PendingFile`: `write.go` | lifecycle state, cached result, byte count, embedded `*os.File`, owned root | `New`, `Write`, `WriteString`, `ReadFrom`, `Truncate`, `Commit`, `Cleanup` | the engine; sweeps; whoever opens the temp by name |
| Stale-temp sweep: `cleanup.go`, `cleanuproot.go` | counts, cutoff | `CleanupStaleTemps`, `CleanupStaleTempsInRoot` | temps of live and dead writers |
| Tree walk: `walkroot.go` | a stack of names | `WalkDirInRoot` | a callback; a tree that changes |
| Pinned parent: `removeroot.go` | one directory handle | `OpenParentInRoot`, `RemoveFileInRoot` | a tree another writer rearranges |
| Openers: `openregular.go` | a descriptor | `OpenRegular`, `OpenRegularInRoot`, `OpenRegularInRootNoFollow` | a name another writer repoints |
| Bounded reads: `read.go`, `readroot.go` | none | `ReadBounded`, `ReadBoundedFile`, `ReadBoundedInRoot` | a file that grows |
| Probe: `probe.go` | a result | `ProbeWritable`, `ProbeWritableInRoot` | the engine's temp creation |
| Private directory: `privatedir.go` | none | `EnsurePrivateDir`, `EnforceMode` | another process at the same name |
| File identity: `identity.go` | one `FileInfo` | `Identify`, `Matches`, `Changed` | the files a cache reloads |
| Options, errors, paths | none | `With*`, `validate*` | all of the above |

The package has no locks and no goroutines. Everything hard in it comes from outside: several
writers, in one process or many, use one directory; a sweep deletes files by name and age; the
file system may fail any call; the context may be cancelled at any moment; the process or the
power may go away between any two steps, and then whatever was not fsynced is gone.

What makes each part correct:

- engine: a target is the old file or the whole new one, also after a power loss; an error means
  nothing was published and a nil error that it was; `Durable` is kept; no temp is abandoned;
  modes and caps are guarantees; symlinks and special files are not replaced; every call returns;
- parent chain: `Durable` covers every directory of the path; only what the call created is
  chmod'ed; nothing depends on a stale look at which directories exist;
- `PendingFile`: it ends once, its answers stay true, an owned root is closed exactly when it is
  no longer needed, no over-cap file is published by any route, the count is the size;
- sweep: nothing but stale temps is removed; counts are exact; a cancelled sweep stops;
- walk: every entry that was there throughout is visited, and visited once, `SkipDir` and `SkipAll` as in
  `fs.WalkDir`; one handle at a time;
- pinned parent, openers: what is operated on is what was inspected;
- reads: never more than the limit, never a silent truncation;
- private directory: the verdict is about the inode the handle holds, only a directory this call
  created is chmod'ed without being asked;
- identity: a reload is never missed by the writers it is documented for.

## 2. The modules

| Module | What it is |
| --- | --- |
| `AtomicRegister` | What a reader of a file is promised: one whole content at a time, replaced in one step, and after a power loss only a content held since the directory was last persisted |
| `AtomicWrite` | The engine, one action per step that can fail or be interrupted, over a file system with volatile and durable state |
| `MkdirChain` | The directories `WithMkdirMode` creates, and their durability |
| `PendingFile` | The life of one `PendingFile` |
| `StaleSweep` | The sweeps, against the writers whose temps they meet and a tree that others rearrange |
| `WalkDir` | `WalkDirInRoot` of a tree that changes, with a callback that answers anything |
| `RootAccess` | The three openers, `OpenParentInRoot` and `RemoveFileInRoot`, one name at a time |
| `Reload` | `ReadBoundedFile` and `FileIdentity` in a reader that caches and polls |
| `PrivateDir` | `EnsurePrivateDir`, several calls at one path |
| `Probe` | `ProbeWritable` and `ProbeWritableInRoot` |
| `AtomicWriteProofs`, `MkdirChainProofs`, `PendingFileProofs`, `StaleSweepProofs`, `WalkDirProofs` | Theorems about the module each is named after; `AtomicWriteProofs` has the refinement of `AtomicRegister` |
| `ReadersProofs` | Theorems about `RootAccess` and `Reload`, the latter as `MCReaders` instantiates it |
| `StartupProofs` | Theorems about `PrivateDir` and `Probe`, the latter as `MCStartup` instantiates it |
| `Iteration` | Lemmas about functions defined step by step |
| `MCAtomicWrite`, `MCMkdirChain`, `MCStaleSweep` | Instances of one module for TLC, with its symmetry |
| `MCWalks` | `WalkDir`, or `StaleSweep`, under fairness |
| `MCReaders` | `RootAccess`, or `Reload` |
| `MCStartup` | `PrivateDir`, or `Probe` |

`AtomicWrite` takes the engine apart and has one directory; `MkdirChain` has many directories and
takes everything from the temp to the rename in one step; `PendingFile` and `StaleSweep` see the
engine only as its temps. Where two components meet, the module of the one has the other as its
environment: `AtomicWrite` and `PendingFile` have sweeps, `StaleSweep` has writers, `Probe` has
both. The last three MC modules show two components that share no state: a variable `shown` picks,
in the first state, the one a behaviour is about, and the other stays as it began. That is a sum of
two instances and adds no interleaving.

Definitions named `...Late`, `...Skipped`, `...Forgetful` and so on, marked *Mutant*, are the
plausible bugs each property was tried against: with the mutant in place of the definition that
follows it TLC finds the property violated. They are not part of any specification.

### AtomicWrite

State of the file system: `entry`, what a name resolves to now; `disk`, what a power loss may
leave there; per file `size`, `mode` and `synced`. A rename or unlink adds to `disk`, an fsync of
the directory (`DirSync`) sets it to `entry` for every name in the directory, and `PowerLoss`
picks one entry per name, independently, and empties any file that was not fsynced. That is
weaker than what journalling file systems do, and is what POSIX leaves open.

State of a call: `pc` says which step is next.

| `pc` | Action | Code |
| --- | --- | --- |
| idle | `Begin` | `WriteFile`, `WriteReader`: `checkWriteCap` refuses an over-cap buffer before anything else |
| open | `CheckTarget` | `openParentRoot`, `openTempForRoot`: context, `checkWriteTargetInRoot` |
| create | `TempCollision`, `CreateTemp` | `createTempInRoot`: `O_EXCL`, the retry bound |
| prove | `ProveOwnerOnly` | `enforceMode(f, 0o600)` under `WithMode` |
| write | `WriteData` | `writeBytes`, `copyReader` with `capWriter`, `readerCtx`, `writerCtx` |
| barrier | `Barrier` | `finalizeTempFile`: context, cap against `fstat` |
| chmod, sync, close | `EnforceFinalMode`, `SyncTemp`, `CloseTemp` | the rest of `finalizeTempFile` |
| rename | `RenameTemp` | `commitTempInRoot` |
| dirsync | `DirSync` | `fsyncRootDir`, `Result.Durable` |
| discard | `Discard` | the deferred `removeTempInRoot` |

Around them `Cancel`, `Sweep` (what `reapStaleTemp` does to a temp, of a live call or not),
`Kill` and `PowerLoss`. Each step may fail where the system call it stands for may.

`call`, `gen`, `stamp`, `floor` and `orphans` are history: which call a file was staged for, in
which order files were published, the newest publication reported durable, and the temp names
that a kill, a power loss or a failed removal was allowed to leave.

Abstractions: content is counted in chunks, since only the number that landed matters; modes are
the four classes a property can tell apart; every file a call stages is a member of `Inodes`, so
`Inodes` bounds the number of calls in a run; every write goes to one directory, and directories
that writes create are `MkdirChain`. A free temp name that a call in flight still owns (its temp
was swept) is not drawn again: nothing in the code rules that out but 64 random bits. The special
file at a target is there from the start, since what others put there between the check and the
rename is outside what a rename can refuse (the comment above `checkWriteTargetInRoot` says so).

### MkdirChain

A chain of directories below a durable one. `depth` levels exist; `kept` are those whose entry is
on disk; `mode` and `modeKept` are each directory's mode and whether that is on disk. An fsync of
a directory persists the entries in it (the next level, and its target) and its own mode. `Scan`
is `deepestExistingDir`, one `Stat` at a time; `Mkdir`, `ProveMode` and `PersistLevel` are
`mkdirLevelInRoot`, `enforceDirMode` and the parent fsync; `Publish` stands for all of
`AtomicWrite` from the temp to the rename; `DirSync` decides `Durable`. `MayFail` names the
system calls that may fail in a run, so that a counterexample can be shown without failures that
have nothing to do with it. `abandoned` is history: the levels whose creator failed to persist
them, or died before it could.

### PendingFile

One handle, used by one goroutine as its documentation asks. `state` is the `pendingState`, with
`none` before `NewPendingFile` and `refused` when it failed. `size` is the staged file's, `offset`
the descriptor's, `written` what `BytesWritten` returns; three numbers, because `Truncate` moves
only two of them. A call that the code rejects (a closed file, a write over the cap) changes
nothing and is not an action. `Commit` is one step, with all the outcomes of the barrier. A sweep
between its steps fails the rename as one before it does. A process that has opened the temp by its
name may write between the `fstat` of the barrier and the rename; what it adds there the code cannot
refuse and the model leaves out, so `CapAtPublish` is about the file as the barrier saw it.
`OutOfStream` lets the caller use the embedded `*os.File` directly.

### StaleSweep

The swept directory, the directories its entries lead to (`at`: a directory, a symlink to another
name, or nothing), and what is under the temp names of each (`entry`). `stale` are the files older
than the cutoff; time does not pass far enough for another to become so during a run.

| `pc` | Actions | Code |
| --- | --- | --- |
| idle | `Start` | `CleanupStaleTemps`, `CleanupStaleTempsInRoot` |
| walk | `OpenDir`, `ReadBatch`, `Visit`, `Finish` | `reapDir`, `reapTree` over `filepath.WalkDir`, `WalkDirInRoot` with `rootSweep.visit` |
| pin | `Pin` | `OpenParentInRoot` |
| look, remove | `Look`, `Remove` | `reapStaleTemp`, `reapStaleTempInRoot` |

A `ReadDir` returns any of the entries not yet read, with the type each has at that moment, so a
directory may have become a symlink by the time it is opened; a name that comes back after it was
read is not read again (`WalkDir` does without this). The order in which entries and directories are taken is left open, which
covers the order of each form. `Pin` is one step: what it opens was the directory at that name
when it was inspected, and a name that has changed since is refused. `Put`, `Take` and `Touch` are
the writers, `Rearrange` whoever moves directories. What does nothing is not an action: a missing
directory, a `maxAge` that is not positive, a nil root.

`steady`, `looked`, `reaped` and `risked` are history: the old temps that were there all through a
call, the entry inspected and about to be unlinked, the files unlinked, and the files that came
under an inspected entry before it was unlinked, the window the comment above `reapStaleTemp` says
cannot be closed.

Writers' temps are regular files, so no special file comes under such a name anew: `Put` brings
none. One that is there may go.

### WalkDir

A path is the sequence of its names. `pending` is the stack of `rootWalk.run`, `place`, `handle`,
`seen`, `batch`, `after` and `subdirs` are what `streamDir` and `visitBatch` hold of the directory
being read.

| `pc` | Actions | Code |
| --- | --- | --- |
| start | `Start` | `run`, before its loop: context, the root's own entry, the callback's answer to it |
| next | `OpenDir`, `Finish` | the loop of `run`: pop, open by name; a failure goes to the callback (`reportDirFailure`) |
| read | `ReadBatch` | `streamDir`: context, one `ReadDir` |
| visit | `Visit`, `BatchDone` | `visitBatch`: one entry and the callback's answer; then what the `ReadDir` said |

The callback answers anything to anything: nil, `SkipDir`, `SkipAll`, an error. A directory that
waits on the stack is opened by its name when its turn comes, through whatever symlinks are there by
then, as `Root.Open` does. `steady`, `cut` and `pruned` are history: paths whose entry never
changed, directories left early, directories to which the callback answered nothing but `SkipDir`.

Readdir owes what POSIX says it does: `due` are the names that were there when the directory was
opened and have stayed, which must all be returned before the end is reported, and `seen` those
returned, which are not returned again as long as they stay. A name that is made, removed or
replaced meanwhile may be returned or not, and may be returned again although it was before
(`Change` takes it out of both); the walk keeps no memory of names, so the callback may then meet
one path twice, once as a file and once as a directory, and answer differently. `VisitedOnce` is
therefore about entries that stay. Each `ReadDir` gives an entry the type it has at that moment:
what the runtime has buffered from an earlier system call counts as read when it is returned.

### RootAccess

One call at a time; the tree is a function from slots (a directory and a name) to objects. An
`Lstat` of a name and the open of it are two steps and anything may happen between them; an open and
the `fstat` of what it returned are one, since what a descriptor is open on does not change.
`Inspect` and `Open` are the openers, `Pin` and `Enter` one component of `pinChildInRoot` (its
`Lstat`; its `OpenRoot` with the comparison of `.`), `Look` and `Unlink` the end of
`RemoveFileInRoot`. `OpenRoot` has no `O_NONBLOCK`, so `Enter` may leave the call at `wait` when a
FIFO has come under the component since its `Lstat`, and only `OtherEndOpens`, which nobody owes,
ends that. `Change` is everybody else: it creates, replaces, moves and removes. Symlinks
lead to one name of the root, `Alias`; a path of three names by way of one leads through two
directories.

### Reload

The polling loop of `docs/reload-staleness.md`: `Poll` is a stat that `Changed` takes for news,
`Open` and `Info` (`Identify` of the open file) begin the load, `Size`, `Read` and `ReadEnd` are
`ReadBoundedFile`, its `io.ReadAll` read by read; `Fail` is an error of any of the system calls. A byte is the generation that wrote it, so that a mixture of two
writes can be seen. The clock is coarse: several writes fall into one tick. `Publish` renames over
the name, with the present time or one carried from earlier (`cp -p`), `Rewrite` truncates and
writes in place. Addition wraps at `Widest`, as on `int64`, and `SaturateAdd` is translated with
the wrap. An inode number is free again once no name and no descriptor holds it. `spoiled` is
history: it marks the identities whose inode took other content without its time changing.

### PrivateDir

Several calls at one path. `Mkdir`, `Open` (with `O_DIRECTORY` and `O_NOFOLLOW`), `Label`
(`refusedOccupant`), `Check` (`statOwnedDir` and the decision), `Chmod` and `Readback`
(`EnforceMode`) are one step each; between any two the path may be repointed, a mode changed by the
owner, the process killed. Modes are the three classes a decision turns on: exactly 0700, less than
that, something for others. A new directory gets any of them, and `fchmod` may store any of them.
`trusted` and `misled` are history: directories answered for, and calls whose path was exchanged
between mkdir and open.

### Probe

`Begin`, `MkdirAll`, `Pin`, `Remake`, `Create`, `Prove` and `Discard` before there is a temp to answer
for (`Remake` is the engine's own `MkdirAll`, of `.`, below the handle that `ProbeWritable` opened),
`Write`, `Sync`, `Close` and `Remove` with it; `Record` is `recordTeardown`. `OtherRemoves` is a
sweep, `OtherMoves` whoever renames the directory. `ProbeWritable` works below a handle it keeps,
`ProbeWritableInRoot` names the temp by its path each time, so only the second can lose it. `lost` and
`absent` are history: a temp given up without a report, and a removal that found nothing.

## 3. The runs

| Run | Configuration | Shows |
| --- | --- | --- |
| `engine_race` | 2 writers, 1 target with an old file, 2 temp names, a collision bound of 1; one plain write and one with mode and cap | safety of the engine under every interleaving, and refinement of `AtomicRegister` |
| `engine_kinds` | 1 writer, a regular and a special target, the three kinds of call with contents below, at and above the cap, 1 temp name, a collision bound of 2, fair | `WithMode`, `WithMaxBytes`, refused targets; every call returns |
| `mkdir_race` | 2 writers, 2 levels, 2 publications, every failure | what the parent chain guarantees to several writers |
| `mkdir_retry` | 1 writer, 1 level, failing fsyncs | violation: a false `Durable` on retry |
| `pending_life` | caps 0 and 2, sizes to 3, in and out of the stream | the life of a `PendingFile` |
| `pending_count` | caps 0 and 3, sizes to 6, in the stream | violation: `BytesWritten` |
| `sweep_race` | a sweep of each of the four forms, 2 names for 2 directories, 1 temp name, a regular file and a special one, rearranged | what a sweep removes, counts and admits when the tree changes under it |
| `sweep_cancel` | 1 flat sweep by path, 2 temps | violation: cancellation |
| `sweep_link` | 1 recursive sweep by path of a symlinked directory | violation: nothing is swept |
| `walks` | 1 walk of two trees of 2 directories and 2 names, 2 changes; or 1 sweep of each form with 1 directory and 1 file, any number of changes; fair | the walk's order, skips and completeness; walks and sweeps return |
| `readers` | 1 call of each opener and of the removal, 2 directories, a file, a FIFO, a symlink, paths of 1 and of 3 names, any number of changes; or 1 polling reader, 3 inodes, 2 writes, 2 ticks, integers to 2; fair | openers and removal are not led astray and answer what is so; cached content is current |
| `startup` | 2 calls of `EnsurePrivateDir`, 2 directories, a file, a symlink; or 1 probe with up to 2 more names | verdicts about private directories; what a probe reports |

Why these bounds are enough to meet the hard cases. Two writers suffice for one to publish, fsync,
sweep or create between any two steps of the other; a third adds no kind of interference, since a
step of a call depends on the others only through the directory. Two temp names and a bound of one
retry give a collision, a successful retry and an exhausted one. Two publications give a newer and
an older content. Two levels give a level between the first and the last. Two directories allow one
to be swapped for a symlink to the other between any two steps of a sweep, a walk or a descent, and
two changes allow it to be swapped back. A path of three names has a component whose parent was
itself descended into. Sizes to one more than the cap give the exact fit and the crossing. The
largest integer of the `readers` run is itself one of the limits, which is where `saturateAdd`
saturates. Two writes and two ticks give two contents with one time, and with two; the third inode
lets a number come free and be used again. Writers, calls, directories, and temp names are declared
symmetric only where nothing but safety is checked. The proofs of section 5 have no bounds.

In `sweep_race` there is one sweep; others that race it are its environment, whose `Take` and
`Touch` are what another sweep or a writer does to an entry. That several sweeps count each file
once is proved for any number of them.

`pending_life`, `pending_count`, `walks` and `readers` do not check deadlock: a refused handle or
one at its end, a walk that has returned and whose changes are used up, really may do nothing more.
In the others something is always possible.

The names of an instance are finite, so a directory cannot grow for ever under a sweep;
`SweepReturns` is about what comes and goes under those names. `WalkReturns` holds because others
change the tree a bounded number of times: a walk of a tree that someone keeps deepening below it
need not return, and the code does not promise that it does. `SweepReturns` is about trees without
FIFOs among the directories: the confined sweep pins its parent with the very `OpenRoot` that
`CallReturns` excepts, and is promised no more.

**Fairness.** `engine_kinds`, `walks` and `readers` assume weak fairness of the steps of the call
they follow, and nothing else: a goroutine that has called a function keeps running, and the system
calls it makes return, with success or an error. A callback of a walk is assumed to return, an open
with `O_NONBLOCK` (the openers, the walk) not to wait. The one open without it that others may put a
FIFO in the way of, `pinChildInRoot`'s `OpenRoot`, is not assumed to return; that it may wait is what
`CallReturns` excepts. Nothing is assumed of sweeps, cancellations, kills, power losses or
other writers, and which of its outcomes a step takes is never assumed: in particular a collision
may happen every time, and the call returns only because the retries are counted. `CatchesUp`
needs no fairness of writers: it says what holds from some point on, and writes are finite in number;
nor of the file system: it asks only that loads do not fail again and again.

## 4. Where the code and its documentation part

Four runs end in a counterexample, each of a sentence the repository says of itself.

- `mkdir_retry`, `DurableSurvives`. `mkdirAllInRoot` fsyncs only for levels the call created. The
  parent fsync fails, the write says `Durable = false`, the caller retries as `docs/durability.md`
  and the README advise, and the retry, which finds the directory, says `Durable = true` without
  having fsynced anything for it. `Result.Durable` is documented as true "only when the file and
  every directory its path depends on were fsynced". With two writers and an empty `MayFail` the
  same property is violated without any failure: a writer finds the level another has just
  created, and reports `Durable = true` before that one's fsync.
- `pending_count`, `BytesWrittenIsSize`. `Truncate` sets the count and leaves the file offset, so
  a `Write` after it lands where the count does not say. Shrinking and then writing makes the
  staged file larger than `BytesWritten` (and under a cap larger than the cap, which `Commit`
  then refuses); growing makes it smaller.
- `sweep_cancel`, `StopsBetweenEntries`. The comment on `CleanupStaleTemps` says the walk stops
  between entries once the context is done. The flat sweep looks at it between batches of 128
  only, as the comment on `reapDir` says, so it goes on with the rest of a batch.
- `sweep_link`, `NothingLeftUnsaid`. `filepath.WalkDir` does not follow a symlink it is started
  on. `CleanupStaleTemps` with `WithRecursive`, given a symlink to a directory, therefore removes
  nothing and reports zero counts and no error; without the option it sweeps the directory.

What holds instead is checked by the passing runs: `DurableButForOthersLevels` (a durable write is
lost only with a level that another call created and did not persist), `OwnLevelsKept` (a call
persists what it created itself), `CountIsSize` (the count is right until the file is resized or
written around), `StopsUnlessFlat` (the other three forms stop at once), and `NothingLeftUnsaid`
where the path is not a symlink.

Five more places came up in modelling where a property holds only with an exception, which it
names; all but the last are sentences of the repository that are not quite so.

- `walkroot.go:24` says that a symlinked directory is never descended. A directory that is queued and swapped for a
  symlink before its turn is descended into through it (inside the root). The walk's properties
  hold all the same; the confined sweep pins its parent and refuses.
- `privatedir.go:110` says a level that pre-existed is never chmod'ed. If what is at the path is
  exchanged between mkdir and open, `EnsurePrivateDir` takes the other directory, if it is this
  user's, for the one it made. `FoundDirsKept` leaves out the calls in `misled`.
- `docs/reload-staleness.md`, row 1 of its table: of two renames in one tick the second temp may be
  given the inode number the first one freed, and then number and time are equal. `spoiled` covers
  it, together with the rewrite in the same tick that the document names.
- `ProbeResult.Leaked` is false for a temp that could not be proved owner-only and then not be
  removed, and for one whose directory was renamed away; `lost` in `LeakedIsTrue` is these two. It
  may be true of a temp that a sweep took, if the removal then fails otherwise than for want of it.
- `walkroot.go:146` opens directories so that no FIFO swapped in for one can hold the walk. The descent
  of `OpenParentInRoot` and `RemoveFileInRoot` (`removeroot.go:123`) has an `Lstat` before its open but
  no such flag on it, so a FIFO without a writer that comes between the two may hold the call.
  `CallReturns` excepts a removal that waits in a tree others changed.

## 5. The proofs

Every module of the code has its theorems, and every safety and action property that a passing run
checks is one of them. They hold for every value of the constants: any number of writers, sweeps,
calls, directories, names, files and levels, any tree and any depth of it, any caps and any width
of the integers. The assumptions on the constants are named in the modules and evaluated by TLC in
the runs. Those about `Reload` and `Probe`, which are only instantiated by the modules that are
run, are in the theorems: `Sound` (there is room for a byte, the bounds on writes and ticks are
numbers, no inode is "no inode"; the limits are all the integers there are) and `MaxTries \in Nat`.
The theorems are about the `Spec` of each component; the `AnySpec` of `MCWalks`, `MCReaders` and
`MCStartup` only picks one of two of them.

The argument has the same form everywhere: an inductive invariant `IInv`, one lemma or step per
action that it is preserved, and theorems that cite it. The properties are seldom inductive alone;
what is added says why each step is safe.

**Recursion.** Where a path leads, which paths a tree has, and where a descent ends are recursive
functions of the code's data, and the prover has no induction rule it can use on them. `Iteration`
does without: `LeastNumber` (from the well-foundedness of `<` on the naturals) gives every nonempty
set of numbers a least element, so that an induction becomes a search for the least exception,
which there is none of; `FollowsSome`, `FollowsUnique` and `Iterates` then give existence and
uniqueness of a function defined step by step. From them come `TrailIsFollowed`, `BelowIsFollowed`
and `PinTrailIsFollowed`, which say that the functions of `WalkDir` and `RootAccess` satisfy their
defining equations, and everything else goes by those equations.

**AtomicWrite**: `TypeCorrect`, `NeverTorn`, `DurableIsKept`, `VerdictsAreTrue`,
`TempsAreExplained`, `ModesAreProven`, `CapsHold`, `SpecialIsKept`, and that the engine implements
the register (`Implementation`).

- `FileInv`: a call stages a file of its own, and nothing is on the disk that was not staged;
- `TempInv`: a temp name belongs to at most one call and leads to that call's file, or nowhere if
  it was swept. Without it a rename could publish somebody else's half-written temp;
- `StageInv`: before its rename a call's file is at no target, now or after a power loss; past the
  barrier it is complete, past the fsync it is synced. This is what makes `WholeFile` survive the
  rename;
- `OrderInv`: renames are numbered, and a call between its rename and its directory fsync is no
  newer than its target. This is what makes `DurableSurvives` survive another writer's fsync;
- `ModeInv`, `DiscardInv`, `SizeInv`: the mode was proved before the fsync; a removal follows only
  a decided failure; nothing is written past the content.

For the refinement, `TargetEffect` says what a step can do to the targets, `MappingIsExact` that
nothing at a target is torn, so that the mapping is exact, and `RefinementStep` matches each step
with a publication, a persist, a power loss or a stutter. `SpecialIsKept` needs one more invariant,
`SpecialInv`: a special file at a target is the only thing its directory entry can fall back to,
and no call that has passed the check has one before it.

**MkdirChain**: `TypeCorrect`, `NothingIsMissing`, `DurableIsProven`, `OwnLevelsAreKept`,
`FoundAreKept`. `CreatedInv`: the levels a call created exist, are nobody else's, and lie above the
one it looks at. `CoverInv`: every level is persisted, given up, or in its creator's hands; with
`FileInv` (no target falls back to something older than was reported durable there) that is
`DurableButForOthersLevels`. `OwnInv`: a call that may still report durable has persisted what it
created but for the level in hand, whose entry and mode the next fsyncs persist. `FoundInv` and
`LevelInv` say what is on disk as it was found, and where a call looks.

**PendingFile**: all five properties of `pending_life`, `TypeCorrect` and `DecidedOnce`. Before
`NewPendingFile` there is nothing (`StartInv`), only Commit records an outcome, and its answers are
those of the state (`AnswerInv`), and a root is the handle's to close exactly while it may need it
(`OwnerInv`). `LandKeepsCount` and `StreamStep` deal with the calls of the stream together.

**StaleSweep**: `TypeCorrect`, `LivingAreSpared`, `CountIsProven`, `NothingIsUnsaid`,
`StopIsProven`. `LookedInv`: what lies under the name a sweep is about to unlink was fit to be
removed when it was inspected, or came there since, and the name is still the same unless
directories were moved under a sweep by path. `GoneInv`: what was unlinked is nowhere, so that
each file is counted once. For `NothingIsUnsaid` the invariant follows every old temp through the
walk: it is `Ahead` (its directory queued, or open and the name unread, or in the batch, or in
hand) or it is behind, gone or counted as failed (`BehindOK`); `SteadyOK` says that a temp which
was there throughout is found where the sweep looks for it. The theorem assumes that the path is
not a symlink; `sweep_link` shows why.

**WalkDir**: `WalkTypeIsProven`, `OnceIsProven`, `MissedIsProven`, `OwnFirstIsProven`,
`SkipsAreProven`, all from `WalkIsProven`. The invariant has two halves.

- `OnceInv`: of the queued directories, those met in the directory being read, and that directory, the
  ones that never changed (`Fixed`) lie apart from each other (none is or lies under another), and
  under none of those queued was anything lasting visited (`Untouched`, in `QueueInv`, `PlaceInv`,
  `SubdirsInv`); what lasts in the batch was read and is not visited yet (`BatchInv`). A name may come
  up again only if it was removed, and then neither it nor anything by way of it is steady any more
  (`KeptIsElsewhere`, `OnceChange`), so nothing steady comes up twice. That nothing comes up under a
  directory that was only ever skipped is about all paths: such a directory is never queued, and
  `Prune` forgets it once the callback lets it pass.
- `SteadyInv`, `Covering`: an entry that never changed, under directories that never changed, is
  still reached by its path (`NamesAreSteady` for the tree the walk begins in, `SteadyKept` for
  every change), the directory that is open is the one it lies in (`HandleInv`), and readdir
  gives the type it has (`TypesInv`), so that its directory is queued and not taken for a file; and as long as the directory is read its
  name was returned or is still due (`DueInv`). So
  it is known to the callback, excused, or ahead (`CoverInv`): under a queued directory, or unread,
  in the batch or under a directory just met of the one being read. At the end nothing is ahead,
  which is `NothingMissed`; and where the walk descends nothing beside it is left, which is
  `OwnEntriesFirst` (`SiblingInv`).

`DirsAssumption`, that there are finitely many directories, gives `PathsOf`, which goes as deep as
there are directories, a depth to go to.

**RootAccess**: `TypeCorrect`, `OpenersAreProven`, `RemovalIsProven`; `HandedOut` and `StillThere`
tie what was inspected to what is opened and unlinked. `AnswersAreProven` states the action
property `AnswersAsPromised`, for paths of any length, from `AnswerInv`: in a tree that nobody
touched a descent holds the directory that the names walked so far lead to (`Descended`), and what
was found there is what is there (`AsFound`). `PinnedIsStuck` is the lemma that a way which meets
something other than a directory ends there, so that the answer given at once is the answer about
the whole path.

**Reload**: `LoadTypeCorrect`, `FreshIsProven`, `LimitIsProven`. `ReadInv`: what was read is the
beginning of the open file unless it was rewritten, `CacheInv`: what is cached is the whole of the
inode it was read from unless that was rewritten. `LimitIsNext` is the lemma about `saturateAdd`.

**PrivateDir**: `TypeCorrect`, `VouchedIsProven`, `FoundIsProven`. `Exist`: no mkdir makes anew a
directory that is found, held or relied on; `Decided` and `MadeIsHeld`: what a call that goes on to
`EnforceMode` knows of the directory it holds.

**Probe**: `ProbeTypeCorrect`, `LeakedIsProven`, `StageIsProven`; `FailedInv` says which failures can be
on record at each step, so that a removal that finds nothing adds none of its own.

Only model-checked are the liveness properties `CallReturns` (of `AtomicWrite` and of
`RootAccess`), `WalkReturns`, `SweepReturns` and `CatchesUp`: fairness, and ENABLED in it, is
beyond the prover.

## 6. What is not modelled

- Validation of paths and names (`ValidatePath`, `validateAbsClean`, the shape of temp names): pure
  functions from a string to an error or a verdict, called before anything is touched. Their table
  tests cover what a model would.
- Wording and wrapping of errors, logging, the platform stub that only returns an error.
- What a file system does beyond POSIX: journalling orders, network file systems whose handles go
  stale.
- Identity of files is exact in `RootAccess`: a file given the very inode number of the one
  inspected, which `os.SameFile` would pass, is left out. `Reload` has such numbers, since there
  the code compares them across time.
- Reads of `ReadBoundedInRoot` open as `OpenRegularInRoot` does, which is `RootAccess`; the rest of
  it is `Reload`.
- Sizes of batches (128) and of chunks: batches and reads are of any size.
- The trees of the runs are two directories deep. Nothing in the walk, the descent or the sweep
  depends on the depth but the stack, which `WalkDir` has, and the components of a path, which
  `RootAccess` takes one by one; the proofs about `WalkDir` and `RootAccess` are for every depth
  and every path.
