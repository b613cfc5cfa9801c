# A verification development of shadox

shadox runs an untrusted command in a sandbox, over a workspace it
checkpoints before and after, journals, and may roll back. This directory holds
TLA+ models of its core, TLC configurations that check them on small
instances, and theorems checked by TLAPS. Paths below are relative to the
repository; `vfs` is `src/src/versioned_fs.rs`, `linux` is
`src/src/runner/linux.rs`, `fuse` is `src/src/fuse_adapter.rs`.

## 1. Inventory

| Component | State it keeps | Operations | Hard behaviour | What makes it correct |
|---|---|---|---|---|
| Content-addressed store (`vfs` 503-560, 881-1024, 1092-1161) | `.shadox/fs`: objects by SHA-256, checkpoint manifests, `refs/head` | create_checkpoint, commit, gc, log, status, verify | no lock: several processes interleave; files are written in place, so a death leaves them torn; gc decides by a list it took before | gc keeps what checkpoints need, deduplication never takes a part of an object for the whole, the head never dangles, a snapshot is the workspace |
| Rollback and op-restore's copy (`vfs` 561-620, 1509-1543) | the live workspace | rollback, replace_workspace_from_dir | removal and rebuild in place without undo, death between any two calls, symlinks, kinds that changed, read-only files and directories, unreadable entries | Ok means restored; ignored paths are left alone; errors have known causes |
| Diff, rename detection, run journal, replay (`vfs` 184-208, 677-746, 1163-1236, 1359-1399, 1579-1688) | `journals/<run>.jsonl` | diff, write_journal, read_journal, replay_journal | events applied one by one under a limit; a journal read while it is written; several equal files | replaying all gives the after checkpoint; a prefix mixes nothing |
| Operation journal and compaction (`vfs` 210-294, 748-798, 914-930, 1272-1356) | `operation-journals/` and `compacted/` | append_operation_event, compact_journal_file, read_operation_journal | the file moves under a writer and a reader; death inside a line; two sessions of a run, one after the other or at once | one base, acknowledged events stay readable, no event behind a torn one |
| Operation replay (`vfs` 799-880, 1400-1508) | a destination directory | op-replay, op-restore, validate_operation | an event is applied to bytes and modes the recorder saw in another tree; payload objects may be collected; the first event that fails ends it | replay does what the recording adapter did |
| Workspace transaction (`vfs` 443-480, 1026-1084) | checkpoint_before of a run | begin_run, finish_run | any of its steps may fail after others took effect | commit only on success; the outcome it reports is what happened |
| Runner (`linux`) | the child and its tree, threads, report, summary file | run, wait_for_child, kill_process_tree, sampler and reader threads | processes fork, detach and exit while they are being killed; deadline against exit; threads joined before the report | a timeout never commits, the report is complete, the summary truthful, a timed run ends |
| Trace and observer (`src/src/trace.rs`, `observer.rs`) | the event file, sequence number, findings | emit, on_event | three threads emit; an observer error is an error of emit | run.summary is the last event, no finding is lost |
| Classification, diagnostics (`config.rs`, `diagnostics.rs`, `linux` 823-912) | none | classify_failure, diagnostic_hints | order of the rules | timeout first, then exit status |
| Recording FUSE adapter (`fuse`) | an inode table, the workspace, the operation journal | lookup, create, write, rename, unlink, ... | the operation is applied, then its payload stored, then its event appended, and each may be cut short; handlers follow symbolic links that checkpoints skip; renamed directories keep stale inodes; a commit or a remount closes the journal to the session | an inode leads to its file; the journal replays to what the workspace is |
| Sandbox (Landlock, seccomp, rlimits; `linux` 411-814, `config.rs` 40-86) | the ruleset between its preparation and the exec | effective_policy, PreparedSandbox::prepare, child_pre_exec | one rule that cannot be added takes all of them away; the restriction, the warning and the spawn are steps that fail apart | a command that no grant covers runs restricted, or the trace has said that it does not |
| Command line, reports (`main.rs`, `report.rs`, `lib.rs`, `metadata.rs`) | none | argument parsing, JSON | | |

How they interact. `run` emits through the trace, begins a workspace
transaction (a checkpoint), spawns the command, and finishes the transaction: a
second checkpoint, the diff and its journal, then commit (head and compaction)
or rollback. The FUSE adapter records operations under a run id into the
operation journal, which `fs commit` and checkpoints with a source run compact.
Every `fs` command is a process of its own on the same `.shadox/fs`; nothing
takes a lock.

## 2. Modules

| Module | Models | Instance | Proofs |
|---|---|---|---|
| `ObjectStore` | store, checkpoints, head, gc | `MCObjectStore` | `ObjectStoreProofs` |
| `WorkspaceRestore` | rollback, op-restore's copy | `MCWorkspaceRestore` | `WorkspaceRestoreProofs` |
| `RunJournal` | diff, renames, run journal, replay | `MCRunJournal` | `RunJournalProofs` |
| `OpJournal` | operation journal, compaction | `MCOpJournal` | `OpJournalProofs` |
| `RunLifecycle` | runner, transaction, trace, sandbox set-up | `MCRunLifecycle` | `RunLifecycleProofs` |
| `WorkspaceOps` | file operations, their events, apply_operation_event | by `RecordingFuse` | `WorkspaceOpsProofs` (lemmas) |
| `RecordingFuse` | the recording mount, op-replay, commit and gc beside it | `MCRecordingFuse` | `RecordingFuseProofs` |
| `RecordedWorkspace` | abstract: what the mount promises | by `RecordingFuse` | |

In every module one action is one system call, or one stretch of code that no
other actor can observe half done. The mutated forms that TLC must refute stand
before the definition they replace, under a comment that begins "Fault:". They
are no part of the specification.

**ObjectStore.** A variable per kind of file (`objects`, `manifest`, `entries`,
`parent`, `head`) and, per process, the local state of the call it is in.
`ReadFile`/`FileVanished` are the walk, `ReuseObject`/`MissObject`/
`CreateObject`/`WriteObject` are store_bytes, `CreateManifest`/`SealManifest`
are write_checkpoint, `TruncateHead`/`WriteHead` are the `fs::write` of the
ref, `BeginGc` .. `FinishGc` are gc. `linked` tells a writer whose file gc has
unlinked from one that still has a name. `Fail` is death or an I/O error at any
call. An object is named by its content, so the content stands for the hash;
size, hash and object are one value. The read of the head and the start of the
walk are one step, and read_dir returns what was there when it was opened.

**WorkspaceRestore.** `tree` is the live workspace, `target` the manifest.
`Begin` takes the list of the removal phase (rollback: what the manifest does
not have; op-restore: everything), `Remove` its calls, `MakeDir`, `OpenFile`,
`FillFile`, `SetMode` the rebuild, in which every copied file passes through an
empty one. `target` is a checkpoint for rollback; for op-restore it is the tree
op-replay built in a temporary directory, which may have ignored paths, since
events are not filtered and copy_tree (1521-1543) does not ask should_ignore.
Modes are in `locked`, the directories without write permission, the
workspace's own (`Root`) among them, and `unreadable`, the files and directories
the process may not read; `Privileged` makes them void. A walk that meets an
unreadable entry ends the operation in `Begin`; `RefuseRemove` is a removal in
a locked directory, which may have taken some of what is below with it;
`Refuse` is a call of the rebuild that must fail: create_dir_all on a file or in
a locked directory, copying over a directory, over a read-only file, or in a
locked directory. fs::copy gives the file the mode of its source, which for
op-restore may be read-only already (`SourceMode`), before `SetMode`. `Die`
ends the process anywhere; any operation may then be started on the rest.
Symlinks are leaves (a link to a directory is not traversed).

**RunJournal.** `Changes(base, target)` is diff_manifests followed by
detect_renames, written as a set of events with the pairing given by rank among
files of one fingerprint, which is what the code's queues compute. The journal
grows line by line, in order; replay may start at any moment and skips any set
of events: a superset of the two limits, since `ts` need not be monotone.
`Materialize` is write_checkpoint_to_root in one step, to an empty directory.

**OpJournal.** Files are inodes and the two names point to them, so that a
recorder keeps writing to a file that was renamed or unlinked after it opened
it. There is any number of recorders: `fs mount --run-id` may be given the same
id twice (`src/src/main.rs` 216), and nothing locks the journal. Each has a base
of its own, dies and resumes with the same or another. A line passes through
"torn" (JSON not complete), "open" (no newline) and "whole"; bytes of two events
make it "mixed", and "bad" once a newline ends it. The JSON is written in two
steps, the newline in a third, and each lands wherever the file then ends, so two
appends mix their bytes. Every exists, open, read, write, unlink and rename is its
own action.

**RunLifecycle.** `pc` is the main thread; `sampler` and `reader` are threads
(the two pipes are one). The command is a set of processes with parent,
process group and the pipe they hold. They may fork, leave the group, close
the pipe, write, edit the workspace and exit at any moment. `ReadStat` reads
/proc one stat file at a time, so the sample the kill works from may be stale.
An error of `emit` in the main thread leaves `run` at once, as the `?` does;
the threads ignore it. Checkpoint, commit and rollback are single steps here
(the other modules take them apart). A failing commit may have moved the head
already, and a failing rollback leaves a mixed workspace. Pids ascend and are
not used twice; status "bad" is a non-zero exit or a signal; what processes
left behind do after shadox has ended is not followed. `sandbox` follows
Landlock from `Prepare`, which takes what `Preparable` makes of the effective
policy, through `EmitDegraded` and `EmitPolicy` to `Spawn`, where the child is
`Restricted` before its exec. `Edit` is a write, creation or removal: what
write_access_mask (638) asks every Landlock version to govern. `Chmod` is a change
it does not govern: modes and owners under any version, truncate(2) under the
first two. Whether a restriction holds once it is made is the kernel's.

**WorkspaceOps.** A tree maps paths of one or two names to nodes with bytes and
a read-only bit. The first part is the file system as an unprivileged process
meets it (external), with the symbolic links a workspace may have: `Entry`
and `Real` are where a path leads without and with a link at its end, and
`Reaches` says that it leads anywhere; `Event` .. `ChmodEvent` are the records of the journal;
`Overwrite`, `CanApply` and `Apply` are apply_operation_event arm by arm. The
adapter writes in place (`WriteAt`) and the replay reads, pads, overlays and
writes back (`Overwrite`): they are two definitions, and that they agree is part
of what is checked. A payload is applied only if its object is whole, which is
what the check of its length (1434) comes to. `Seen` is what a checkpoint has of
a tree: no ignored path, no link, no mode of a directory.

**RecordingFuse.** fuser serves one request at a time, so a handler is up to
three steps: its change of the backing directory and of the inode table, the
payload of a write (`StoreBytes`), and the append (`Record`). Between them the
adapter may die, gc may run, and another process may commit the run, which
closes the journal. `Interrupted` is what a death (`Die`) or an I/O error
(`RecordFails`) leaves of the second half: nothing; part of a payload, which is in
`torn` and which a later write of the same bytes takes for the whole, as
store_bytes does; part of a line, which makes the journal unreadable (`tail` =
"torn"); or a line without its newline ("open"), behind which the next event is
lost with it (`RecordGlued`). setattr with size and mode is two such handlers.
`Mount` stores the files of the base checkpoint and `Mounted` writes its manifest,
and gc may run in between; `Unmount` makes the last one, and `CheckpointFails` is a
death or an error in either, with an object left in part. A second mount under
the same run id has another base, so that every append of it is refused once
there are events. Two mounts at once are in `OpJournal`.

Every handler acts where its path leads (`Real`, or `Entry` for those that treat
a link itself), while the event and the inode table have the path the client
used. `Noted` sets `sound`, the number of events before the first change that has
no event or not one with its own name, when the two differ.

`replay` is an op-replay: it reads the journal and materializes its base
checkpoint when it starts, which fails on a torn line or a missing object and
copies a torn one as it is, then applies event by event against the objects the
store has by then. What the clients know of the inodes (`meant`, `strayed`),
`sound` and `collected` are history. `Commit`, `Gc` and the read of the journal
are single steps; `ObjectStore` and `OpJournal` take them apart.

**RecordedWorkspace** states docs/versioned-workspace.md:189 ("time travel
becomes checkpoint + redo[0..seq]"): a list of versions to which every operation
adds one, none of which ever changes, and recoveries that yield the version
asked for. `RecordingFuse` implements it under this mapping: `tree` is what a
checkpoint would see of the backing directory; `versions` is the history
variable `redone`, to which each recorded event adds what its application to
the version before yields (`NoTree` where it cannot be applied); `link` is
"applied" between the two halves of a handler; `recovered` is the destination of
a replay that has ended, on a base whose objects are whole. The abstract `Record` appends the *live tree*, so the
refinement fails as soon as one event, applied to the version before it, is not
what the adapter did. From the first change that is not recorded, or recorded under the
name of a link, or an event on an ignored path (below), `link` is "lost" and only
the versions so far are promised.

## 3. Runs

| Run | Expect | Question |
|---|---|---|
| `store` | pass | What do gc, deduplication, the head and snapshots guarantee when two processes work at once and die anywhere? |
| `store_gc_race` | violation | `gc` removes only what no checkpoint references (versioned-workspace.md:138): not a checkpoint created beside it. |
| `store_torn_object` | violation | Checkpoints can be reconstructed (versioned-workspace.md:32): not after a writer died inside an object. |
| `restore` | pass | Does Ok mean restored, after any deaths and retries, and what causes an error? |
| `restore_symlink` | violation | ... not with a symlink where the checkpoint has a file. |
| `journal` | pass | Does replay reach the after checkpoint, and what does a cut leave? |
| `journal_prefix` | violation | Every prefix of a journal can be replayed (agent-contract.md:113): not between a directory's change of type and the deletions below it. |
| `opjournal` | pass | Do acknowledged operations of two mounts under one run id stay, in one base and in order, through deaths and compaction? |
| `opjournal_race` | violation | Compacted journals are resolved (agent-contract.md:87): not after two compactions at once. |
| `run` | pass | What is killed at the deadline, what do the report and the summary say, does the command run restricted, and does the run end? |
| `fuse` | pass | Do inodes lead to their files, and does every prefix of the operation journal replay to what the workspace was, also after a death and a second session? |
| `fuse_symlink` | violation | The events recover the workspace at each boundary (versioned-workspace.md:189): not if an operation went through a symbolic link. |

**What the passing runs show.** `store`: a checkpoint whose creation overlapped
no gc keeps its objects for ever, and they are whole unless some writer is, or
died, inside one (`SealedObjectsPresent`, `SealedObjectsIntact`); head and
parents always name manifests that parse (`HistorySealed`); a manifest torn by
a death stops every later gc before it deletes (`SweepReadEveryManifest`); a
walk no edit overlapped is exact (`UndisturbedSnapshotExact`). `restore`:
`OkMeansRestored`, `KeptPathsStay` (a path in both trees never disappears, and
only the file being copied can be torn), `OnlyConflictsFail` (an error has its
cause in the workspace the attempt met: a kind that changed, a read-only file, an
entry to make or remove in a locked directory, an unreadable one; never in what
the attempt itself has done), `IgnoredUntouched`. `journal`: `FullReplayExact`, `BaseOrTarget`, `RenameMoves`,
`RenamesMatch`, `OnlyTypeChangesBlock`. `opjournal`: `OneBase` (as long as no
two appends overlapped), `TornTailLast` (as long as their bytes did not meet),
`SeqIsPosition`, `AckedReadable` and, for readers, `ReadComplete` (no acknowledged
event is missing, unless a journal was made anew or a compacted one removed; where
bytes of two events met the journal does not parse). `run`: `SummaryTruthful`,
`TimeoutNeverCommits`, `ReportComplete`, `SummaryEventLast`, `KillReachesTree`,
`UngrantedWritesWarned` (under Landlock and without a grant the command writes
to the workspace only behind a warning in the trace) and, under fairness,
`TimedRunEnds`. `fuse`: `InodeIdentity` (an inode leads to the file it was
handed out for, or to none once that is gone, unless a directory above it moved or
went, or a rename replaced its file, or it is reached through a link),
`ReplayFailsOnly` (all causes a replay has to fail),
`CommitIsLastVersion` (the head an unmount commits is what the whole journal
replays to) and the refinement `RecordedSpec`.

What they show besides, by the exceptions their statements need:

- An append finds the journal, and opens it only after a commit in another process
  has renamed it: it makes the journal anew, and readers get only that (`vfs` 793,
  1346-1356): `split`. The two compactions of `opjournal_race` are the other way to
  lose acknowledged events.
- Two mounts that append under one run id at the same time both find no journal
  and both append, with two bases, the same `seq`, and at worst on one line
  (`vfs` 757-795): `crossed`, `glued`.
- A rollback meets a directory where the checkpoint has a file, or the reverse, or
  a read-only file or directory, and stops half way (`vfs` 567-607): the causes in
  `OnlyConflictsFail`.
- Payloads of events are no reference to gc (`vfs` 1690), so a gc makes replays
  fail that succeeded before; and a gc between the objects of a base checkpoint
  and its manifest makes all of them fail: `collected` in `ReplayFailsOnly`.
- A death between the creation of an object and its bytes (`vfs` 1149) spoils
  every later write of the same bytes, in this session or the next: the file
  exists, so it is not written, and replays fail at the length check (1434). In a
  base checkpoint, whose objects have no such check, the replay restores other
  bytes: `PayloadTorn` and `BaseTorn`.
- A death inside a line of the journal (`vfs` 794) makes every replay of the run
  fail, for the whole journal is parsed first: `tail` = "torn".
- The handlers follow symbolic links and the walk of a checkpoint skips them. A
  write through one changes what it leads to and is recorded under the link's own
  path, where a replay makes a file: `Noted`, and run `fuse_symlink`.
- The mount serves ignored directories and checkpoints skip them. An event that
  renames or chmods something there (`Blind`) finds nothing in a copy of the
  base and ends every replay that includes it.
- A change that is not recorded (EIO after it was applied, a death between the
  steps of a handler, a rename whose parent was made before it failed) ends the promise,
  and nothing tells later clients. A commit of the run by another process, or a
  second mount under its id, makes that the fate of every later operation.
- Inodes below a renamed or removed directory keep their old paths
  (`fuse` 117): `strayed`.

Some of these have exceptions in their statement (`exposed`, `spoiled`,
`crossed`, `split`, `glued`, `touched`, `strayed`, `collected`, `Lost`): they are
history variables that mark exactly the races the violation runs, or the hazards
in `PROJECT.json`, are about. With the exception dropped TLC finds the race, so
the statements are as strong as the code allows. It follows that a property with
an exception does not catch the race it excepts: a violation run does, or the
note of the hazard says that none does.

**Bounds, and why they are enough.**

- `store`: 2 processes, 2 paths, 2 contents, 2 checkpoints, 1 edit. All races
  are between two processes; two contents tell a shared object from a distinct
  one; two checkpoints make a parent link, and a second user of an object. One
  edit changes a file between its walk and another's. Full symmetry is sound:
  no operator orders these sets.
- `restore`: a directory with one child, a top-level path, and an ignored
  directory with a file; every tree over them and every checkpoint of one, both
  operations, up to two deaths; op-restore also to trees with ignored paths; one
  directory without write permission (the child's, or the workspace's own) or one
  unreadable file, since one is enough to fail. Depth two is where order matters (parents first
  when building, children first when removing). A second death is one inside
  the retry.
- `journal`: `a`, `a/x` and three more paths that sort behind them, two
  contents, two modes for `a` and `a/x`. Three equal files make a queue with
  two in it on one side. Manifests are restricted in `Small`, whose comment
  says how.
- `opjournal`: 2 recorders, 3 appends, 1 death, 1 compactor, 1 reader, 2 bases.
  Two lines make an order, a third an append after the repair; every race of
  appends is between two. What one compactor does to another is in
  `opjournal_race`, and the theorems cover all numbers of both.
- `run`: the command and two descendants (a chain or two siblings: the least
  with a grandchild), 1 edit, 1 byte. The deadline, rollback, commit and errors
  are all on; a success and a failure both occur. The profile is read-only
  without grants and Landlock may degrade, so restricted and warned runs occur,
  and runs that fail in between.
- `fuse`: a directory with a file, a second name with a link to it, and an ignored
  name; or two empty directories; or one file alone. 2 applied operations, 3 inodes,
  one byte value beside the hole's
  zero, an offset that leaves a hole at the front, a truncation to nothing, and
  one upset: an I/O error, a death, or a commit or gc of another process. Two
  operations are the least with one that uses what the first left (a write to a
  renamed file, a rename over a created one, a lookup through an old inode). A
  second session follows only over the file alone (the constraint `Sessions`): a
  write, a death in its payload, a second session and the same write again are
  within that. The theorems cover any number of sessions, upsets and operations.
  Clients look up in vain, and list without looking up, only the names in
  `Probed`. `MoveFits` and `NamesFit` leave out renames that would make a third
  level. A replay in progress is interleaved with gc only: it works on a copy of
  the journal in a directory of its own, and of what the others do it reads
  nothing but the objects.
- `fuse_symlink`: a link to a file that is not there yet, one operation, no failure.

`CHECK_DEADLOCK FALSE` stands in every configuration because the systems do
stop: a store with used-up checkpoint ids, an operation that has returned, a
run that has ended.

**Fairness.** Only `RunLifecycle` has any: weak fairness of the main thread,
the sampler and the reader (threads that can run do) and of the clock. The
command and its processes need never do anything. `TimedRunEnds` then says
that a run with a deadline ends once no process but the command keeps the pipe
open for ever: that premise cannot be dropped, since a process that left the
group and was handed to init is missed by the kill, and `run` joins the reader
without a limit (`linux` 225). The other modules state safety only: their
operations are sequences of calls that just end, and whether a client of the
mount calls again is its own business.

**Mutants.** Each property of a passing run is refuted by a plausible bug in
one mapped definition; the pairs are in `PROJECT.json`.

## 4. Findings

Six statements of the documentation that the code does not keep, one per
violation run: objects of a checkpoint created beside a gc (`vfs` 1010), partial
objects reused after a crash (1148), rollback through a symlink (607), journal
prefixes that cannot be materialized (1192), two compactions that lose a journal
(1282), and operations recorded under the name of a symbolic link (`fuse` 211).
Each is quoted with its document in `PROJECT.json`. They are correctness statements
about concurrent or interrupted use of one workspace, or about links in it.

## 5. Proofs

`ObjectStoreProofs`, for any sets of processes, paths, contents and
checkpoints, any number of edits and failures: `TypeCorrect`, `GcSafe`,
`ObjectsIntact`, `HistoryNeverDangles`, `GcFailsSafe`, `SnapshotExact`. The
properties are not inductive. A process that has probed an object and not yet
written its manifest relies on what gc may do meanwhile, so the invariant
`StoreInv` adds: one builder per manifest (`OneBuilder`), an unexposed build
runs beside no gc (`BuiltAlone`), the entries recorded so far have
objects (`BuiltPresent`), a sweeping gc keeps what every unexposed manifest
names (`GcKnows`), a torn object has a writer or is spoiled (`TornExplained`),
parents are sealed (`ParentsSealed`), and the walk so far agrees with the
workspace (`WalkExact`). `StoreStep` has one step per action.

`WorkspaceRestoreProofs`, for any tree shape, any ignored roots, any contents
and any number of deaths, assuming no symlinks (`LinkTo = {}`, without which
the theorem is false: see `restore_symlink`): `OkIsRestored`,
`RestoreTypeCorrect`, `IgnoredKept`, for checkpoints and for replayed trees with
ignored paths. `RestoreInv` says what each phase has done
to the paths it no longer has in `todo` (`Progress`), what the file being copied
looks like (`Copying`), and that the workspace is always a tree (`Trees`).

`RunLifecycleProofs`, for any number of processes, edits and bytes, any policy
and any failure: `RunTypeCorrect`, `TimeoutSafe`, `SummaryIsTruthful`,
`ReportIsComplete`, `SummaryIsLast`, `KillIsThorough`, `SandboxHolds`. The invariant `RunInv`
ties the place of the main thread to what it has learnt: after the join the
threads have ended, the pipe is empty and nobody holds it, and Root is dead, so
its status is final (`Phases`); the checkpoints it uses exist and only a failed
run has a mixed workspace (`Checkpoints`); the head has moved only for a success
in time (`HeadMoved`); the report so far is true (`Reported`); run.summary is
emitted when only the main thread is left (`Silence`). `Confined` says that the
ruleset is prepared before the command exists and is on it from its first
step, or the warning was emitted before. `Hunted` carries the kill: the pids
read so far agree with the parents of an undisturbed tree, so every live
descendant by parent is one by the sample too (`HuntStep`, SampleTree: a set
closed under the sampled parents, with the dead processes added, is closed under the
real ones), and then each is in the group or among the pids left to kill.

`WorkspaceRestoreProofs` also has `RollbackKeepsPaths` and
`FailuresAreConflicts`, under the same hypothesis. Their invariant `AttemptInv`
adds to `RestoreInv` what an attempt has left as it found it (`History`): until
the rebuild reaches a path of the checkpoint, rollback has not changed it, and
op-restore has removed it or keeps it as an ignored one. An error then tells of
the tree the attempt began with, not of the half-built one; modes go only with
the entries they belong to, so a directory locked at the error was locked then.

`RunJournalProofs`, for any finite set of paths with its order, any two
checkpoints and any events a limit leaves out: `JournalTypeOK`,
`JournalBaseOrTarget`, `JournalFullReplayExact`, `JournalRenameMoves`,
`JournalRenamesMatch`, `JournalOnlyTypeChangesBlock`. Half of it is about the
diff alone: the places of a content's files are a bijection with an interval
(`PlaceBelow`, `PlaceUnique`, `PlaceOnto`), so pairing by place is a maximal
matching (`Matching`), and no two events of a diff say different things of a
path. `JournalInv` says that the journal is a part of the diff closed under
the order of the paths (`Journalled`), and that the manifest of a replay is
the after checkpoint on the paths that *some* set of its events touches and the
before checkpoint elsewhere (`Rebuilt`); the events applied, not their order,
are what a replay's state depends on.

`OpJournalProofs`, for any number of recorders, compactors, readers, appends,
deaths and bases: `OpJournalTypeOK`, `OpJournalOneBase`, `OpJournalTornTailLast`,
`OpJournalSeqIsPosition`, `OpJournalAckedReadable`, `OpJournalReadComplete`. An
append decides by what it read and acts several calls later, so `OpInv` says
what is still true of the file then. A recorder alone in its append (`Alone`) may
lose the active journal to a compaction, but none that it has not read can have
taken its place, since only recorders make one (`Sole`); as long as none was made
anew it has also counted its lines (`Counting`). For recorders that meet the
invariant follows the bytes: until some met, every recorder's line is the last
and its own (`InHand`), no line is spoilt (`Clean`) and every acknowledged event
has a whole one (`Kept`); once they met, one line is spoilt for good (`Spoilt`), so
the journal does not parse, and nobody is told that it is complete. `OneFile` says
that there is then one file, under one name, unless a journal was made anew or a
compacted one removed; that is why `ReadComplete` needs no exception for appends
that overlap.

`RecordingFuseProofs`, for any paths of one or two names, workspaces to begin
with, bytes, offsets, inodes, operations, sessions and faults: `FuseTypeOK`,
`FuseInodeIdentity`, `FuseReplayFailsOnly`, `FuseCommitIsLastVersion`, and
`FuseRefines`, that the mount implements `RecordedWorkspace`. The argument is
in three layers.

- *Trees* (`WorkspaceOpsProofs`). They are about the workspace without its links
  (`Walked`): a handler that follows none does there what it does to the
  workspace, and one that follows some ends the promise. A copy of the base checkpoint never equals the
  workspace: it lacks ignored entries and the modes of directories. `Like(t, d)`
  is the relation that is preserved: d has the kinds of t except for ignored
  entries it lacks, the same bytes and modes in files that are not ignored,
  no entry that is read-only where t's is not, and no read-only directory
  above an entry it lacks. The last two are what makes it inductive: a replay
  may know less, but meets no obstacle the adapter did not. For each operation one lemma
  (`RepeatCreateEvent` .. `RepeatFsyncEvent`) says that if the adapter could do
  it to t, its event can be applied to every d like t, and the results are alike again
  (`Repeats`); `Overwrite` = `WriteAt` is part of `WrittenFile`. Trees that are
  alike have the same checkpoint (`LikeSeen`).
- *The mount.* `FuseInv` has, beside types, `Named` (the two maps of the table
  and what clients believe, so that `InodeIdentity` survives a rename onto a
  known name), `Alive` (the file behind a name a client has exists), `Versioned`
  (each version is the last with its event applied, none is missing unless
  something was lost or blind, the base checkpoint is the first), `Stored` (what
  events and checkpoints refer to is in the store, whole or in part, unless
  collected), `Tracking` (the last version is `Like` the workspace
  between two handlers, and will be when the event at hand is recorded) and
  `Replaying` (a replay stands at the version of the event it has come to, or,
  on a base that is torn, at a tree of the same `Shaped` kinds and modes: it meets
  the same obstacles and rebuilds other bytes).
- *The refinement.* `Promised` is a step of `RecordedWorkspace` or a stutter.
  There is a lemma for each abstract action (`Changing`, `Recording`, `Losing`,
  `Rebasing`, `Recovering`, `Forgetting`) and one for each group of concrete
  ones; `NextVersion` is where `Tracking` becomes "the version appended is the
  live tree".

The assumptions are those the modules declare (`StoreAssumptions`,
`RestoreAssumptions`, `RunAssumptions`, `JournalAssumptions`,
`OpJournalAssumptions`, `OpsAssumptions`, `FuseAssumptions`), which TLC
evaluates in each run. They bound sets and tell marks like `NoLog`, `NoPath`
and `NoTree` from values. Two say something of the system: in `RunJournal`
paths are finitely many, and ordered so that a directory comes before what it
holds, as BTreeMap orders strings; in `WorkspaceOps` paths have one or two
names, so that what is proved of the mount is proved for trees of that depth.

Out of TLAPS's reach and left to TLC: `TimedRunEnds`, which is liveness under
fairness. Every other property of a passing run is stated by a theorem. No
module uses a RECURSIVE operator.

## 6. Not modelled

- Power loss. Nothing is fsynced (`vfs` 1150); processes die, the machine does
  not.
- Two runs in one workspace at once: the code promises nothing for them.
- In `WorkspaceRestore`: directories that may be listed and not searched, files
  of other owners and sticky directories, and a change of modes while an operation
  is at work. A copied directory gets no mode from a checkpoint, and none here.
- In the mount's workspace: chains of links, links out of the workspace, to
  its root or relative to a directory that moves; entries that may not be read,
  which end a checkpoint (`CheckpointFails` is what it leaves); the three write bits
  and the others apart (`ro` is all of them, as `readonly()` has it).
- A backing directory other than the workspace, or one that others change
  beside the mount: the recorder then describes another tree than the
  checkpoints.
- Of the mount: getattr, open and read (they change nothing); the flags of
  rename, which the adapter ignores; chmod, truncate and fsync of the root, which
  are answered with an error; names that are not UTF-8, which are recorded
  lossily; `--until-ts`, which `RunJournal` has.
- A read-only directory in op-restore's temporary copy, whose removal at the
  end (`vfs` 875) then fails after the workspace was replaced.
- The seccomp filter and the limits: constants handed to the kernel. Of
  Landlock, the read rules and the paths of the grants: a grant covers the
  workspace or it does not.
- Which denial a failure is classified as, and the hints: functions of strings.
- Command line and report layout: no state.

## 7. Plan

1. An abstract store (a map from checkpoints to trees, with atomic create,
   commit and collect) that `ObjectStore` implements for unexposed checkpoints,
   checked and then proved from `StoreInv`.
2. What follows of `RecordedWorkspace` alone: that a version, once recorded, is
   never changed or taken back, carried to the mount by `FuseRefines`.
3. Trees of any depth in `WorkspaceOps`: `MakeParent` would make a chain of
   directories and `RemoveTree` meet read-only ones in the middle.
4. A larger `fuse` instance, with three operations and two bytes, outside the
   runs listed here.
