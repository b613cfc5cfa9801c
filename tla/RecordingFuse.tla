---------------------------- MODULE RecordingFuse ----------------------------
(***************************************************************************)
(* `shadox fs mount` (src/src/fuse_adapter.rs): the adapter forwards every *)
(* file operation of the mount's clients to the backing directory and then *)
(* records it in the operation journal of its run; beside it, processes of *)
(* their own: `fs commit`, which closes the journal, `fs gc`, and          *)
(* `fs op-replay`, which rebuilds a prefix of the journal elsewhere        *)
(* (versioned_fs.rs:827).                                                  *)
(*                                                                         *)
(* fuser delivers one request at a time, so a handler is its change of the *)
(* backing directory and of the inode table, in one step, then the payload *)
(* of a write, then the append; each may be cut short.  OpJournal takes    *)
(* the append and the compaction apart and has several mounts at work;     *)
(* ObjectStore takes the collection apart.  The backing directory is the   *)
(* workspace, and only the mount changes it.                               *)
(***************************************************************************)
EXTENDS WorkspaceOps, FiniteSets

CONSTANTS
    Start,          \* workspaces the mount may begin with
    Offsets, Sizes, \* where clients write, and the sizes they set
    CommitOnUnmount,
    NoPath,         \* "not in the table"
    Gone,           \* the file of an inode was removed
    NoTree,         \* a replay that failed
    Probed,         \* bound: names clients look up in vain, or only list
    MaxIno,         \* bound: inode numbers
    MaxOps,         \* bound: operations applied
    MaxMounts,      \* bound: sessions under the run id
    MaxUpsets       \* bound: I/O errors, deaths of the adapter, and commits and
                    \* collections by other processes

ASSUME FuseAssumptions ==
    /\ \A t \in Start : t \in Workspaces /\ IsTree(t)
    /\ Offsets \subseteq Nat /\ Sizes \subseteq Nat
    /\ CommitOnUnmount \in BOOLEAN /\ Probed \subseteq Paths
    /\ MaxIno \in Nat \ {0} /\ MaxOps \in Nat
    /\ MaxMounts \in Nat /\ MaxUpsets \in Nat
    /\ NoPath # Gone /\ {NoPath, Gone} \cap (Paths \cup {<<>>}) = {}
    /\ NoTree \notin Trees

VARIABLES
    tree,       \* the backing directory
    byIno, byPath, nextIno, \* InodeTable
    stage,      \* what the adapter does: "down", "mount" (its base checkpoint has
                \* no manifest yet), "idle", "store", "record" or "mode"
    pending,    \* the event of the handler at work
    mode,       \* the mode setattr sets after the size
    rbase,      \* base_checkpoint of the recorder
    journal,    \* operation-journals/<run>.jsonl
    jbase,      \* the base checkpoint of its events
    compacted,  \* whether it is closed, under compacted/
    tail,       \* its file: "none", or it ends in a "line", in an event without
                \* the newline ("open"), or has a line that is no event ("torn")
    ckpts,      \* the checkpoints, by id
    objects,    \* the store's objects that are whole,
    torn,       \* and the contents whose object has only part of them
    head,       \* refs/head, 0 if there is none
    replay,     \* an op-replay: phase, events left, destination
    meant,      \* history: where the file is that a client knows an inode as
    strayed,    \* history: inodes whose file was moved or removed together
                \* with a directory, replaced by a rename, or reached by a link
    redone,     \* history: the workspace after each event, as a replay rebuilds it
    sound,      \* history: the events recorded before a change that has none, or
                \* one with the name of a link for what the link leads to
    collected,  \* history: gc removed a payload, or a file of a checkpoint
                \* that had no manifest yet
    mounts, ops, upsets \* history: how many

backing == <<tree>>
table == <<byIno, byPath, nextIno>>
call == <<stage, pending, mode>>
log == <<rbase, journal, jbase, compacted, tail, redone>>
store == <<ckpts, objects, torn, head>>
clients == <<meant, strayed>>
history == <<sound, collected, mounts, ops, upsets>>
vars == <<backing, table, call, log, store, replay, clients, history>>

Inos == 1..MaxIno
RootIno == 1
Root == <<>>

AllSound == MaxOps + 1

NoEvent == Event("none", Root)
NoReplay == [pc |-> "idle", upto |-> 0, todo |-> <<>>, dest |-> NoTree]

Init ==
    /\ tree \in Start
    /\ byIno = [i \in Inos |-> NoPath] /\ byPath = [p \in Paths |-> 0] /\ nextIno = 2
    /\ stage = "down" /\ pending = NoEvent /\ mode = "keep"
    /\ rbase = 0 /\ journal = <<>> /\ jbase = 0 /\ compacted = FALSE /\ tail = "none"
    /\ redone = <<Seen(tree)>>
    /\ ckpts = <<>> /\ objects = {} /\ torn = {} /\ head = 0
    /\ replay = NoReplay
    /\ meant = [i \in Inos |-> NoPath] /\ strayed = {}
    /\ sound = AllSound /\ collected = FALSE /\ mounts = 0 /\ ops = 0 /\ upsets = 0

-----------------------------------------------------------------------------
(* A session. *)

\* The process ends, and the inode table with it.
Ends ==
    /\ stage' = "down" /\ pending' = NoEvent /\ mode' = "keep" /\ rbase' = 0
    /\ byIno' = [i \in Inos |-> NoPath] /\ byPath' = [p \in Paths |-> 0] /\ nextIno' = 2
    /\ meant' = [i \in Inos |-> NoPath] /\ strayed' = {}

\* A change is not recorded.
Lost == sound # AllSound
Loses == sound' = IF Lost THEN sound ELSE Len(journal)

\* create_checkpoint: store_object of every file, which takes what exists for
\* the content, then the manifest.
StoreFiles == objects' = objects \cup (ContentsOf(Seen(tree)) \ torn)
Checkpoint == StoreFiles /\ ckpts' = Append(ckpts, Seen(tree))

\* RecordingFuse::new: a base checkpoint and an inode table with the root.
Mount ==
    /\ stage = "down" /\ mounts < MaxMounts
    /\ mounts' = mounts + 1
    /\ StoreFiles
    /\ stage' = "mount"
    /\ UNCHANGED <<backing, table, pending, mode, log, ckpts, torn, head, replay, clients,
                   sound, collected, ops, upsets>>

Mounted ==
    /\ stage = "mount"
    /\ ckpts' = Append(ckpts, Seen(tree)) /\ rbase' = Len(ckpts) + 1
    /\ redone' = IF journal = <<>> THEN <<Seen(tree)>> ELSE redone
    /\ sound' = IF journal = <<>> THEN AllSound ELSE sound
    /\ byIno' = [i \in Inos |-> IF i = RootIno THEN Root ELSE NoPath]
    /\ byPath' = [p \in Paths |-> 0] /\ nextIno' = 2
    /\ meant' = [i \in Inos |-> IF i = RootIno THEN Root ELSE NoPath] /\ strayed' = {}
    /\ stage' = "idle"
    /\ UNCHANGED <<backing, pending, mode, journal, jbase, compacted, tail, objects, torn, head,
                   replay, collected, mounts, ops, upsets>>

\* Fault: the head is moved to the base of the session.
UnmountBase ==
    /\ stage = "idle"
    /\ Checkpoint
    /\ IF CommitOnUnmount /\ tail \notin {"none", "torn"}
       THEN head' = rbase /\ compacted' = TRUE ELSE UNCHANGED <<head, compacted>>
    /\ Ends
    /\ UNCHANGED <<backing, journal, jbase, tail, redone, torn, replay, history>>

\* destroy: finish makes a checkpoint, reads the journal, which fails if there
\* is none or it has a torn line, and commits the checkpoint; errors are ignored.
Unmount ==
    /\ stage = "idle"
    /\ Checkpoint
    /\ IF CommitOnUnmount /\ tail \notin {"none", "torn"}
       THEN head' = Len(ckpts) + 1 /\ compacted' = TRUE ELSE UNCHANGED <<head, compacted>>
    /\ Ends
    /\ UNCHANGED <<backing, journal, jbase, tail, redone, torn, replay, history>>

\* A death or an I/O error in the checkpoint a session begins or ends with: some
\* files are stored, one perhaps in part.
CheckpointFails ==
    /\ stage \in {"down", "idle"} /\ upsets < MaxUpsets
    /\ upsets' = upsets + 1
    /\ LET new == ContentsOf(Seen(tree)) \ (objects \cup torn) IN
        \E some \in SUBSET new :
            /\ objects' = objects \cup some
            /\ torn' \in {torn} \cup {torn \cup {c} : c \in new \ (some \cup {<<>>})}
    /\ Ends
    /\ UNCHANGED <<backing, journal, jbase, compacted, tail, redone, ckpts, head, replay,
                   sound, collected, mounts, ops>>

-----------------------------------------------------------------------------
(* The inode table. *)

\* remember_path
Room(p) == byPath[p] # 0 \/ nextIno \in Inos
InoOf(p) == IF byPath[p] # 0 THEN byPath[p] ELSE nextIno
Remember(p) ==
    /\ byPath' = [byPath EXCEPT ![p] = InoOf(p)]
    /\ byIno' = [byIno EXCEPT ![InoOf(p)] = p]
    /\ nextIno' = IF byPath[p] # 0 THEN nextIno ELSE nextIno + 1

\* The client learns an inode from the reply.
HandOut(p) ==
    /\ meant' = [meant EXCEPT ![InoOf(p)] = IF @ = NoPath THEN p ELSE @]
    /\ strayed' = IF Real(tree, p) = p THEN strayed ELSE strayed \cup {InoOf(p)}

\* forget_path
Forget(p) ==
    LET i == byPath[p] IN
    /\ byPath' = [byPath EXCEPT ![p] = 0]
    /\ byIno' = IF i = 0 THEN byIno ELSE [byIno EXCEPT ![i] = NoPath]
    /\ UNCHANGED nextIno

\* Fault: the inode keeps its old path.
MoveNameOnly(s, p) ==
    LET i == byPath[s] IN
    /\ byPath' = IF i = 0 THEN byPath ELSE [byPath EXCEPT ![s] = 0, ![p] = i]
    /\ UNCHANGED <<byIno, nextIno>>

\* move_path: one inode, not those below it, nor the one p had.
MovePath(s, p) ==
    LET i == byPath[s] IN
    /\ byPath' = IF i = 0 THEN byPath ELSE [byPath EXCEPT ![s] = 0, ![p] = i]
    /\ byIno' = IF i = 0 THEN byIno ELSE [byIno EXCEPT ![i] = p]
    /\ UNCHANGED nextIno

\* Inodes the client may name, and paths it can name by an inode and a name.
Known == {i \in Inos : meant[i] # NoPath /\ byIno[i] # NoPath}
Nameable == {p \in Paths : \E i \in Known : byIno[i] = Front(p)}
FilesKnown == {byIno[i] : i \in Known} \ {Root}

At(p) == {i \in Inos : meant[i] = p}
Under(p) == {i \in Inos : meant[i] \in Below(p)}

-----------------------------------------------------------------------------
(* Handlers.  One that fails before it has changed anything only answers   *)
(* with an error.                                                          *)

\* The call for p acts on q; if that is not p, its event names the wrong path.
Noted(p, q) == IF p = q THEN UNCHANGED sound ELSE Loses

\* file_attr, which follows links, fails for a path that leads to nothing; the
\* path is remembered anyway.
Exists(p) ==
    LET q == Real(tree, p) IN Reaches(tree, p, q) /\ tree[q].kind \in {"dir", "file"}

Lookup(p) ==
    /\ stage = "idle" /\ p \in Nameable /\ Room(p)
    /\ Exists(p) \/ p \in Probed
    /\ Remember(p)
    /\ IF Exists(p) THEN HandOut(p) ELSE UNCHANGED clients
    /\ UNCHANGED <<backing, call, log, store, replay, history>>

\* readdir remembers one entry after the other.
Readdir(d, p) ==
    /\ stage = "idle" /\ p \in Nameable \cap Probed /\ Front(p) = d
    /\ Reaches(tree, p, Entry(tree, p)) /\ tree[Entry(tree, p)] # None
    /\ byPath[p] = 0 /\ nextIno \in Inos
    /\ Remember(p)
    /\ UNCHANGED <<backing, call, log, store, replay, clients, history>>

\* A handler has changed the backing directory to t and goes on to record e.
Applied(t, e) ==
    /\ ops < MaxOps /\ ops' = ops + 1
    /\ tree' = t
    /\ stage' = (IF e.op = "write" THEN "store" ELSE "record") /\ pending' = e
    /\ UNCHANGED <<log, store, replay, collected, mounts, upsets>>

Write(p, off, b) ==
    LET q == Real(tree, p) IN
    /\ stage = "idle" /\ p \in FilesKnown /\ Reaches(tree, p, q) /\ CanOpen(tree, q)
    /\ Applied([tree EXCEPT ![q].data = WriteAt(@, off, b)], WriteEvent(p, off, b))
    /\ Noted(p, q)
    /\ UNCHANGED <<table, mode, clients>>

\* create_dir_all of the parent, then File::create; O_CREAT's mode is ignored.
CreateFile(p) ==
    LET q == Real(tree, p) IN
    /\ stage = "idle" /\ p \in Nameable /\ Room(p) /\ Reaches(tree, p, q) /\ CanCreate(tree, q)
    /\ Applied(Create(tree, q), Event("create", p))
    /\ Noted(p, q)
    /\ UNCHANGED <<table, mode, clients>>

\* A link at the end of the path has to lead to a directory that is there.
Mkdir(p) ==
    LET q == Real(tree, p) IN
    /\ stage = "idle" /\ p \in Nameable /\ Room(p) /\ Reaches(tree, p, q) /\ CanMakeDir(tree, q)
    /\ q = Entry(tree, p) \/ tree[q] # None
    /\ Applied(MakeDir(tree, q), Event("mkdir", p))
    /\ Noted(p, q)
    /\ UNCHANGED <<table, mode, clients>>

\* Inodes whose file is named otherwise than the client does.
Beside(p, q) == IF p = q THEN {} ELSE At(q) \cup Under(q)

Removed(p, q) ==
    /\ Applied(RemoveTree(tree, q), Event("delete", p))
    /\ Noted(p, q)
    /\ meant' = [i \in Inos |-> IF i \in At(p) \cup Under(p) THEN Gone ELSE meant[i]]
    /\ strayed' = strayed \cup Under(p) \cup Beside(p, q)
    /\ UNCHANGED mode

\* Fault: the inode of a removed file stays in the table.
UnlinkKeeps(p) ==
    LET q == Entry(tree, p) IN
    /\ stage = "idle" /\ p \in Nameable /\ Reaches(tree, p, q)
    /\ tree[q].kind \in {"file", "link"} /\ CanRemove(tree, q)
    /\ Removed(p, q)
    /\ UNCHANGED table

\* remove_file, which removes a link itself.
Unlink(p) ==
    LET q == Entry(tree, p) IN
    /\ stage = "idle" /\ p \in Nameable /\ Reaches(tree, p, q)
    /\ tree[q].kind \in {"file", "link"} /\ CanRemove(tree, q)
    /\ Removed(p, q) /\ Forget(p)

\* remove_dir_all: the directory need not be empty; of a link, the link.
Rmdir(p) ==
    LET q == Entry(tree, p) IN
    /\ stage = "idle" /\ p \in Nameable /\ Reaches(tree, p, q)
    /\ tree[q].kind \in {"dir", "link"} /\ CanRemove(tree, q)
    /\ Removed(p, q) /\ Forget(p)

\* Bound: what is below the source, or was known there, has a path at the
\* target; nothing is renamed to itself by way of a link.
MoveFits(s, p) == \A q \in Below(s) : tree[q] # None => Moved(s, p, q) \in Paths
NamesFit(s, p) == \A i \in Under(s) : Moved(s, p, meant[i]) \in Paths

\* The event names what a replay has only if neither name is reached by a link
\* and it is not a link that is renamed.
Rename(s, p) ==
    LET a == Entry(tree, s)
        b == Entry(tree, p) IN
    /\ stage = "idle" /\ {s, p} \subseteq Nameable /\ s # p
    /\ Reaches(tree, s, a) /\ Reaches(tree, p, b) /\ MoveFits(a, b) /\ NamesFit(s, p)
    /\ CanMakeParent(tree, b) /\ CanMove(MakeParent(tree, b), a, b)
    /\ Applied(Move(MakeParent(tree, b), a, b), RenameEvent(s, p))
    /\ IF tree[a].kind = "link" THEN Loses ELSE Noted(<<s, p>>, <<a, b>>)
    /\ MovePath(s, p)
    /\ meant' = [i \in Inos |-> IF i \in At(p) THEN Gone
                                ELSE IF i \in At(s) \cup Under(s) THEN Moved(s, p, meant[i])
                                ELSE meant[i]]
    /\ strayed' = strayed \cup At(p) \cup Under(s) \cup Beside(s, a) \cup Beside(p, b)
    /\ UNCHANGED mode

\* The target's parent is made before the rename, and stays if it fails.
RenameFails(s, p) ==
    LET a == Entry(tree, s) IN
    /\ stage = "idle" /\ {s, p} \subseteq Nameable /\ s # p /\ Reaches(tree, s, a)
    /\ MakeParent(tree, p) # tree /\ ~CanMove(MakeParent(tree, p), a, p)
    /\ tree' = MakeParent(tree, p)
    /\ Loses
    /\ UNCHANGED <<table, call, log, store, replay, clients, collected, mounts, ops, upsets>>

\* setattr: first the size, which is recorded before the mode is set.
SetSize(p, n, m) ==
    LET q == Real(tree, p) IN
    /\ stage = "idle" /\ p \in FilesKnown /\ Reaches(tree, p, q) /\ CanOpen(tree, q)
    /\ Applied([tree EXCEPT ![q].data = SetLen(@, n)], TruncateEvent(p, n))
    /\ Noted(p, q)
    /\ mode' = m
    /\ UNCHANGED <<table, clients>>

Chmod(p, m) ==
    LET q == Real(tree, p) IN
    /\ Exists(p)
    /\ Applied([tree EXCEPT ![q].ro = (m = "ro")], ChmodEvent(p, m = "ro"))
    /\ Noted(p, q)
    /\ mode' = "keep"
    /\ UNCHANGED <<table, clients>>

SetMode(p, m) == stage = "idle" /\ p \in FilesKnown /\ Chmod(p, m)
SetModeToo == stage = "mode" /\ Chmod(pending.path, mode)

\* Its event changes nothing, so it may name a link.
Fsync(p) ==
    /\ stage = "idle" /\ p \in FilesKnown /\ Exists(p) /\ tree[Real(tree, p)].kind = "file"
    /\ Applied(tree, Event("fsync", p))
    /\ UNCHANGED <<table, mode, clients, sound>>

-----------------------------------------------------------------------------
(* The second half of a handler. *)

\* append_operation_event refuses a closed journal, one it cannot read, and one
\* with another base.
Recordable == ~compacted /\ tail # "torn" /\ (journal = <<>> \/ jbase = rbase)

Payload == IF pending.op = "write" THEN {pending.data} ELSE {}

Answer == stage' = "idle" /\ pending' = NoEvent /\ mode' = "keep"

\* History: the next version, from the last one and the event alone.
Redo(t, e) ==
    IF t # NoTree /\ CanApply(t, e, {e.data}) THEN Apply(t, e) ELSE NoTree

\* Fault: the payload of a write is not stored.
StoreNothing ==
    /\ stage = "store" /\ stage' = "record"
    /\ UNCHANGED <<backing, table, pending, mode, log, store, replay, clients, history>>

\* append_write_operation: store_bytes, which takes an object that exists as it
\* is.  A collection between its steps does what one after them does.
StoreBytes ==
    /\ stage = "store" /\ stage' = "record"
    /\ objects' = objects \cup (Payload \ torn)
    /\ UNCHANGED <<backing, table, pending, mode, log, ckpts, torn, head, replay, clients, history>>

\* The event can be read back from now on.
Logged ==
    /\ journal' = Append(journal, pending) /\ jbase' = rbase
    /\ redone' = Append(redone, Redo(Last(redone), pending))

\* Only then create and mkdir put the path in the table.
Replied ==
    /\ IF pending.op \in {"create", "mkdir"}
       THEN Remember(pending.path) /\ HandOut(pending.path) ELSE UNCHANGED <<table, clients>>
    /\ IF mode = "keep" THEN Answer ELSE stage' = "mode" /\ UNCHANGED <<pending, mode>>

Record ==
    /\ stage = "record" /\ Recordable /\ tail # "open"
    /\ Logged /\ tail' = "line" /\ Replied
    /\ UNCHANGED <<backing, rbase, compacted, store, replay, history>>

\* The event is put behind one without a newline, and neither can be read.
RecordGlued ==
    /\ stage = "record" /\ Recordable /\ tail = "open"
    /\ tail' = "torn" /\ Loses /\ Replied
    /\ UNCHANGED <<backing, rbase, journal, jbase, redone, compacted, store, replay,
                   collected, mounts, ops, upsets>>

\* What a death or an I/O error leaves of the second half: part of the payload,
\* an empty file, part of the line, or the event without its newline.
Interrupted ==
    \/ /\ stage = "store" /\ Loses
       /\ torn' \in {torn, torn \cup (Payload \ objects)}
       /\ UNCHANGED <<journal, jbase, tail, redone>>
    \/ /\ stage = "record" /\ Loses
       /\ tail' \in {tail} \cup
            (IF Recordable THEN {"torn", IF tail = "none" THEN "line" ELSE tail} ELSE {})
       /\ UNCHANGED <<journal, jbase, redone, torn>>
    \/ /\ stage = "record" /\ Recordable /\ tail # "open"
       /\ Logged /\ tail' = "open"
       /\ UNCHANGED <<torn, sound>>

\* The client gets EIO for an operation that was applied, after an I/O error,
RecordFails ==
    /\ stage \in {"store", "record"} /\ upsets < MaxUpsets
    /\ upsets' = upsets + 1
    /\ Interrupted
    /\ Answer
    /\ UNCHANGED <<backing, table, rbase, compacted, ckpts, objects, head, replay, clients, collected, mounts, ops>>

\* or because the append is refused.
RecordRefused ==
    /\ stage = "record" /\ ~Recordable
    /\ Loses
    /\ Answer
    /\ UNCHANGED <<backing, table, log, store, replay, clients, collected, mounts, ops, upsets>>

\* The adapter's process dies; what it has applied may not be recorded.
Die ==
    /\ stage # "down" /\ upsets < MaxUpsets
    /\ upsets' = upsets + 1
    /\ IF stage \in {"store", "record"} THEN Interrupted
       ELSE UNCHANGED <<journal, jbase, tail, redone, torn, sound>>
    /\ Ends
    /\ UNCHANGED <<backing, compacted, ckpts, objects, head, replay, collected, mounts, ops>>

-----------------------------------------------------------------------------
(* Other processes. *)

\* fs commit of a checkpoint of the run: the journal is compacted.
Commit(c) ==
    /\ c \in DOMAIN ckpts /\ upsets < MaxUpsets
    /\ upsets' = upsets + 1
    /\ head' = c
    /\ compacted' = (compacted \/ tail # "none")
    /\ UNCHANGED <<backing, table, call, rbase, journal, jbase, tail, redone, ckpts, objects, torn,
                   replay, clients, sound, collected, mounts, ops>>

\* referenced_objects are those of checkpoints; an event's payload is not.
Referenced == UNION {ContentsOf(ckpts[c]) : c \in DOMAIN ckpts}

WritesOf(events) == {events[k].data : k \in {j \in DOMAIN events : events[j].op = "write"}}

\* What is neither removed nor referenced yet, or never.
InHand ==
    WritesOf(journal)
    \cup (IF stage = "record" THEN Payload ELSE {})
    \cup (IF stage = "mount" THEN ContentsOf(Seen(tree)) ELSE {})

Gc ==
    /\ upsets < MaxUpsets /\ upsets' = upsets + 1
    /\ objects' = objects \cap Referenced /\ torn' = torn \cap Referenced
    /\ collected' = (collected \/ ~(InHand \subseteq Referenced))
    /\ UNCHANGED <<backing, table, call, log, ckpts, head, replay, clients, sound, mounts, ops>>

\* materialize copies the objects of a checkpoint as they are; of a torn one
\* there may be any part, here none.
Materialized(c) ==
    [p \in Paths |-> IF ckpts[c][p].kind = "file" /\ ckpts[c][p].data \in torn
                     THEN File(<<>>, ckpts[c][p].ro) ELSE ckpts[c][p]]

\* replay_operation_journal reads the journal, replaces its destination by the
\* base checkpoint and takes the events within the limit.  One that starts amid
\* a handler finds what it finds before it, or the line half written (OpJournal).
ReplayStart(n) ==
    /\ replay.pc = "idle" /\ stage \in {"down", "idle"} /\ n \in 0..Len(journal)
    /\ journal # <<>> \/ tail = "torn"
    /\ replay' =
        IF tail # "torn" /\ ContentsOf(ckpts[jbase]) \subseteq objects \cup torn
        THEN [pc |-> "apply", upto |-> n, todo |-> SubSeq(journal, 1, n), dest |-> Materialized(jbase)]
        ELSE [NoReplay EXCEPT !.pc = "failed", !.upto = n]
    /\ UNCHANGED <<backing, table, call, log, store, clients, history>>

\* The first event that cannot be applied ends it.
ReplayEvent ==
    /\ replay.pc = "apply" /\ replay.todo # <<>>
    /\ LET e == Head(replay.todo) IN
        replay' = IF CanApply(replay.dest, e, objects)
                  THEN [replay EXCEPT !.todo = Tail(@), !.dest = Apply(@, e)]
                  ELSE [replay EXCEPT !.pc = "failed", !.todo = <<>>]
    /\ UNCHANGED <<backing, table, call, log, store, clients, history>>

ReplayDone == replay.pc = "apply" /\ replay.todo = <<>>

ReplayEnd ==
    /\ ReplayDone \/ replay.pc = "failed"
    /\ replay' = NoReplay
    /\ UNCHANGED <<backing, table, call, log, store, clients, history>>

-----------------------------------------------------------------------------
Handler ==
    \/ \E p \in Paths :
        \/ Lookup(p) \/ Readdir(Front(p), p)
        \/ CreateFile(p) \/ Mkdir(p) \/ Unlink(p) \/ Rmdir(p) \/ Fsync(p)
        \/ \E off \in Offsets, b \in Bytes : Write(p, off, <<b>>)
        \/ \E n \in Sizes, m \in {"keep", "ro", "rw"} : SetSize(p, n, m)
        \/ \E m \in {"ro", "rw"} : SetMode(p, m)
        \/ \E s \in Paths : Rename(s, p) \/ RenameFails(s, p)
    \/ SetModeToo \/ StoreBytes \/ Record \/ RecordGlued \/ RecordFails \/ RecordRefused

\* A replay has read the journal when it starts and writes to a directory of
\* its own: of what the others do, only a collection makes a difference to it.
Next ==
    \/ /\ replay.pc = "idle"
       /\ \/ Mount \/ Mounted \/ Unmount \/ CheckpointFails \/ Die \/ Handler
          \/ \E c \in DOMAIN ckpts : Commit(c)
          \/ \E n \in 0..MaxOps : ReplayStart(n)
    \/ Gc \/ ReplayEvent \/ ReplayEnd

Spec == Init /\ [][Next]_vars

-----------------------------------------------------------------------------
\* Every variable has its type; a path in the table leads to an inode and back.
TypeOK ==
    /\ tree \in Workspaces /\ IsTree(Walked(tree))
    /\ byIno \in [Inos -> Paths \cup {Root, NoPath}]
    /\ byPath \in [Paths -> Inos \cup {0}] /\ nextIno \in 2..(MaxIno + 1)
    /\ \A p \in Paths : byPath[p] # 0 => byPath[p] < nextIno /\ byIno[byPath[p]] = p
    /\ stage \in {"down", "mount", "idle", "store", "record", "mode"}
    /\ mode \in {"keep", "ro", "rw"}
    /\ pending \in Events \cup {NoEvent}
    /\ stage \in {"store", "record", "mode"} <=> pending # NoEvent
    /\ journal \in Seq(Events) /\ Len(journal) <= ops
    /\ ckpts \in Seq(Trees)
    /\ {rbase, jbase, head} \subseteq 0..Len(ckpts)
    /\ tail \in {"none", "line", "open", "torn"} /\ journal # <<>> => tail # "none"
    /\ compacted \in BOOLEAN /\ compacted => tail # "none"
    /\ redone \in Seq(Trees \cup {NoTree}) /\ Len(redone) = Len(journal) + 1
    /\ objects \cup torn \subseteq Seq(Bytes \cup {Zero}) /\ objects \cap torn = {}
    /\ replay.pc \in {"idle", "apply", "failed"} /\ replay.todo \in Seq(Events)
    /\ replay.dest \in Trees \cup {NoTree}
    /\ meant \in [Inos -> Paths \cup {Root, NoPath, Gone}] /\ strayed \subseteq Inos
    /\ sound \in 0..AllSound /\ collected \in BOOLEAN
    /\ mounts \in 0..MaxMounts /\ ops \in 0..MaxOps /\ upsets \in 0..MaxUpsets

\* An inode a client holds leads to the file it was handed out for, or to
\* none once that file is removed, through every rename, removal and failed
\* append, except where a directory above it moved or went or its file was
\* replaced: move_path and forget_path treat one entry only.
InodeIdentity ==
    stage # "down" =>
        \A i \in Inos \ strayed :
            meant[i] # NoPath => byIno[i] = IF meant[i] = Gone THEN NoPath ELSE meant[i]

Blinded(n) == \E k \in 1..n : Blind(journal[k])

BaseTorn == journal # <<>> /\ ContentsOf(ckpts[jbase]) \cap torn # {}
PayloadTorn(n) == WritesOf(SubSeq(journal, 1, n)) \cap torn # {}

\* op-replay fails, if it has begun leaving its destination half rebuilt, only if
\* the journal has a torn line, left by a fault or just being written; gc removed
\* an object of its base before the manifest named it, or a payload, which nothing
\* ever names; a payload is torn; or the events it was asked for include one that
\* names a file in an ignored directory, which no checkpoint has, or one recorded
\* after a change that was not, or not under the name of what changed: whatever
\* happens later, the prefix before it replays.
ReplayFailsOnly ==
    replay.pc = "failed" =>
        \/ tail = "torn" \/ collected \/ PayloadTorn(replay.upto)
        \/ Blinded(replay.upto) \/ sound < replay.upto

\* As docs/versioned-workspace.md:189 has it, the whole journal replayed on its
\* base is the workspace as the mount has it between two requests.
EventBoundary ==
    ReplayDone /\ replay.upto = Len(journal) /\ stage = "idle" => Seen(replay.dest) = Seen(tree)

\* What a checkpoint would have of each of them.
Versions ==
    [n \in DOMAIN redone |-> IF redone[n] = NoTree THEN NoTree ELSE Seen(redone[n])]

\* A commit on unmount moves the head to what the events of the whole journal
\* make of the base, and closes the journal, unless a change was not recorded, or
\* not under the name of what changed, or an event needs an ignored file.
CommitIsLastVersion ==
    [][Len(ckpts') > Len(ckpts) /\ head' # head =>
          compacted' /\ (Lost \/ Blinded(Len(journal)) \/ ckpts'[head'] = Last(Versions))]_vars

\* The mount implements RecordedWorkspace: what op-replay makes of each prefix
\* of the journal is the workspace at that event, byte for byte but for the links
\* in it, if it ends and the objects of the base are whole; up to the first change
\* that ReplayFailsOnly excepts.
Recorded == INSTANCE RecordedWorkspace WITH
    Trees <- Trees,
    tree <- Seen(tree),
    versions <- Versions,
    link <- IF Lost \/ Blinded(Len(journal)) THEN "lost"
            ELSE IF stage \in {"store", "record"} THEN "applied" ELSE "synced",
    recovered <- IF ReplayDone /\ ~BaseTorn THEN Seen(replay.dest) ELSE NoTree
RecordedSpec == Recorded!Spec

=============================================================================
