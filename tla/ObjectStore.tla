---------------------------- MODULE ObjectStore ----------------------------
(***************************************************************************)
(* The content-addressed store under <workspace>/.shadox/fs: objects,      *)
(* checkpoint manifests and the head ref, as WorkspaceStore                *)
(* (src/src/versioned_fs.rs) drives them.  Every `shadox` process opens    *)
(* the store without a lock, so each system call of create_checkpoint,     *)
(* commit and gc is an action of its own and the calls of several          *)
(* processes interleave; a process may also die, or leave through a `?`,   *)
(* between any two of them.                                                *)
(*                                                                         *)
(* An object file is named by the SHA-256 of its bytes: the content stands *)
(* for the name.  A file is "torn" from File::create (which truncates)     *)
(* until write_all has finished.                                           *)
(***************************************************************************)
EXTENDS Naturals, FiniteSets

CONSTANTS
    Procs,      \* the shadox processes that share the workspace
    Paths,      \* relative paths of files in the workspace
    Contents,   \* file contents, and so the names of the objects
    Ckpts,      \* checkpoint ids that new_checkpoint_id may return
    NoFile,     \* "no file at this path"
    NoCkpt,     \* "no checkpoint": an absent or empty head, a null parent
    MayFail,    \* whether a process may die or meet an I/O error
    MaxEdits    \* bound: edits of the workspace in one behaviour

ASSUME StoreAssumptions ==
    /\ NoFile \notin Contents
    /\ NoCkpt \notin Ckpts
    /\ MayFail \in BOOLEAN
    /\ MaxEdits \in Nat

VARIABLES
    ws,         \* the live workspace: the content of each path
    objects,    \* objects/<content>: "absent", "torn" or "whole"
    manifest,   \* checkpoints/<id>.json: "absent", "torn" or "whole"
    entries,    \* the entries of each manifest, filled while the walk runs
    parent,     \* the parent field of each manifest
    head,       \* refs/head
    pc,         \* the call each process will make next
    ck,         \* the checkpoint a process creates or commits
    path, obj,  \* the file store_object has open, and what it read
    linked,     \* the object file a process has open is still in objects/
    upd,        \* create_checkpoint's update_head argument
    todo,       \* what is left of the directory listing being iterated
    keep,       \* gc's `referenced` set
    exposed,    \* history: checkpoints whose creation overlapped a gc
    spoiled,    \* history: torn objects whose writer failed
    quiet,      \* history: no edit since this process began its walk
    edits       \* history: the edits so far

files == <<ws, objects, manifest, entries, parent, head>>
local == <<pc, ck, path, obj, linked, upd, todo, keep>>
history == <<exposed, spoiled, quiet, edits>>
vars == <<files, local, history>>

Creating(p) == pc[p] \in {"walk", "probe", "create", "write", "seal"}
Collecting(p) == pc[p] \in {"load", "sweep"}
Writing(p, c) == pc[p] = "write" /\ obj[p] = c /\ linked[p]

\* The objects checkpoint k names (referenced_objects).
Refs(k) == {entries[k][f] : f \in Paths} \ {NoFile}

Init ==
    /\ ws \in [Paths -> Contents \cup {NoFile}]
    /\ objects = [c \in Contents |-> "absent"]
    /\ manifest = [k \in Ckpts |-> "absent"]
    /\ entries = [k \in Ckpts |-> [f \in Paths |-> NoFile]]
    /\ parent = [k \in Ckpts |-> NoCkpt]
    /\ head = NoCkpt
    /\ pc = [p \in Procs |-> "idle"]
    /\ ck = [p \in Procs |-> NoCkpt]
    /\ path = [p \in Procs |-> NoFile]
    /\ obj = [p \in Procs |-> NoFile]
    /\ linked = [p \in Procs |-> FALSE]
    /\ upd = [p \in Procs |-> FALSE]
    /\ todo = [p \in Procs |-> {}]
    /\ keep = [p \in Procs |-> {}]
    /\ exposed = {}
    /\ spoiled = {}
    /\ quiet = [p \in Procs |-> TRUE]
    /\ edits = 0

\* The process returns: its locals are gone.
Return(p) ==
    /\ pc' = [pc EXCEPT ![p] = "idle"]
    /\ ck' = [ck EXCEPT ![p] = NoCkpt]
    /\ path' = [path EXCEPT ![p] = NoFile]
    /\ obj' = [obj EXCEPT ![p] = NoFile]
    /\ linked' = [linked EXCEPT ![p] = FALSE]
    /\ upd' = [upd EXCEPT ![p] = FALSE]
    /\ todo' = [todo EXCEPT ![p] = {}]
    /\ keep' = [keep EXCEPT ![p] = {}]
    /\ quiet' = [quiet EXCEPT ![p] = TRUE]

-----------------------------------------------------------------------------
(* The environment: a command, or its left-over children, edits the tree. *)

Edit(f, c) ==
    /\ ws[f] # c /\ edits < MaxEdits
    /\ edits' = edits + 1
    /\ ws' = [ws EXCEPT ![f] = c]
    /\ quiet' = [p \in Procs |-> quiet[p] /\ ~Creating(p)]
    /\ UNCHANGED <<objects, manifest, entries, parent, head, local, exposed, spoiled>>

-----------------------------------------------------------------------------
(* create_checkpoint: read the head, walk the tree storing each file, then *)
(* write the manifest and, with update_head, commit it.                    *)

BeginCheckpoint(p, k, u) ==
    /\ pc[p] = "idle" /\ manifest[k] = "absent"
    /\ \A q \in Procs : ck[q] # k
    /\ pc' = [pc EXCEPT ![p] = "walk"]
    /\ ck' = [ck EXCEPT ![p] = k]
    /\ upd' = [upd EXCEPT ![p] = u]
    /\ todo' = [todo EXCEPT ![p] = {f \in Paths : ws[f] # NoFile}]
    /\ parent' = [parent EXCEPT ![k] = head]
    /\ entries' = [entries EXCEPT ![k] = [f \in Paths |-> NoFile]]
    /\ exposed' = IF \E q \in Procs : Collecting(q) THEN exposed \cup {k} ELSE exposed \ {k}
    /\ UNCHANGED <<ws, objects, manifest, head, path, obj, linked, keep, spoiled, quiet, edits>>

\* Fault: the file is taken for one that is still there.
ReadUnchecked(p, f) ==
    /\ pc[p] = "walk" /\ f \in todo[p]
    /\ pc' = [pc EXCEPT ![p] = "probe"]
    /\ path' = [path EXCEPT ![p] = f]
    /\ obj' = [obj EXCEPT ![p] = ws[f]]
    /\ todo' = [todo EXCEPT ![p] = @ \ {f}]
    /\ UNCHANGED <<files, ck, linked, upd, keep, history>>

\* The next file of the listing is opened and read.
ReadFile(p, f) ==
    /\ pc[p] = "walk" /\ f \in todo[p] /\ ws[f] # NoFile
    /\ pc' = [pc EXCEPT ![p] = "probe"]
    /\ path' = [path EXCEPT ![p] = f]
    /\ obj' = [obj EXCEPT ![p] = ws[f]]
    /\ todo' = [todo EXCEPT ![p] = @ \ {f}]
    /\ UNCHANGED <<files, ck, linked, upd, keep, history>>

\* A file that vanished since read_dir makes symlink_metadata fail, and
\* that ends the checkpoint.
FileVanished(p, f) ==
    /\ pc[p] = "walk" /\ f \in todo[p] /\ ws[f] = NoFile
    /\ Return(p)
    /\ UNCHANGED <<files, exposed, spoiled, edits>>

\* The file's entry goes into the manifest being built; the walk continues.
Record(p) ==
    /\ entries' = [entries EXCEPT ![ck[p]] = [@ EXCEPT ![path[p]] = obj[p]]]
    /\ pc' = [pc EXCEPT ![p] = "walk"]
    /\ path' = [path EXCEPT ![p] = NoFile]
    /\ obj' = [obj EXCEPT ![p] = NoFile]

\* Fault: a file whose object exists gets no entry.
SkipEntry(p) ==
    /\ pc[p] = "probe" /\ objects[obj[p]] # "absent"
    /\ pc' = [pc EXCEPT ![p] = "walk"]
    /\ UNCHANGED <<files, ck, path, obj, linked, upd, todo, keep, history>>

\* store_bytes: an object file that exists, whole or not, is not written.
ReuseObject(p) ==
    /\ pc[p] = "probe" /\ objects[obj[p]] # "absent"
    /\ Record(p)
    /\ UNCHANGED <<ws, objects, manifest, parent, head, ck, linked, upd, todo, keep, history>>

MissObject(p) ==
    /\ pc[p] = "probe" /\ objects[obj[p]] = "absent"
    /\ pc' = [pc EXCEPT ![p] = "create"]
    /\ UNCHANGED <<files, ck, path, obj, linked, upd, todo, keep, history>>

\* File::create truncates whatever another process wrote since the probe.
CreateObject(p) ==
    /\ pc[p] = "create"
    /\ objects' = [objects EXCEPT ![obj[p]] = "torn"]
    /\ linked' = [linked EXCEPT ![p] = TRUE]
    /\ pc' = [pc EXCEPT ![p] = "write"]
    /\ UNCHANGED <<ws, manifest, entries, parent, head, ck, path, obj, upd, todo, keep, history>>

\* Fault: a short write is taken for a complete one.
WriteShort(p) ==
    /\ pc[p] = "write"
    /\ Record(p)
    /\ linked' = [linked EXCEPT ![p] = FALSE]
    /\ UNCHANGED <<ws, objects, manifest, parent, head, ck, upd, todo, keep, history>>

\* write_all goes to the open file, which gc may have unlinked.
WriteObject(p) ==
    /\ pc[p] = "write"
    /\ Record(p)
    /\ objects' = IF linked[p] THEN [objects EXCEPT ![obj[p]] = "whole"] ELSE objects
    /\ spoiled' = IF linked[p] THEN spoiled \ {obj[p]} ELSE spoiled
    /\ linked' = [linked EXCEPT ![p] = FALSE]
    /\ UNCHANGED <<ws, manifest, parent, head, ck, upd, todo, keep, exposed, quiet, edits>>

CreateManifest(p) ==
    /\ pc[p] = "walk" /\ todo[p] = {}
    /\ manifest' = [manifest EXCEPT ![ck[p]] = "torn"]
    /\ pc' = [pc EXCEPT ![p] = "seal"]
    /\ UNCHANGED <<ws, objects, entries, parent, head, ck, path, obj, linked, upd, todo, keep, history>>

\* Without update_head create_checkpoint returns, else it commits.
SealManifest(p) ==
    /\ pc[p] = "seal" /\ ~upd[p]
    /\ manifest' = [manifest EXCEPT ![ck[p]] = "whole"]
    /\ Return(p)
    /\ UNCHANGED <<ws, objects, entries, parent, head, exposed, spoiled, edits>>

SealThenCommit(p) ==
    /\ pc[p] = "seal" /\ upd[p]
    /\ manifest' = [manifest EXCEPT ![ck[p]] = "whole"]
    /\ pc' = [pc EXCEPT ![p] = "commit"]
    /\ UNCHANGED <<ws, objects, entries, parent, head, ck, path, obj, linked, upd, todo, keep, history>>

-----------------------------------------------------------------------------
(* commit_with_report: load the manifest, then fs::write(refs/head), which *)
(* truncates the ref before it writes the id.                              *)

BeginCommit(p, k) ==
    /\ pc[p] = "idle" /\ manifest[k] # "absent"
    /\ pc' = [pc EXCEPT ![p] = "commit"]
    /\ ck' = [ck EXCEPT ![p] = k]
    /\ UNCHANGED <<files, path, obj, linked, upd, todo, keep, history>>

\* Fault: commit checks only that the manifest file exists.
TruncateUnread(p) ==
    /\ pc[p] = "commit"
    /\ head' = NoCkpt
    /\ pc' = [pc EXCEPT ![p] = "point"]
    /\ UNCHANGED <<ws, objects, manifest, entries, parent, ck, path, obj, linked, upd, todo, keep, history>>

TruncateHead(p) ==
    /\ pc[p] = "commit" /\ manifest[ck[p]] = "whole"
    /\ head' = NoCkpt
    /\ pc' = [pc EXCEPT ![p] = "point"]
    /\ UNCHANGED <<ws, objects, manifest, entries, parent, ck, path, obj, linked, upd, todo, keep, history>>

\* load_checkpoint fails on a manifest that does not parse.
RefuseCommit(p) ==
    /\ pc[p] = "commit" /\ manifest[ck[p]] # "whole"
    /\ Return(p)
    /\ UNCHANGED <<files, exposed, spoiled, edits>>

WriteHead(p) ==
    /\ pc[p] = "point"
    /\ head' = ck[p]
    /\ Return(p)
    /\ UNCHANGED <<ws, objects, manifest, entries, parent, exposed, spoiled, edits>>

-----------------------------------------------------------------------------
(* gc: load every manifest, then remove the objects none of them names.    *)

BeginGc(p) ==
    /\ pc[p] = "idle"
    /\ pc' = [pc EXCEPT ![p] = "load"]
    /\ todo' = [todo EXCEPT ![p] = {k \in Ckpts : manifest[k] # "absent"}]
    /\ exposed' = exposed \cup {ck[q] : q \in {r \in Procs : Creating(r)}}
    /\ UNCHANGED <<files, ck, path, obj, linked, upd, keep, spoiled, quiet, edits>>

\* Fault: gc keeps only what the last manifest it read names.
LoadForgets(p, k) ==
    /\ pc[p] = "load" /\ k \in todo[p] /\ manifest[k] = "whole"
    /\ keep' = [keep EXCEPT ![p] = Refs(k)]
    /\ todo' = [todo EXCEPT ![p] = @ \ {k}]
    /\ UNCHANGED <<files, pc, ck, path, obj, linked, upd, history>>

LoadManifest(p, k) ==
    /\ pc[p] = "load" /\ k \in todo[p] /\ manifest[k] = "whole"
    /\ keep' = [keep EXCEPT ![p] = @ \cup Refs(k)]
    /\ todo' = [todo EXCEPT ![p] = @ \ {k}]
    /\ UNCHANGED <<files, pc, ck, path, obj, linked, upd, history>>

\* Fault: a manifest that does not parse is skipped.
SkipTorn(p, k) ==
    /\ pc[p] = "load" /\ k \in todo[p] /\ manifest[k] # "whole"
    /\ todo' = [todo EXCEPT ![p] = @ \ {k}]
    /\ UNCHANGED <<files, pc, ck, path, obj, linked, upd, keep, history>>

\* load_all_checkpoints: a manifest that does not parse ends the gc.
LoadTorn(p, k) ==
    /\ pc[p] = "load" /\ k \in todo[p] /\ manifest[k] # "whole"
    /\ Return(p)
    /\ UNCHANGED <<files, exposed, spoiled, edits>>

ListObjects(p) ==
    /\ pc[p] = "load" /\ todo[p] = {}
    /\ pc' = [pc EXCEPT ![p] = "sweep"]
    /\ todo' = [todo EXCEPT ![p] = {c \in Contents : objects[c] # "absent"} \ keep[p]]
    /\ UNCHANGED <<files, ck, path, obj, linked, upd, keep, history>>

\* is_file, then remove_file: an object another gc removed is skipped, and
\* read_dir may also return an object created since the listing began.
RemoveObject(p, c) ==
    /\ pc[p] = "sweep" /\ c \notin keep[p]
    /\ c \in todo[p] \/ objects[c] # "absent"
    /\ objects' = [objects EXCEPT ![c] = "absent"]
    /\ linked' = [q \in Procs |-> linked[q] /\ obj[q] # c]
    /\ spoiled' = spoiled \ {c}
    /\ todo' = [todo EXCEPT ![p] = @ \ {c}]
    /\ UNCHANGED <<ws, manifest, entries, parent, head, pc, ck, path, obj, upd, keep, exposed, quiet, edits>>

FinishGc(p) ==
    /\ pc[p] = "sweep" /\ todo[p] = {}
    /\ Return(p)
    /\ UNCHANGED <<files, exposed, spoiled, edits>>

-----------------------------------------------------------------------------
\* Any call may return an error, and the process may be killed: either way
\* it is gone and the files stay as they are.
Fail(p) ==
    /\ MayFail /\ pc[p] # "idle"
    /\ spoiled' = IF Writing(p, obj[p]) THEN spoiled \cup {obj[p]} ELSE spoiled
    /\ Return(p)
    /\ UNCHANGED <<files, exposed, edits>>

Checkpointing(p) ==
    \/ \E k \in Ckpts, u \in BOOLEAN : BeginCheckpoint(p, k, u)
    \/ \E f \in Paths : ReadFile(p, f) \/ FileVanished(p, f)
    \/ ReuseObject(p) \/ MissObject(p) \/ CreateObject(p) \/ WriteObject(p)
    \/ CreateManifest(p) \/ SealManifest(p) \/ SealThenCommit(p)

Committing(p) ==
    \/ \E k \in Ckpts : BeginCommit(p, k)
    \/ TruncateHead(p) \/ RefuseCommit(p) \/ WriteHead(p)

GarbageCollecting(p) ==
    \/ BeginGc(p)
    \/ \E k \in Ckpts : LoadManifest(p, k) \/ LoadTorn(p, k)
    \/ ListObjects(p)
    \/ \E c \in Contents : RemoveObject(p, c)
    \/ FinishGc(p)

Next ==
    \/ \E f \in Paths, c \in Contents \cup {NoFile} : Edit(f, c)
    \/ \E p \in Procs : Checkpointing(p) \/ Committing(p) \/ GarbageCollecting(p) \/ Fail(p)

Spec == Init /\ [][Next]_vars

-----------------------------------------------------------------------------
\* Every variable has its type, and a process has in hand what its next call
\* needs: no call is ever made on a file that vanished (walk_entries fails
\* first) or on a checkpoint it was not given.
TypeOK ==
    /\ ws \in [Paths -> Contents \cup {NoFile}]
    /\ objects \in [Contents -> {"absent", "torn", "whole"}]
    /\ manifest \in [Ckpts -> {"absent", "torn", "whole"}]
    /\ entries \in [Ckpts -> [Paths -> Contents \cup {NoFile}]]
    /\ parent \in [Ckpts -> Ckpts \cup {NoCkpt}]
    /\ head \in Ckpts \cup {NoCkpt}
    /\ pc \in [Procs -> {"idle", "walk", "probe", "create", "write", "seal",
                         "commit", "point", "load", "sweep"}]
    /\ ck \in [Procs -> Ckpts \cup {NoCkpt}]
    /\ path \in [Procs -> Paths \cup {NoFile}]
    /\ obj \in [Procs -> Contents \cup {NoFile}]
    /\ linked \in [Procs -> BOOLEAN]
    /\ upd \in [Procs -> BOOLEAN]
    /\ keep \in [Procs -> SUBSET Contents]
    /\ exposed \subseteq Ckpts
    /\ spoiled \subseteq Contents
    /\ quiet \in [Procs -> BOOLEAN]
    /\ edits \in 0..MaxEdits
    /\ todo \in [Procs -> SUBSET (Paths \cup Ckpts \cup Contents)]
    /\ \A p \in Procs :
        /\ pc[p] \in {"walk", "probe", "create", "write", "seal"} =>
               ck[p] \in Ckpts /\ todo[p] \subseteq Paths
        /\ pc[p] \in {"probe", "create", "write"} => path[p] \in Paths /\ obj[p] \in Contents
        /\ pc[p] \in {"commit", "point"} => ck[p] \in Ckpts
        /\ pc[p] = "load" => todo[p] \subseteq Ckpts
        /\ pc[p] = "sweep" => todo[p] \subseteq Contents

\* What is on disk for a checkpoint whose creation overlapped no gc: each
\* object its manifest names exists (gc, versioned_fs.rs:995-1024, deletes by
\* a list it took before; the dedup of store_bytes trusts what it found).
SealedObjectsPresent ==
    \A k \in Ckpts \ exposed : manifest[k] = "whole" =>
        \A c \in Refs(k) : objects[c] # "absent"

\* ... and holds all its bytes, unless some process has the file open between
\* File::create and write_all, or failed there (store_bytes, 1145-1153):
\* deduplication never takes a partial object for one nobody is writing.
SealedObjectsIntact ==
    \A k \in Ckpts \ exposed : manifest[k] = "whole" =>
        \A c \in Refs(k) \ spoiled :
            objects[c] = "whole" \/ \E p \in Procs : Writing(p, c)

\* The history a reader can walk never dangles: the head, and the parent of
\* every manifest on disk, name manifests that parse (commit loads the
\* checkpoint before it writes the ref; create_checkpoint reads the ref).
HistorySealed ==
    /\ head # NoCkpt => manifest[head] = "whole"
    /\ \A k \in Ckpts : manifest[k] # "absent" /\ parent[k] # NoCkpt =>
           parent[k] # k /\ manifest[parent[k]] = "whole"

\* gc fails safe: it reaches the sweep only if every manifest it could have
\* seen was readable, so a manifest left torn by a failure, whose objects gc
\* cannot know, never loses them to a gc that started later.
SweepReadEveryManifest ==
    \A p \in Procs, k \in Ckpts :
        pc[p] = "sweep" /\ manifest[k] = "torn" => k \in exposed

\* A checkpoint whose walk overlapped no edit is the workspace, path by path:
\* nothing is missed or recorded under the wrong path while other processes
\* store, deduplicate and delete the same objects.
UndisturbedSnapshotExact ==
    \A p \in Procs : pc[p] = "seal" /\ quiet[p] => entries[ck[p]] = ws

-----------------------------------------------------------------------------
(* Claims of the documentation that the code does not keep. *)

\* docs/versioned-workspace.md:138, of gc, without a word on processes that
\* run beside it: it removes objects no checkpoint references.
GcKeepsReferenced ==
    \A k \in Ckpts : manifest[k] = "whole" =>
        \A c \in Refs(k) : objects[c] # "absent"

\* docs/versioned-workspace.md:32, recovery by reconstruction: once nobody is
\* at work every complete checkpoint can be materialized from its objects.
CheckpointsRestorable ==
    (\A p \in Procs : pc[p] = "idle") =>
        \A k \in Ckpts \ exposed : manifest[k] = "whole" =>
            \A c \in Refs(k) : objects[c] = "whole"

=============================================================================
