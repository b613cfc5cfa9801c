-------------------------- MODULE WorkspaceRestore --------------------------
(***************************************************************************)
(* How a manifest is put back on the live workspace: rollback              *)
(* (src/src/versioned_fs.rs:561) and the second half of op-restore,        *)
(* replace_workspace_from_dir and copy_tree (1509-1543).  Both walk the    *)
(* live tree, remove entries, then create directories and copy files, one  *)
(* system call after the other with no undo, so the process may die        *)
(* between any two of them and the operator run it again.                  *)
(*                                                                         *)
(* The two differ in what they remove: rollback, the paths the manifest    *)
(* does not have; op-restore, every path the walk finds.  They differ also *)
(* in what they restore: rollback, a checkpoint, which has no ignored path;*)
(* op-restore, the tree op-replay has built in a temporary directory, where*)
(* the events of the mount may have made ignored paths: copy_tree does not *)
(* ask should_ignore and lays them over those of the workspace.            *)
(***************************************************************************)
EXTENDS Naturals, FiniteSets

CONSTANTS
    Paths,      \* relative paths that may exist in the workspace
    Above,      \* Above[p]: the proper ancestors of p, without the root
    Root,       \* the workspace's own directory
    Ignored,    \* paths under .git, .shadox, target or node_modules
    Contents,   \* contents of files
    Torn,       \* the content of a file that was truncated and not yet filled
    LinkTo,     \* what a symlink may point to; {} for a tree without symlinks
    Privileged, \* whether modes mean nothing to the process
    Operations, \* a subset of {"rollback", "op_restore"}
    MaxFaults   \* bound: how often the process dies

ASSUME RestoreAssumptions ==
    /\ Above \in [Paths -> SUBSET Paths] /\ Root \notin Paths
    /\ \A p \in Paths : \A q \in Above[p] : Above[q] \subseteq Above[p]
    \* should_ignore looks at the first component of a path
    /\ Ignored \subseteq Paths
    /\ \A p \in Paths : \A q \in Above[p] : p \in Ignored <=> q \in Ignored
    /\ Torn \notin Contents
    /\ LinkTo \subseteq Paths
    /\ Privileged \in BOOLEAN
    /\ Operations \subseteq {"rollback", "op_restore"}
    /\ MaxFaults \in Nat

VARIABLES
    tree,       \* the live workspace: the node at each path
    locked,     \* its directories without write permission
    unreadable, \* its files and directories that may not be read
    target,     \* the entries to restore
    op,         \* the operation at work
    pc,         \* its phase
    todo,       \* the paths the phase still has to treat
    cur,        \* the file being copied
    start,      \* history: the tree when this attempt began
    faults      \* how often the process died

modes == <<locked, unreadable>>
vars == <<tree, modes, target, op, pc, todo, cur, start, faults>>

None == [kind |-> "none"]
Dir == [kind |-> "dir"]
File(c, r) == [kind |-> "file", data |-> c, ro |-> r]
Link(p) == [kind |-> "link", to |-> p]

Files == {File(c, r) : c \in Contents, r \in BOOLEAN}
Nodes == {None, Dir} \cup Files \cup {Link(p) : p \in LinkTo}

\* A file system tree: what exists lies in directories, links have no children.
IsTree(t) == \A p \in Paths : t[p] # None => \A a \in Above[p] : t[a] = Dir

\* Fault: the walk descends into ignored directories.
WalkAll(t) == [p \in Paths |-> IF t[p].kind = "link" THEN None ELSE t[p]]

\* walk_entries: ignored paths and symlinks have no entry.
Walk(t) == [p \in Paths |-> IF p \in Ignored \/ t[p].kind = "link" THEN None ELSE t[p]]

\* The path a system call that follows symlinks ends at.
Follow(t, p) == IF t[p].kind = "link" THEN t[p].to ELSE p

\* The directory that holds p.
Holds(d, p) == IF Above[p] = {} THEN d = Root ELSE d \in Above[p] /\ Above[p] \subseteq Above[d] \cup {d}

\* No entry p can be made or removed.
Frozen(p) == ~Privileged /\ \E d \in locked : Holds(d, p)

Init ==
    /\ tree \in {t \in [Paths -> Nodes] : IsTree(t)}
    /\ locked \in SUBSET ({p \in Paths : tree[p] = Dir} \cup {Root})
    /\ unreadable \in SUBSET {p \in Paths : tree[p].kind \in {"dir", "file"}}
    /\ target \in {t \in [Paths -> {None, Dir} \cup Files] : IsTree(t)}
    /\ op = "none" /\ pc = "idle"
    /\ todo = {} /\ cur = {}
    /\ start = tree /\ faults = 0

\* Fault: rollback clears the workspace before it rebuilds it.
RemovableAll(o) == {p \in Paths : Walk(tree)[p] # None}

\* Fault: op-restore too removes only what the checkpoint does not have.
RemovableExtra(o) == {p \in Paths : Walk(tree)[p] # None /\ target[p] = None}

\* The walk of the live tree decides once what is to be removed.
Removable(o) ==
    {p \in Paths : Walk(tree)[p] # None /\ (o = "rollback" => target[p] = None)}

\* Reading a file or a directory it may not read ends the walk.
CanWalk == Privileged \/ \A p \in unreadable : Walk(tree)[p] = None

Begin(o) ==
    /\ pc = "idle" /\ (o = "rollback" => target = Walk(target))
    /\ op' = o /\ start' = tree
    /\ IF CanWalk THEN pc' = "remove" /\ todo' = Removable(o) ELSE pc' = "error" /\ UNCHANGED todo
    /\ UNCHANGED <<tree, modes, target, cur, faults>>

\* Fault: the entries are removed in any order, each without what is below.
RemoveShallow(p) ==
    /\ pc = "remove" /\ p \in todo
    /\ tree' = [tree EXCEPT ![p] = None]
    /\ todo' = todo \ {p}
    /\ UNCHANGED <<modes, target, op, pc, cur, start, faults>>

\* p and what is below it
Subtree(p) == {q \in Paths : q = p \/ p \in Above[q]}
Without(gone) == [q \in Paths |-> IF q \in gone THEN None ELSE tree[q]]
CanRemove(p) == tree[p] # None => \A q \in Subtree(p) : tree[q] # None => ~Frozen(q)

\* Deepest first: remove_dir_all, which takes whatever is below (symlinks
\* too), or remove_file; a path that is gone is skipped.
NextToRemove(p) == pc = "remove" /\ p \in todo /\ \A q \in todo : p \notin Above[q]

Remove(p) ==
    /\ NextToRemove(p) /\ CanRemove(p)
    /\ tree' = Without(Subtree(p))
    /\ todo' = todo \ {p}
    /\ locked' = locked \ Subtree(p) /\ unreadable' = unreadable \ Subtree(p)
    /\ UNCHANGED <<target, op, pc, cur, start, faults>>

\* remove_dir_all has removed some of what is below when it fails.
RefuseRemove(p) ==
    /\ NextToRemove(p) /\ ~CanRemove(p)
    /\ \E gone \in SUBSET {q \in Subtree(p) \ {p} : ~Frozen(q)} :
           tree' = Without(gone) /\ locked' = locked \ gone /\ unreadable' = unreadable \ gone
    /\ IsTree(tree')
    /\ pc' = "error"
    /\ UNCHANGED <<target, op, todo, cur, start, faults>>

BeginBuild ==
    /\ pc = "remove" /\ todo = {}
    /\ pc' = "build"
    /\ todo' = {p \in Paths : target[p] # None}
    /\ UNCHANGED <<tree, modes, target, op, cur, start, faults>>

\* rollback makes every directory before it copies a file, by depth;
\* copy_tree meets a directory before what is in it.
Ready(p) ==
    /\ pc = "build" /\ p \in todo
    /\ Above[p] \cap todo = {}
    /\ op = "rollback" /\ target[p].kind = "file" => \A q \in todo : target[q] # Dir

\* create_dir_all accepts a directory, or a link to one, that exists.
CanMakeDir(p) == IF tree[p] = None THEN ~Frozen(p) ELSE tree[Follow(tree, p)] = Dir

MakeDir(p) ==
    /\ Ready(p) /\ target[p] = Dir /\ CanMakeDir(p)
    /\ tree' = IF tree[p] = None THEN [tree EXCEPT ![p] = Dir] ELSE tree
    /\ todo' = todo \ {p}
    /\ UNCHANGED <<modes, target, op, pc, cur, start, faults>>

\* fs::copy follows a symlink at the destination, truncates what it opens and
\* gives it the mode of its source: an object, which store_bytes created
\* writable, or a file of the temporary directory.
CanOpen(p) ==
    LET d == Follow(tree, p) IN
    /\ \A a \in Above[d] : tree[a] = Dir
    /\ \/ tree[d] = None /\ ~Frozen(d)
       \/ tree[d].kind = "file" /\ (tree[d].ro => Privileged)

SourceMode(p) == op = "op_restore" /\ target[p].ro

OpenFile(p) ==
    /\ Ready(p) /\ target[p].kind = "file" /\ CanOpen(p)
    /\ tree' = [tree EXCEPT ![Follow(tree, p)] = File(Torn, SourceMode(p))]
    /\ unreadable' = unreadable \ {Follow(tree, p)}
    /\ pc' = "fill" /\ cur' = {p}
    /\ UNCHANGED <<locked, target, op, todo, start, faults>>

\* The rest of fs::copy gives the file the bytes of the object.
FillFile(p) ==
    /\ pc = "fill" /\ cur = {p}
    /\ tree' = [tree EXCEPT ![Follow(tree, p)] = File(target[p].data, SourceMode(p))]
    /\ pc' = "mode"
    /\ UNCHANGED <<modes, target, op, todo, cur, start, faults>>

\* Fault: the read-only bit of the entry is not put back.
KeepMode(p) ==
    /\ pc = "mode" /\ cur = {p}
    /\ pc' = "build" /\ todo' = todo \ {p} /\ cur' = {}
    /\ UNCHANGED <<tree, modes, target, op, start, faults>>

SetMode(p) ==
    /\ pc = "mode" /\ cur = {p}
    /\ tree' = [tree EXCEPT ![Follow(tree, p)] = File(@.data, target[p].ro)]
    /\ pc' = "build" /\ todo' = todo \ {p} /\ cur' = {}
    /\ UNCHANGED <<modes, target, op, start, faults>>

\* A call that cannot succeed ends the operation with an error.
Refuse(p) ==
    /\ Ready(p)
    /\ \/ target[p] = Dir /\ ~CanMakeDir(p)
       \/ target[p].kind = "file" /\ ~CanOpen(p)
    /\ pc' = "error"
    /\ UNCHANGED <<tree, modes, target, op, todo, cur, start, faults>>

Finish ==
    /\ pc = "build" /\ todo = {}
    /\ pc' = "done"
    /\ UNCHANGED <<tree, modes, target, op, todo, cur, start, faults>>

\* The process dies, or a call meets an I/O error; the operator tries again.
Die ==
    /\ pc \notin {"idle", "done", "error"} /\ faults < MaxFaults
    /\ faults' = faults + 1
    /\ pc' = "idle" /\ op' = "none" /\ todo' = {} /\ cur' = {}
    /\ UNCHANGED <<tree, modes, target, start>>

Next ==
    \/ \E o \in Operations : Begin(o)
    \/ \E p \in Paths : \/ Remove(p) \/ RefuseRemove(p) \/ MakeDir(p) \/ OpenFile(p)
                        \/ FillFile(p) \/ SetMode(p) \/ Refuse(p)
    \/ BeginBuild \/ Finish \/ Die

Spec == Init /\ [][Next]_vars

-----------------------------------------------------------------------------
TornFiles == {File(Torn, r) : r \in BOOLEAN}

\* Every variable has its type and the live workspace is a tree after every
\* call: no file is ever left, or put, in a directory that is not there.
TypeOK ==
    /\ tree \in [Paths -> Nodes \cup TornFiles] /\ IsTree(tree)
    /\ locked \subseteq {p \in Paths : tree[p] = Dir} \cup {Root}
    /\ unreadable \subseteq {p \in Paths : tree[p].kind \in {"dir", "file"}}
    /\ target \in [Paths -> {None, Dir} \cup Files] /\ IsTree(target)
    /\ op \in Operations \cup {"none"}
    /\ pc \in {"idle", "remove", "build", "fill", "mode", "done", "error"}
    /\ todo \subseteq Paths /\ cur \subseteq Paths
    /\ faults \in 0..MaxFaults

\* An operation that returns Ok has restored its target: another walk would
\* find exactly the entries it has, whatever earlier attempts that died left
\* behind (half-removed trees, truncated files, modes not yet set), and an
\* ignored path that op-replay made is in the workspace too.
OkMeansRestored ==
    pc = "done" =>
        Walk(tree) = Walk(target) /\ \A p \in Paths : target[p] \in {None, tree[p]}

\* No step of either operation touches an ignored path (should_ignore), even
\* by removing or replacing a directory above it, but for those op-restore has
\* to copy because op-replay made them.
IgnoredUntouched == [][\A p \in Ignored : target[p] = None => tree'[p] = tree[p]]_vars

\* A path changed between file and directory, or a read-only file is in place;
\* op-restore, which has removed the rest, meets that only at an ignored path.
InTheWay(p) ==
    /\ target[p] # None /\ start[p] # None
    /\ op = "rollback" \/ p \in Ignored
    /\ \/ start[p].kind # target[p].kind
       \/ target[p].kind = "file" /\ start[p].ro /\ ~Privileged

\* p has to be made, or removed, in a directory without write permission.
Barred(p) ==
    /\ Frozen(p)
    /\ \/ start[p] = None /\ target[p] # None
       \/ start[p] # None /\ p \notin Ignored /\ (op = "rollback" => target[p] = None)

\* Without an I/O error an operation fails only where the workspace it met had
\* something in the way, a directory without write permission around an entry
\* that must come or go, or something the walk may not read; never because of
\* what it has itself done since.
OnlyConflictsFail ==
    pc = "error" =>
        \/ \E p \in Paths : InTheWay(p) \/ Barred(p)
        \/ ~Privileged /\ \E p \in unreadable : p \notin Ignored

\* rollback works in place: a path that exists both before and in the
\* checkpoint exists at every moment, so a death in the middle loses the
\* content of at most the one file being copied.
KeptPathsStay ==
    op = "rollback" =>
        \A p \in Paths : start[p] # None /\ target[p] # None =>
            /\ tree[p] # None
            /\ tree[p] \in TornFiles /\ start[p] \notin TornFiles => p \in cur

=============================================================================
