---------------------------- MODULE WorkspaceOps ----------------------------
(***************************************************************************)
(* The file operations that the recording FUSE adapter forwards to the     *)
(* backing directory (src/src/fuse_adapter.rs), the events it records for  *)
(* them, and apply_operation_event (src/src/versioned_fs.rs:1410), which   *)
(* op-replay and op-restore use to repeat them on a copy of the base       *)
(* checkpoint.  The adapter changes files in place; the replay has to      *)
(* arrive at the same tree from the events alone.                          *)
(***************************************************************************)
EXTENDS Naturals, SequencesExt

CONSTANTS
    Paths,      \* relative paths, as sequences of names
    Ignored,    \* names should_ignore skips at the root of a workspace
    Zero,       \* the byte a hole reads as
    Bytes       \* the bytes a client writes, one at a time

\* Two levels are enough for a directory, its children and a move between
\* directories; CanLink and RemoveTree rely on there being no third.
ASSUME OpsAssumptions ==
    /\ Paths \subseteq Seq(STRING)
    /\ \A p \in Paths : Len(p) \in 1..2 /\ SubSeq(p, 1, 1) \in Paths
    /\ Zero \notin Bytes

None == [kind |-> "none", data |-> <<>>, ro |-> FALSE]
Dir == [kind |-> "dir", data |-> <<>>, ro |-> FALSE]
File(d, r) == [kind |-> "file", data |-> d, ro |-> r]

Nodes ==
    {None}
    \cup [kind : {"dir"}, data : {<<>>}, ro : BOOLEAN]
    \cup [kind : {"file"}, data : Seq(Bytes \cup {Zero}), ro : BOOLEAN]

Trees == [Paths -> Nodes]

\* A workspace may also have symbolic links; the mount makes none.
Link(p) == [kind |-> "link", data |-> <<>>, ro |-> FALSE, to |-> p]
Links == {Link(p) : p \in Paths}
Workspaces == [Paths -> Nodes \cup Links]

\* A file system tree: whatever exists lies in a directory that exists.
IsTree(t) == \A p \in Paths : t[p] # None /\ Len(p) > 1 => t[Front(p)].kind = "dir"

Hidden(p) == Head(p) \in Ignored
Below(p) == {q \in Paths : IsStrictPrefix(p, q)}

\* A workspace without its links.
Walked(t) == [p \in Paths |-> IF t[p].kind = "link" THEN None ELSE t[p]]

\* walk_entries: what a checkpoint has of a workspace.  It skips links and
\* does not follow them; an entry for a directory has no mode.
Seen(t) ==
    [p \in Paths |-> IF Hidden(p) \/ t[p].kind = "link" THEN None
                     ELSE IF t[p].kind = "dir" THEN Dir ELSE t[p]]

\* The objects the files of a checkpoint refer to.
ContentsOf(t) == {t[p].data : p \in {q \in Paths : t[q].kind = "file"}}

-----------------------------------------------------------------------------
(* System calls, for a process without privileges. *)

\* Where a path leads: a link in front of its last name is followed by every
\* call, one at the end by those that open the file or set its mode.
Followed(t, p) == IF p \in Paths /\ t[p].kind = "link" THEN t[p].to ELSE p
Entry(t, p) == IF Len(p) > 1 THEN Append(Followed(t, Front(p)), Last(p)) ELSE p
Real(t, p) == Followed(t, Entry(t, p))

\* The call for p acts on q.  What a link leads to is in a directory that is
\* there; bound: no link leads to or through another.
Reaches(t, p, q) ==
    /\ q \in Paths
    /\ Len(q) > 1 => t[Front(q)].kind # "link" /\ (q # p => t[Front(q)].kind = "dir")

\* An entry is made or removed in a directory that is writable.
CanLink(t, p) == Len(p) > 1 => t[Front(p)].kind = "dir" /\ ~t[Front(p)].ro

\* create_dir_all of the parent
CanMakeParent(t, p) == Len(p) > 1 => t[Front(p)].kind # "file"
MakeParent(t, p) ==
    IF Len(p) > 1 /\ t[Front(p)] = None THEN [t EXCEPT ![Front(p)] = Dir] ELSE t

\* File::create
CanCreate(t, p) ==
    /\ CanMakeParent(t, p)
    /\ \/ t[p] = None /\ CanLink(MakeParent(t, p), p)
       \/ t[p].kind = "file" /\ ~t[p].ro
Create(t, p) == [MakeParent(t, p) EXCEPT ![p] = File(<<>>, FALSE)]

\* create_dir_all
CanMakeDir(t, p) ==
    /\ CanMakeParent(t, p)
    /\ \/ t[p] = None /\ CanLink(MakeParent(t, p), p)
       \/ t[p].kind = "dir"
MakeDir(t, p) == IF t[p] = None THEN [MakeParent(t, p) EXCEPT ![p] = Dir] ELSE t

\* OpenOptions::write(true), without and with create(true)
CanOpen(t, p) == t[p].kind = "file" /\ ~t[p].ro
CanOpenNew(t, p) == CanOpen(t, p) \/ (t[p] = None /\ CanCreate(t, p))

\* pwrite: bytes between the end of the file and the offset read as zero.
WriteAt(d, off, b) ==
    [i \in 1..Max({Len(d), off + Len(b)}) |->
        IF i \in (off + 1)..(off + Len(b)) THEN b[i - off]
        ELSE IF i <= Len(d) THEN d[i] ELSE Zero]

\* ftruncate, and Vec::resize
SetLen(d, n) == [i \in 1..n |-> IF i <= Len(d) THEN d[i] ELSE Zero]

\* remove_file, and remove_dir_all with everything below
CanRemove(t, p) ==
    /\ t[p] # None /\ CanLink(t, p)
    /\ t[p].ro /\ t[p].kind = "dir" => \A q \in Below(p) : t[q] = None
RemoveTree(t, p) == [q \in Paths |-> IF IsPrefix(p, q) THEN None ELSE t[q]]

\* rename: a directory replaces an empty directory, a file or a link a file or
\* a link; a directory that gets another parent must be writable itself.
CanMove(t, s, p) ==
    /\ t[s] # None /\ CanLink(t, s) /\ CanLink(t, p) /\ ~IsPrefix(s, p)
    /\ t[p] = None \/ (t[p].kind = "dir" <=> t[s].kind = "dir")
    /\ \A q \in Below(p) : t[q] = None
    /\ t[s].kind = "dir" => Front(s) = Front(p) \/ ~t[s].ro
Moved(s, p, q) == p \o SubSeq(q, Len(s) + 1, Len(q))
Move(t, s, p) ==
    [q \in Paths |->
        IF IsPrefix(p, q) THEN LET o == Moved(p, s, q) IN IF o \in Paths THEN t[o] ELSE None
        ELSE IF IsPrefix(s, q) THEN None ELSE t[q]]

-----------------------------------------------------------------------------
(* Events: WorkspaceOperation.  A field an operation lacks is empty. *)

Event(o, p) == [op |-> o, path |-> p, source |-> p, at |-> 0, data |-> <<>>, ro |-> FALSE]
WriteEvent(p, off, b) == [Event("write", p) EXCEPT !.at = off, !.data = b]
TruncateEvent(p, n) == [Event("truncate", p) EXCEPT !.at = n]
RenameEvent(s, p) == [Event("rename", p) EXCEPT !.source = s]
ChmodEvent(p, r) == [Event("chmod", p) EXCEPT !.ro = r]

Events ==
    [op : {"create", "mkdir", "write", "truncate", "delete", "rename", "chmod", "fsync"},
     path : Paths, source : Paths, at : Nat, data : Seq(Bytes), ro : BOOLEAN]

\* What the event names may be missing in a copy of the base checkpoint
\* although the adapter found it: it lies in an ignored directory.
Blind(e) ==
    \/ e.op = "chmod" /\ Hidden(e.path)
    \/ e.op = "rename" /\ Hidden(e.source)

\* Fault: the payload is added to the end of the file.
AppendBytes(d, off, b) == d \o b

\* The write of apply_operation_event: read the file, extend it to the offset
\* and then to the end of the payload, copy the payload over, write it back.
Overwrite(d, off, b) ==
    LET end == off + Len(b)
        long == IF Len(d) < off THEN SetLen(d, off) ELSE d
        full == IF Len(long) < end THEN SetLen(long, end) ELSE long
    IN [i \in DOMAIN full |-> IF i > off /\ i <= end THEN b[i - off] ELSE full[i]]

\* Whether apply_operation_event succeeds on t with the objects that are whole:
\* the length of a payload is checked (1434), and part of it is shorter.
CanApply(t, e, objects) ==
    LET p == e.path IN
    CASE e.op = "create"   -> CanCreate(t, p)
      [] e.op = "mkdir"    -> CanMakeDir(t, p)
      [] e.op = "write"    -> e.data \in objects /\ CanOpenNew(t, p)
      [] e.op = "truncate" -> CanOpenNew(t, p)
      [] e.op = "delete"   -> t[p] = None \/ CanRemove(t, p)
      [] e.op = "rename"   -> CanMakeParent(t, p) /\ CanMove(MakeParent(t, p), e.source, p)
      [] e.op = "chmod"    -> t[p] # None
      [] e.op = "fsync"    -> TRUE

\* What it makes of t then.
Apply(t, e) ==
    LET p == e.path
        file == IF t[p] = None THEN Create(t, p) ELSE t IN
    CASE e.op = "create"   -> Create(t, p)
      [] e.op = "mkdir"    -> MakeDir(t, p)
      [] e.op = "write"    -> [file EXCEPT ![p].data = Overwrite(@, e.at, e.data)]
      [] e.op = "truncate" -> [file EXCEPT ![p].data = SetLen(@, e.at)]
      [] e.op = "delete"   -> RemoveTree(t, p)
      [] e.op = "rename"   -> Move(MakeParent(t, p), e.source, p)
      [] e.op = "chmod"    -> [t EXCEPT ![p].ro = e.ro]
      [] e.op = "fsync"    -> t

=============================================================================
