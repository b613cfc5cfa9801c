----------------------------- MODULE RunJournal -----------------------------
(***************************************************************************)
(* The change journal of one run: the diff of the checkpoints before and   *)
(* after it (diff_manifests, src/src/versioned_fs.rs:1579), rename         *)
(* detection (1617), the journal finish_run writes line by line (1202) and *)
(* `fs replay` (677), which loads the base checkpoint, applies the events  *)
(* within a limit and materializes the result in an empty directory        *)
(* (1163).                                                                 *)
(***************************************************************************)
EXTENDS Naturals, FiniteSets

CONSTANTS
    Paths,      \* relative paths
    Less,       \* the order of a BTreeMap's keys, as a set of pairs
    Above,      \* Above[p]: the proper ancestors of p
    Contents,   \* file contents: size, hash and object in one
    Modes,      \* values of the readonly flag, a subset of BOOLEAN
    NoPath      \* the source_path of an event that has none

ASSUME JournalAssumptions ==
    /\ IsFiniteSet(Paths) /\ NoPath \notin Paths
    /\ Less \subseteq Paths \X Paths
    /\ \A p, q \in Paths : <<p, q>> \in Less => p # q /\ <<q, p>> \notin Less
    /\ \A p, q \in Paths : p # q => <<p, q>> \in Less \/ <<q, p>> \in Less
    /\ \A p, q, r \in Paths : <<p, q>> \in Less /\ <<q, r>> \in Less => <<p, r>> \in Less
    /\ Above \in [Paths -> SUBSET Paths]
    \* a string precedes those it is a prefix of
    /\ \A p \in Paths : \A q \in Above[p] : <<q, p>> \in Less
    /\ \A p \in Paths : \A q \in Above[p] : Above[q] \subseteq Above[p]
    /\ Modes \subseteq BOOLEAN

VARIABLES
    base, target,   \* the entries of checkpoint_before and checkpoint_after
    unwritten,      \* events write_journal has still to write
    journal,        \* events on disk
    phase,          \* "write", "replay", "done" or "error"
    todo,           \* events the replay has still to look at
    skip,           \* events beyond --until-seq or --until-ts
    entries,        \* the manifest the replay has built so far
    view            \* the tree materialized at the destination

vars == <<base, target, unwritten, journal, phase, todo, skip, entries, view>>

None == [kind |-> "none"]
Dir == [kind |-> "dir"]
File(c, r) == [kind |-> "file", data |-> c, ro |-> r]
Files == {File(c, r) : c \in Contents, r \in Modes}

\* What a walk of the workspace returns: entries lie in directories.
Manifests ==
    {m \in [Paths -> {None, Dir} \cup Files] :
        \A p \in Paths : m[p] # None => \A a \in Above[p] : m[a] = Dir}

-----------------------------------------------------------------------------
(* diff_manifests and detect_renames *)

Added(f, t) == {p \in Paths : f[p] = None /\ t[p] # None}
Deleted(f, t) == {p \in Paths : f[p] # None /\ t[p] = None}

\* The files of S that have the size and hash (entry_fingerprint) of m[p].
Twins(S, m, p) ==
    {q \in S : m[p].kind = "file" /\ m[q].kind = "file" /\ m[q].data = m[p].data}

\* p's place among them, in the order of the paths.
Place(S, m, p) == Cardinality({q \in Twins(S, m, p) : <<q, p>> \in Less})

\* Fault: a deleted file is matched with every added file of its content.
AnyTwin(f, t) ==
    {r \in Deleted(f, t) \X Added(f, t) :
        /\ f[r[1]].kind = "file" /\ t[r[2]].kind = "file" /\ f[r[1]].data = t[r[2]].data}

\* Fault: only the first deleted file of a content is considered.
FirstTwin(f, t) ==
    {r \in Deleted(f, t) \X Added(f, t) :
        /\ f[r[1]].kind = "file" /\ t[r[2]].kind = "file" /\ f[r[1]].data = t[r[2]].data
        /\ Place(Deleted(f, t), f, r[1]) = 0 /\ Place(Added(f, t), t, r[2]) = 0}

\* Each deleted file, in order, takes the first added file with its
\* fingerprint that is not taken: the n-th goes with the n-th.
Renames(f, t) ==
    {r \in Deleted(f, t) \X Added(f, t) :
        /\ f[r[1]].kind = "file" /\ t[r[2]].kind = "file" /\ f[r[1]].data = t[r[2]].data
        /\ Place(Deleted(f, t), f, r[1]) = Place(Added(f, t), t, r[2])}

Kind(b, a) ==
    CASE b = None -> "create"
      [] a = None -> "delete"
      [] b.kind # a.kind -> "type_change"
      [] OTHER -> "write"

Event(o, p, s, a) == [op |-> o, path |-> p, source |-> s, after |-> a]

Changes(f, t) ==
    LET paired == Renames(f, t)
        consumed == {r[1] : r \in paired} \cup {r[2] : r \in paired}
    IN  {Event("rename", r[2], r[1], t[r[2]]) : r \in paired}
        \cup {Event(Kind(f[p], t[p]), p, NoPath, t[p]) :
                 p \in {q \in Paths : f[q] # t[q]} \ consumed}

-----------------------------------------------------------------------------
Init ==
    /\ base \in Manifests /\ target \in Manifests
    /\ unwritten = Changes(base, target)
    /\ journal = {} /\ phase = "write"
    /\ todo = {} /\ skip = {}
    /\ entries = base
    /\ view = [p \in Paths |-> None]

First(S) == {e \in S : \A f \in S \ {e} : <<e.path, f.path>> \in Less}

\* write_journal: one line per change, in the order of the paths.
WriteLine ==
    /\ phase = "write"
    /\ \E e \in First(unwritten) :
        /\ unwritten' = unwritten \ {e}
        /\ journal' = journal \cup {e}
    /\ UNCHANGED <<base, target, phase, todo, skip, entries, view>>

\* read_journal fails on a line the writer has not finished, or never will.
ReadTorn ==
    /\ phase = "write" /\ unwritten # {}
    /\ phase' = "error"
    /\ UNCHANGED <<base, target, unwritten, journal, todo, skip, entries, view>>

\* A journal without events is refused: nothing says which base it has.
ReadEmpty ==
    /\ phase = "write" /\ journal = {}
    /\ phase' = "error"
    /\ UNCHANGED <<base, target, unwritten, journal, todo, skip, entries, view>>

\* --until-seq leaves out a tail of the events; --until-ts any of them, since
\* ts is the wall clock and may step back.
BeginReplay(s) ==
    /\ phase = "write" /\ journal # {}
    /\ phase' = "replay"
    /\ todo' = journal /\ skip' = s
    /\ entries' = base
    /\ UNCHANGED <<base, target, unwritten, journal, view>>

SkipEvent ==
    /\ phase = "replay"
    /\ \E e \in First(todo) \cap skip : todo' = todo \ {e}
    /\ UNCHANGED <<base, target, unwritten, journal, phase, skip, entries, view>>

\* Fault: the source of a rename is not removed.
ApplyCopy(m, e) == [m EXCEPT ![e.path] = e.after]

\* Fault: the two paths of a rename are swapped.
ApplySwapped(m, e) ==
    IF e.op = "rename"
    THEN [m EXCEPT ![e.path] = None, ![e.source] = e.after]
    ELSE [m EXCEPT ![e.path] = e.after]

\* apply_journal_event; `after` of a deletion is None.
Apply(m, e) ==
    IF e.op = "rename"
    THEN [m EXCEPT ![e.source] = None, ![e.path] = e.after]
    ELSE [m EXCEPT ![e.path] = e.after]

ApplyEvent ==
    /\ phase = "replay"
    /\ \E e \in First(todo) \ skip :
        /\ entries' = Apply(entries, e)
        /\ todo' = todo \ {e}
    /\ UNCHANGED <<base, target, unwritten, journal, phase, skip, view>>

\* Fault: only the directories the manifest lists are made.
BlockedUnlisted(m) == \E p \in Paths : m[p] # None /\ \E a \in Above[p] : m[a] # Dir

\* A file lies where another entry needs a directory.
Blocked(m) == \E p \in Paths : m[p] # None /\ \E a \in Above[p] : m[a].kind = "file"

\* Fault: files are written whether or not the directories above them exist.
AsListed(m) == m

\* write_checkpoint_to_root: create_dir_all makes the directories above an
\* entry too, listed or not.
Materialized(m) ==
    [p \in Paths |-> IF m[p] = None /\ \E q \in Paths : p \in Above[q] /\ m[q] # None
                     THEN Dir ELSE m[p]]

Materialize ==
    /\ phase = "replay" /\ todo = {} /\ ~Blocked(entries)
    /\ view' = Materialized(entries)
    /\ phase' = "done"
    /\ UNCHANGED <<base, target, unwritten, journal, todo, skip, entries>>

MaterializeFails ==
    /\ phase = "replay" /\ todo = {} /\ Blocked(entries)
    /\ phase' = "error"
    /\ UNCHANGED <<base, target, unwritten, journal, todo, skip, entries, view>>

Next ==
    \/ WriteLine \/ ReadTorn \/ ReadEmpty
    \/ \E s \in SUBSET journal : BeginReplay(s)
    \/ SkipEvent \/ ApplyEvent \/ Materialize \/ MaterializeFails

Spec == Init /\ [][Next]_vars

-----------------------------------------------------------------------------
\* Every variable has its type, the journal and what is unwritten are the
\* changes of the run, and what a replay writes is a tree whatever it skips.
TypeOK ==
    /\ base \in Manifests /\ target \in Manifests
    /\ unwritten \cup journal = Changes(base, target) /\ unwritten \cap journal = {}
    /\ phase \in {"write", "replay", "done", "error"}
    /\ todo \subseteq journal /\ skip \subseteq journal
    /\ entries \in [Paths -> {None, Dir} \cup Files]
    /\ view \in Manifests

\* `fs replay` of a finished journal, without a limit, materializes exactly
\* checkpoint_after: the diff with its renames loses nothing, whatever files
\* and directories took each other's place.
FullReplayExact ==
    phase = "done" /\ unwritten = {} /\ skip = {} => view = target

\* Whatever a limit cuts off, each path of the rebuilt manifest is as it was
\* before the run or as it was after it, never a mixture of two paths.
BaseOrTarget == \A p \in Paths : entries[p] \in {base[p], target[p]}

\* A renamed file is in one of its two places at every prefix of the replay:
\* no limit makes its content vanish or appear twice (detect_renames).
RenameMoves ==
    \A r \in Renames(base, target) : entries[r[1]] = None <=> entries[r[2]] # None

\* Rename detection is a matching, and a maximal one: no path is in two
\* renames, and no deleted file is left beside an added one with its content
\* (docs/versioned-workspace.md:77).
RenamesMatch ==
    LET paired == Renames(base, target) IN
    /\ \A r, s \in paired : r[1] = s[1] <=> r[2] = s[2]
    /\ \A d \in Deleted(base, target), a \in Added(base, target) :
        base[d].kind = "file" /\ target[a].kind = "file" /\ base[d].data = target[a].data =>
            \E r \in paired : r[1] = d \/ r[2] = a

\* A manifest rebuilt under a limit can always be materialized, unless some
\* path changed between file and directory during the run.
OnlyTypeChangesBlock ==
    phase = "replay" /\ todo = {} /\ Blocked(entries) =>
        \E e \in journal : e.op = "type_change"

-----------------------------------------------------------------------------
(* Claims of the documentation that the code does not keep. *)

\* docs/agent-contract.md:113: V1 can recover to a replay prefix of the
\* path-level journal.
PrefixReplays ==
    phase = "replay" /\ todo = {} /\ unwritten = {}
        /\ (\A e \in skip, f \in journal : <<e.path, f.path>> \in Less => f \in skip) =>
            ~Blocked(entries)

=============================================================================
