--------------------------- MODULE RunJournalProofs ---------------------------
(* The diff, its renames, the journal and its replay, for every finite set *)
(* of paths, every pair of checkpoints and every limit of a replay.        *)
EXTENDS RunJournal, FiniteSetTheorems, TLAPS

\* The entries of a checkpoint or of a manifest under reconstruction.
Entries == [Paths -> {None, Dir} \cup Files]

-----------------------------------------------------------------------------
(* Rename detection: the n-th deleted file of a content goes with the n-th *)
(* added one.                                                              *)

\* Paths have a place among the files of their content, below their number.
LEMMA PlaceBelow ==
    ASSUME NEW S \in SUBSET Paths, NEW m \in Entries, NEW p \in S, m[p].kind = "file"
    PROVE  /\ IsFiniteSet(Twins(S, m, p)) /\ Cardinality(Twins(S, m, p)) \in Nat
           /\ Place(S, m, p) \in 0..(Cardinality(Twins(S, m, p)) - 1)
<1> DEFINE T == Twins(S, m, p)
           B == {q \in T : <<q, p>> \in Less}
<1>1. T \in SUBSET Paths /\ p \in T /\ B \in SUBSET T /\ p \notin B
  BY JournalAssumptions DEF Twins
<1>2. IsFiniteSet(T) /\ Cardinality(T) \in Nat
  BY <1>1, FS_Subset, FS_CardinalityType, JournalAssumptions
<1>3. IsFiniteSet(B) /\ Cardinality(B) \in Nat /\ Cardinality(B) <= Cardinality(T)
        /\ Cardinality(B) # Cardinality(T)
  BY <1>1, <1>2, FS_Subset, FS_CardinalityType
<1>4. Place(S, m, p) = Cardinality(B)
  BY DEF Place
<1> QED
  BY <1>2, <1>3, <1>4

\* Files of one content have the same twins.
LEMMA SameTwins ==
    ASSUME NEW S, NEW m, NEW p \in S, NEW q \in Twins(S, m, p)
    PROVE  Twins(S, m, q) = Twins(S, m, p) /\ q \in S /\ m[q].kind = "file" /\ m[p].kind = "file"
BY DEF Twins

\* The order of the paths is the order of the places.
LEMMA PlaceOrder ==
    ASSUME NEW S \in SUBSET Paths, NEW m \in Entries, NEW p \in S,
           NEW q \in Twins(S, m, p), <<p, q>> \in Less
    PROVE  Place(S, m, p) < Place(S, m, q)
<1> DEFINE T == Twins(S, m, p)
           A == {z \in T : <<z, p>> \in Less}
           B == {z \in T : <<z, q>> \in Less}
<1>1. T \in SUBSET Paths /\ p \in T /\ Twins(S, m, q) = T
  BY SameTwins DEF Twins
<1>2. A \in SUBSET B /\ p \in B /\ p \notin A /\ B \in SUBSET Paths
  BY <1>1, JournalAssumptions
<1>3. IsFiniteSet(B) /\ IsFiniteSet(A) /\ Cardinality(A) <= Cardinality(B)
        /\ Cardinality(A) # Cardinality(B)
  BY <1>2, FS_Subset, JournalAssumptions
<1>4. Cardinality(A) \in Nat /\ Cardinality(B) \in Nat
  BY <1>3, FS_CardinalityType
<1>5. Place(S, m, p) = Cardinality(A) /\ Place(S, m, q) = Cardinality(B)
  BY <1>1 DEF Place
<1> QED
  BY <1>3, <1>4, <1>5

\* No two files of one content have the same place.
LEMMA PlaceUnique ==
    ASSUME NEW S \in SUBSET Paths, NEW m \in Entries, NEW p \in S,
           NEW q \in Twins(S, m, p), Place(S, m, p) = Place(S, m, q)
    PROVE  p = q
<1>1. q \in S /\ p \in Twins(S, m, q) /\ m[p].kind = "file" /\ m[q].kind = "file"
  BY DEF Twins
<1>2. Place(S, m, p) \in Nat /\ Place(S, m, q) \in Nat
  BY <1>1, PlaceBelow
<1>3. ~(Place(S, m, p) < Place(S, m, q)) /\ ~(Place(S, m, q) < Place(S, m, p))
  BY <1>2
<1>4. <<p, q>> \notin Less /\ <<q, p>> \notin Less
  BY <1>1, <1>3, PlaceOrder
<1> QED
  BY <1>1, <1>4, JournalAssumptions

\* Every number below that of the twins is the place of one of them.
LEMMA PlaceOnto ==
    ASSUME NEW S \in SUBSET Paths, NEW m \in Entries, NEW p \in S, m[p].kind = "file",
           NEW k \in 0..(Cardinality(Twins(S, m, p)) - 1)
    PROVE  \E q \in Twins(S, m, p) : Place(S, m, q) = k
<1> DEFINE T == Twins(S, m, p)
           n == Cardinality(T)
           f == [q \in T |-> Place(S, m, q)]
<1>1. IsFiniteSet(T) /\ n \in Nat
  BY PlaceBelow
<1>2. ASSUME NEW q \in T PROVE q \in S /\ m[q].kind = "file" /\ Twins(S, m, q) = T
  BY SameTwins
<1>3. ASSUME NEW q \in T PROVE Place(S, m, q) \in 0..(n - 1)
  BY <1>2, PlaceBelow
<1>4. ASSUME NEW q \in T, NEW r \in T, Place(S, m, q) = Place(S, m, r) PROVE q = r
  BY <1>2, <1>4, PlaceUnique
<1>5. f \in Injection(T, 0..(n - 1))
  BY <1>3, <1>4 DEF Injection, IsInjective
<1>6. n # 0
  BY <1>1
<1>7. IsFiniteSet(0..(n - 1)) /\ Cardinality(0..(n - 1)) = n
  BY <1>1, <1>6, FS_Interval
<1> HIDE DEF T, n, f
<1>8. f \in Surjection(T, 0..(n - 1))
  BY <1>5, <1>7, FS_Injection DEF n
<1> QED
  BY <1>8 DEF Surjection, f, T, n

\* Entries are told apart by their kind.
LEMMA Kinds ==
    ASSUME NEW m \in Entries, NEW p \in Paths
    PROVE  /\ m[p] # None /\ m[p] # Dir => m[p] \in Files /\ m[p].kind = "file"
           /\ m[p].kind = "file" => m[p] # None /\ m[p] # Dir
           /\ None # Dir /\ Dir.kind = "dir"
BY DEF Entries, None, Dir, Files, File

\* Rename detection is a matching and a maximal one, whatever two manifests
\* it compares.
LEMMA Matching ==
    ASSUME NEW f \in Entries, NEW t \in Entries
    PROVE  /\ \A r, s \in Renames(f, t) : r[1] = s[1] <=> r[2] = s[2]
           /\ \A d \in Deleted(f, t), a \in Added(f, t) :
                f[d].kind = "file" /\ t[a].kind = "file" /\ f[d].data = t[a].data =>
                    \E r \in Renames(f, t) : r[1] = d \/ r[2] = a
<1> DEFINE D == Deleted(f, t)
           A == Added(f, t)
           R == Renames(f, t)
<1>0. D \in SUBSET Paths /\ A \in SUBSET Paths
  BY DEF Deleted, Added
<1>1. ASSUME NEW r \in R
      PROVE  /\ r[1] \in D /\ r[2] \in A /\ f[r[1]].kind = "file" /\ t[r[2]].kind = "file"
             /\ f[r[1]].data = t[r[2]].data /\ Place(D, f, r[1]) = Place(A, t, r[2])
  BY DEF Renames
<1>2. ASSUME NEW d \in D, NEW a \in A, f[d].kind = "file", t[a].kind = "file",
             f[d].data = t[a].data, Place(D, f, d) = Place(A, t, a)
      PROVE  \E r \in R : r[1] = d /\ r[2] = a
  <2>1. <<d, a>> \in R
    BY <1>2 DEF Renames
  <2> QED
    BY <2>1
<1> HIDE DEF D, A, R
<1>3. ASSUME NEW r \in R, NEW s \in R, r[1] = s[1] PROVE r[2] = s[2]
  <2>1. s[2] \in Twins(A, t, r[2])
    BY <1>1, <1>3 DEF Twins
  <2>2. Place(A, t, r[2]) = Place(A, t, s[2])
    BY <1>1, <1>3
  <2> QED
    BY <1>0, <1>1, <2>1, <2>2, PlaceUnique
<1>4. ASSUME NEW r \in R, NEW s \in R, r[2] = s[2] PROVE r[1] = s[1]
  <2>1. s[1] \in Twins(D, f, r[1])
    BY <1>1, <1>4 DEF Twins
  <2>2. Place(D, f, r[1]) = Place(D, f, s[1])
    BY <1>1, <1>4
  <2> QED
    BY <1>0, <1>1, <2>1, <2>2, PlaceUnique
<1>5. ASSUME NEW d \in D, NEW a \in A, f[d].kind = "file", t[a].kind = "file",
             f[d].data = t[a].data
      PROVE  \E r \in R : r[1] = d \/ r[2] = a
  <2> DEFINE i == Place(D, f, d)
             j == Place(A, t, a)
             nd == Cardinality(Twins(D, f, d))
             na == Cardinality(Twins(A, t, a))
  <2>1. i \in 0..(nd - 1) /\ j \in 0..(na - 1) /\ nd \in Nat /\ na \in Nat
    BY <1>0, <1>5, PlaceBelow
  <2>2. CASE i < na
    <3>1. i \in 0..(na - 1)
      BY <2>1, <2>2
    <3>2. PICK q \in Twins(A, t, a) : Place(A, t, q) = i
      BY <1>0, <1>5, <3>1, PlaceOnto
    <3>3. q \in A /\ t[q].kind = "file" /\ t[q].data = t[a].data
      BY DEF Twins
    <3> QED
      BY <1>2, <1>5, <3>2, <3>3
  <2>3. CASE ~(i < na)
    <3>1. j \in 0..(nd - 1)
      BY <2>1, <2>3
    <3>2. PICK q \in Twins(D, f, d) : Place(D, f, q) = j
      BY <1>0, <1>5, <3>1, PlaceOnto
    <3>3. q \in D /\ f[q].kind = "file" /\ f[q].data = f[d].data
      BY DEF Twins
    <3> QED
      BY <1>2, <1>5, <3>2, <3>3
  <2> QED
    BY <2>2, <2>3
<1> QED
  BY <1>3, <1>4, <1>5 DEF D, A, R

-----------------------------------------------------------------------------
(* The events of a run. *)

\* An event changes its path, and the source of a rename.
Touches(e, p) == p = e.path \/ (e.op = "rename" /\ p = e.source)

\* What one event of a diff says: a rename moves a file from a path that
\* disappears to one that appears, any other event leaves renames alone.
Says(f, t, e) ==
    /\ e.path \in Paths /\ f[e.path] # t[e.path] /\ e.after = t[e.path]
    /\ e.op = "rename" =>
         /\ <<e.source, e.path>> \in Renames(f, t)
         /\ e = Event("rename", e.path, e.source, t[e.path])
    /\ e.op # "rename" =>
         /\ e = Event(Kind(f[e.path], t[e.path]), e.path, NoPath, t[e.path])
         /\ e.op = Kind(f[e.path], t[e.path])
         /\ \A r \in Renames(f, t) : e.path # r[1] /\ e.path # r[2]

\* Every event of a diff does.
LEMMA EventFacts ==
    ASSUME NEW f \in Entries, NEW t \in Entries, NEW e \in Changes(f, t)
    PROVE  Says(f, t, e)
<1>1. ASSUME NEW r \in Renames(f, t)
      PROVE  r = <<r[1], r[2]>> /\ r[1] \in Paths /\ r[2] \in Paths /\ f[r[2]] # t[r[2]]
  BY DEF Renames, Deleted, Added
<1>2. \A b, a : Kind(b, a) # "rename"
  BY DEF Kind
<1>3. CASE \E r \in Renames(f, t) : e = Event("rename", r[2], r[1], t[r[2]])
  <2>1. PICK r \in Renames(f, t) : e = Event("rename", r[2], r[1], t[r[2]])
    BY <1>3
  <2>2. e.op = "rename" /\ e.path = r[2] /\ e.source = r[1] /\ e.after = t[r[2]]
    BY <2>1 DEF Event
  <2> QED
    BY <1>1, <2>1, <2>2 DEF Says
<1>4. CASE \E p \in {q \in Paths : f[q] # t[q]} :
               /\ e = Event(Kind(f[p], t[p]), p, NoPath, t[p])
               /\ \A r \in Renames(f, t) : p # r[1] /\ p # r[2]
  <2>1. PICK p \in {q \in Paths : f[q] # t[q]} :
               /\ e = Event(Kind(f[p], t[p]), p, NoPath, t[p])
               /\ \A r \in Renames(f, t) : p # r[1] /\ p # r[2]
    BY <1>4
  <2>2. e.op # "rename" /\ e.path = p /\ e.after = t[p] /\ e.op = Kind(f[p], t[p])
    BY <1>2, <2>1 DEF Event
  <2> QED
    BY <2>1, <2>2 DEF Says, Event
<1> QED
  BY <1>3, <1>4 DEF Changes

\* The two ends of a rename: gone from the one, absent before at the other.
LEMMA RenameEnds ==
    ASSUME NEW f, NEW t, NEW r \in Renames(f, t)
    PROVE  /\ r[1] \in Paths /\ r[2] \in Paths /\ r[1] # r[2]
           /\ f[r[1]] # None /\ t[r[1]] = None /\ f[r[2]] = None /\ t[r[2]] # None
BY DEF Renames, Deleted, Added

\* At most one event of the diff touches a path.
LEMMA OneEvent ==
    ASSUME NEW f \in Entries, NEW t \in Entries, NEW p \in Paths,
           NEW d \in Changes(f, t), NEW e \in Changes(f, t), Touches(d, p), Touches(e, p)
    PROVE  d = e
<1>0. Says(f, t, d) /\ Says(f, t, e)
  BY EventFacts
<1>1. CASE d.op = "rename" /\ e.op = "rename"
  <2>1. <<d.source, d.path>> \in Renames(f, t) /\ <<e.source, e.path>> \in Renames(f, t)
    BY <1>0, <1>1 DEF Says
  <2>2. d.source = e.source <=> d.path = e.path
    BY <2>1, Matching
  <2>3. d.source # e.path /\ e.source # d.path
    BY <2>1, RenameEnds
  <2>4. d.path = e.path /\ d.source = e.source
    BY <2>2, <2>3 DEF Touches
  <2> QED
    BY <1>0, <1>1, <2>4 DEF Says
<1>2. CASE d.op # "rename" /\ e.op = "rename"
  BY <1>0, <1>2 DEF Says, Touches
<1>3. CASE d.op = "rename" /\ e.op # "rename"
  BY <1>0, <1>3 DEF Says, Touches
<1>4. CASE d.op # "rename" /\ e.op # "rename"
  BY <1>0, <1>4 DEF Says, Touches
<1> QED
  BY <1>1, <1>2, <1>3, <1>4

\* Every path that differs is touched by an event, by an event of its own
\* unless it is an end of a rename.
LEMMA Covered ==
    ASSUME NEW f \in Entries, NEW t \in Entries, NEW p \in Paths, f[p] # t[p]
    PROVE  /\ \E e \in Changes(f, t) : Touches(e, p)
           /\ f[p] # None /\ t[p] # None =>
                \E e \in Changes(f, t) : e.path = p /\ e.op = Kind(f[p], t[p])
<1>1. CASE \E r \in Renames(f, t) : p = r[1] \/ p = r[2]
  <2>1. PICK r \in Renames(f, t) : p = r[1] \/ p = r[2]
    BY <1>1
  <2>2. Event("rename", r[2], r[1], t[r[2]]) \in Changes(f, t)
    BY DEF Changes
  <2>3. Touches(Event("rename", r[2], r[1], t[r[2]]), p)
    BY <2>1 DEF Touches, Event
  <2> QED
    BY <2>1, <2>2, <2>3, RenameEnds
<1>2. CASE \A r \in Renames(f, t) : p # r[1] /\ p # r[2]
  <2> DEFINE e == Event(Kind(f[p], t[p]), p, NoPath, t[p])
  <2>1. e \in Changes(f, t)
    BY <1>2 DEF Changes
  <2>2. e.path = p /\ e.op = Kind(f[p], t[p])
    BY DEF Event
  <2> QED
    BY <2>1, <2>2 DEF Touches
<1> QED
  BY <1>1, <1>2

-----------------------------------------------------------------------------
(* The invariant of the run and its replay. *)

\* The checkpoints are trees, and the journal is the part of the diff that
\* comes first in the order of the paths.
Journalled ==
    /\ base \in Manifests /\ target \in Manifests
    /\ unwritten \cup journal = Changes(base, target) /\ unwritten \cap journal = {}
    /\ \A e \in journal, f \in unwritten : <<e.path, f.path>> \in Less

\* The manifest of a replay is the one of checkpoint_after on the paths that
\* the events applied so far touch, and the one of checkpoint_before elsewhere.
RebuiltFrom(applied) ==
    entries = [p \in Paths |-> IF \E e \in applied : Touches(e, p) THEN target[p] ELSE base[p]]

Rebuilt ==
    \E applied \in SUBSET journal :
        /\ RebuiltFrom(applied)
        /\ phase \in {"replay", "done"} => applied = journal \ (todo \cup skip)

\* How far the replay is, and what it leaves at its destination.
Replaying ==
    /\ phase \in {"write", "replay", "done", "error"}
    /\ todo \subseteq journal /\ skip \subseteq journal
    /\ phase = "done" => todo = {} /\ view = Materialized(entries)
    /\ view \in Manifests

JournalInv == Journalled /\ Rebuilt /\ Replaying

\* Manifests are entries in which the directories of a file are directories.
LEMMA ManifestIsTree ==
    ASSUME NEW m \in Manifests
    PROVE  m \in Entries /\ \A p \in Paths : m[p] # None => \A a \in Above[p] : m[a] = Dir
BY DEF Manifests, Entries

\* What a replay writes is a tree: the directories it makes on the way are
\* those its entries need.
LEMMA MaterializedIsTree ==
    ASSUME NEW m \in Entries, ~Blocked(m)
    PROVE  Materialized(m) \in Manifests
<1> DEFINE v == Materialized(m)
<1>1. v \in Entries
  BY DEF Materialized, Entries
<1>2. ASSUME NEW p \in Paths, NEW a \in Above[p], v[p] # None PROVE v[a] = Dir
  <2>0. a \in Paths
    BY JournalAssumptions
  <2>1. PICK q \in Paths : m[q] # None /\ a \in Above[q]
    <3>1. CASE m[p] # None
      BY <3>1
    <3>2. CASE m[p] = None
      BY <1>2, <3>2, JournalAssumptions DEF Materialized
    <3> QED
      BY <3>1, <3>2
  <2>2. m[a].kind # "file"
    BY <2>1 DEF Blocked
  <2>3. m[a] = None \/ m[a] = Dir
    BY <2>0, <2>2, Kinds
  <2> QED
    BY <2>0, <2>1, <2>3 DEF Materialized
<1> QED
  BY <1>1, <1>2 DEF Manifests, Entries

\* A tree is written as it is.
LEMMA MaterializedTree ==
    ASSUME NEW m \in Manifests PROVE Materialized(m) = m
BY ManifestIsTree, Kinds, JournalAssumptions DEF Materialized, Entries

\* Applying an event of the diff leaves its paths as they are after the run.
LEMMA ApplyMoves ==
    ASSUME NEW m \in Entries, NEW f \in Entries, NEW t \in Entries, NEW e \in Changes(f, t)
    PROVE  Apply(m, e) = [p \in Paths |-> IF Touches(e, p) THEN t[p] ELSE m[p]]
<1>1. Says(f, t, e)
  BY EventFacts
<1>2. CASE e.op = "rename"
  <2>1. e.source \in Paths /\ e.path \in Paths /\ e.source # e.path /\ t[e.source] = None
    BY <1>1, <1>2, RenameEnds DEF Says
  <2> QED
    BY <1>1, <1>2, <2>1 DEF Says, Touches, Apply, Entries
<1>3. CASE e.op # "rename"
  BY <1>1, <1>3 DEF Says, Touches, Apply, Entries
<1> QED
  BY <1>2, <1>3

\* The manifest under reconstruction stays one.
LEMMA RebuiltEntries ==
    ASSUME base \in Entries, target \in Entries, Rebuilt PROVE entries \in Entries
BY DEF Rebuilt, RebuiltFrom, Entries

\* Before a replay has begun there is a base and a target.
LEMMA JournalInit == Init => JournalInv
<1> SUFFICES ASSUME Init PROVE JournalInv
  OBVIOUS
<1>1. Journalled
  BY DEF Init, Journalled
<1>2. Rebuilt
  <2>1. base = [p \in Paths |-> base[p]]
    BY DEF Init, Manifests
  <2>2. RebuiltFrom({})
    BY <2>1 DEF Init, RebuiltFrom
  <2> QED
    BY <2>2 DEF Init, Rebuilt
<1>3. Replaying
  BY DEF Init, Replaying, Manifests
<1> QED
  BY <1>1, <1>2, <1>3 DEF JournalInv

\* Every event that a replay applies, or cannot, keeps the invariant.
LEMMA JournalStep == JournalInv /\ [Next]_vars => JournalInv'
<1> SUFFICES ASSUME JournalInv, [Next]_vars PROVE JournalInv'
  OBVIOUS
<1> USE DEF JournalInv
<1>0. base \in Entries /\ target \in Entries /\ entries \in Entries
  BY ManifestIsTree, RebuiltEntries DEF Journalled
<1>1. CASE WriteLine
  <2>1. PICK e \in First(unwritten) : unwritten' = unwritten \ {e} /\ journal' = journal \cup {e}
    BY <1>1 DEF WriteLine
  <2>2. Journalled'
    BY <1>1, <2>1 DEF WriteLine, Journalled, First
  <2>3. Rebuilt'
    BY <1>1, <2>1 DEF WriteLine, Rebuilt, RebuiltFrom
  <2>4. Replaying'
    BY <1>1, <2>1 DEF WriteLine, Replaying
  <2> QED
    BY <2>2, <2>3, <2>4
<1>2. CASE ReadTorn \/ ReadEmpty \/ MaterializeFails
  BY <1>2 DEF ReadTorn, ReadEmpty, MaterializeFails, Journalled, Rebuilt, RebuiltFrom, Replaying
<1>3. ASSUME NEW s \in SUBSET journal, BeginReplay(s) PROVE JournalInv'
  <2>1. Journalled'
    BY <1>3 DEF BeginReplay, Journalled
  <2>2. RebuiltFrom({})'
    BY <1>0, <1>3 DEF BeginReplay, RebuiltFrom, Entries
  <2>3. {} = journal' \ (todo' \cup skip')
    BY <1>3 DEF BeginReplay
  <2>4. Rebuilt'
    BY <2>2, <2>3 DEF Rebuilt
  <2>5. Replaying'
    BY <1>3 DEF BeginReplay, Replaying
  <2> QED
    BY <2>1, <2>4, <2>5
<1>4. CASE SkipEvent
  <2>1. PICK e \in First(todo) \cap skip : todo' = todo \ {e}
    BY <1>4 DEF SkipEvent
  <2>2. journal' \ (todo' \cup skip') = journal \ (todo \cup skip)
    BY <1>4, <2>1 DEF SkipEvent
  <2>3. Rebuilt'
    BY <1>4, <2>2 DEF SkipEvent, Rebuilt, RebuiltFrom
  <2>4. Journalled' /\ Replaying'
    BY <1>4, <2>1 DEF SkipEvent, Journalled, Replaying
  <2> QED
    BY <2>3, <2>4
<1>5. CASE ApplyEvent
  <2>1. PICK e \in First(todo) \ skip : entries' = Apply(entries, e) /\ todo' = todo \ {e}
    BY <1>5 DEF ApplyEvent
  <2>2. e \in journal /\ e \in todo /\ e \in Changes(base, target)
    BY <2>1 DEF First, Replaying, Journalled
  <2> DEFINE applied == journal \ (todo \cup skip)
  <2>3. RebuiltFrom(applied)
    BY <1>5 DEF ApplyEvent, Rebuilt
  <2>4. entries' = [p \in Paths |-> IF Touches(e, p) THEN target[p] ELSE entries[p]]
    BY <1>0, <2>1, <2>2, ApplyMoves
  <2>5. applied \cup {e} = journal' \ (todo' \cup skip')
    BY <1>5, <2>1, <2>2 DEF ApplyEvent
  <2>6. entries' = [p \in Paths |-> IF \E d \in applied \cup {e} : Touches(d, p)
                                    THEN target[p] ELSE base[p]]
    BY <2>3, <2>4 DEF RebuiltFrom
  <2>7. Rebuilt'
    BY <1>5, <2>5, <2>6 DEF ApplyEvent, Rebuilt, RebuiltFrom
  <2>8. Journalled' /\ Replaying'
    BY <1>5, <2>1 DEF ApplyEvent, Journalled, Replaying
  <2> QED
    BY <2>7, <2>8
<1>6. CASE Materialize
  <2>1. Journalled' /\ Rebuilt'
    BY <1>6 DEF Materialize, Journalled, Rebuilt, RebuiltFrom
  <2>2. view' \in Manifests
    BY <1>0, <1>6, MaterializedIsTree DEF Materialize
  <2> QED
    BY <1>6, <2>1, <2>2 DEF Materialize, Replaying
<1>7. CASE UNCHANGED vars
  BY <1>7 DEF vars, Journalled, Rebuilt, RebuiltFrom, Replaying
<1> QED
  BY <1>1, <1>2, <1>3, <1>4, <1>5, <1>6, <1>7 DEF Next

\* The invariant holds in every state of a replay.
LEMMA JournalInvariant == Spec => []JournalInv
BY JournalInit, JournalStep, PTL DEF Spec

-----------------------------------------------------------------------------
(* What the invariant says of the diff and the replay. *)

\* Every replay writes a tree, and the journal with what is still to be
\* written is exactly the diff of the two checkpoints.
THEOREM JournalTypeOK == Spec => []TypeOK
<1>1. JournalInv => TypeOK
  <2> SUFFICES ASSUME JournalInv PROVE TypeOK
    OBVIOUS
  <2>1. entries \in Entries
    BY ManifestIsTree, RebuiltEntries DEF JournalInv, Journalled
  <2> QED
    BY <2>1 DEF JournalInv, Journalled, Replaying, TypeOK, Entries
<1> QED
  BY <1>1, JournalInvariant, PTL

\* Whatever a limit leaves out, no path of the rebuilt manifest is anything
\* but what it was before or after the run.
THEOREM JournalBaseOrTarget == Spec => []BaseOrTarget
<1>1. JournalInv => BaseOrTarget
  BY DEF JournalInv, Rebuilt, RebuiltFrom, BaseOrTarget
<1> QED
  BY <1>1, JournalInvariant, PTL

\* A replay of the whole journal without a limit gives checkpoint_after.
THEOREM JournalFullReplayExact == Spec => []FullReplayExact
<1>1. JournalInv => FullReplayExact
  <2> SUFFICES ASSUME JournalInv, phase = "done", unwritten = {}, skip = {} PROVE view = target
    BY DEF FullReplayExact
  <2>0. base \in Entries /\ target \in Entries
    BY ManifestIsTree DEF JournalInv, Journalled
  <2>1. journal = Changes(base, target) /\ RebuiltFrom(journal)
    BY DEF JournalInv, Journalled, Rebuilt, Replaying
  <2>2. \A p \in Paths : (\E e \in journal : Touches(e, p)) \/ base[p] = target[p]
    BY <2>0, <2>1, Covered
  <2>3. entries = target
    BY <2>0, <2>1, <2>2 DEF RebuiltFrom, Entries
  <2> QED
    BY <2>3, MaterializedTree DEF JournalInv, Journalled, Replaying
<1> QED
  BY <1>1, JournalInvariant, PTL

\* The two ends of a rename move together: the file is at one of them at
\* every point of a replay.
THEOREM JournalRenameMoves == Spec => []RenameMoves
<1>1. JournalInv => RenameMoves
  <2> SUFFICES ASSUME JournalInv, NEW r \in Renames(base, target)
               PROVE  entries[r[1]] = None <=> entries[r[2]] # None
    BY DEF RenameMoves
  <2>0. base \in Entries /\ target \in Entries
    BY ManifestIsTree DEF JournalInv, Journalled
  <2> DEFINE e == Event("rename", r[2], r[1], target[r[2]])
  <2>1. e \in Changes(base, target) /\ Touches(e, r[1]) /\ Touches(e, r[2])
    BY DEF Changes, Touches, Event
  <2>2. PICK applied \in SUBSET journal : RebuiltFrom(applied)
    BY DEF JournalInv, Rebuilt
  <2>3. \A d \in applied : d \in Changes(base, target)
    BY DEF JournalInv, Journalled
  <2>4. r[1] \in Paths /\ r[2] \in Paths
    BY RenameEnds
  <2> HIDE DEF e
  <2>5. CASE e \in applied
    <3>1. entries[r[1]] = target[r[1]] /\ entries[r[2]] = target[r[2]]
      BY <2>1, <2>2, <2>4, <2>5 DEF RebuiltFrom
    <3> QED
      BY <3>1, RenameEnds
  <2>6. CASE e \notin applied
    <3>1. \A d \in applied : ~Touches(d, r[1]) /\ ~Touches(d, r[2])
      BY <2>0, <2>1, <2>3, <2>4, <2>6, OneEvent
    <3>2. entries[r[1]] = base[r[1]] /\ entries[r[2]] = base[r[2]]
      BY <2>2, <2>4, <3>1 DEF RebuiltFrom
    <3> QED
      BY <3>2, RenameEnds
  <2> QED
    BY <2>5, <2>6
<1> QED
  BY <1>1, JournalInvariant, PTL

\* Rename detection is a maximal matching of deleted and added files of the
\* same content.
THEOREM JournalRenamesMatch == Spec => []RenamesMatch
<1>1. JournalInv => RenamesMatch
  <2> SUFFICES ASSUME JournalInv PROVE RenamesMatch
    OBVIOUS
  <2>1. base \in Entries /\ target \in Entries
    BY ManifestIsTree DEF JournalInv, Journalled
  <2> QED
    BY <2>1, Matching DEF RenamesMatch
<1> QED
  BY <1>1, JournalInvariant, PTL

\* A manifest rebuilt under a limit has a file in the way of another entry
\* only if the run turned a file into a directory or a directory into a file:
\* the journal lists directories before what they hold.
THEOREM JournalOnlyTypeChangesBlock == Spec => []OnlyTypeChangesBlock
<1>1. JournalInv => OnlyTypeChangesBlock
  <2> SUFFICES ASSUME JournalInv, phase = "replay", todo = {},
                      NEW p \in Paths, entries[p] # None,
                      NEW a \in Above[p], entries[a].kind = "file"
               PROVE  \E e \in journal : e.op = "type_change"
    BY DEF OnlyTypeChangesBlock, Blocked
  <2>0. /\ base \in Entries /\ target \in Entries /\ entries \in Entries
        /\ a \in Paths /\ <<a, p>> \in Less
    BY ManifestIsTree, RebuiltEntries, JournalAssumptions DEF JournalInv, Journalled
  <2> DEFINE applied == journal \ skip
  <2>1. RebuiltFrom(applied) /\ applied \subseteq journal
    BY DEF JournalInv, Rebuilt
  <2>2. \A d \in applied : d \in Changes(base, target)
    BY <2>1 DEF JournalInv, Journalled
  <2>3. \A q \in Paths : entries[q] \in {base[q], target[q]}
    BY <2>1 DEF RebuiltFrom
  <2>4. \A q \in Paths : entries[q] # base[q] => \E d \in applied : Touches(d, q)
    BY <2>1 DEF RebuiltFrom
  <2>5. /\ base[p] # None => base[a] = Dir
        /\ target[p] # None => target[a] = Dir
        /\ entries[a] # Dir
    BY <2>0, ManifestIsTree, Kinds DEF JournalInv, Journalled
  <2>6. ASSUME NEW d \in Changes(base, target), Touches(d, a), base[a] # None, target[a] # None
        PROVE  d.path = a /\ d.op = Kind(base[a], target[a])
    <3>1. Says(base, target, d)
      BY <2>0, EventFacts
    <3>2. CASE d.op = "rename"
      <4>1. <<d.source, d.path>> \in Renames(base, target)
        BY <3>1, <3>2 DEF Says
      <4>2. base[d.path] = None /\ target[d.source] = None
        BY <4>1, RenameEnds
      <4> QED
        BY <2>6, <4>2 DEF Touches
    <3> QED
      BY <2>6, <3>1, <3>2 DEF Says, Touches
  <2> HIDE DEF applied
  \* The directory became a file, and p was not removed.
  <2>7. CASE entries[a] # base[a]
    <3>1. entries[a] = target[a] /\ target[p] = None
      BY <2>0, <2>3, <2>5, <2>7
    <3>2. base[a] = Dir
      BY <2>3, <2>5, <3>1
    <3>3. PICK d \in applied : Touches(d, a)
      BY <2>0, <2>4, <2>7
    <3>4. d.op = Kind(base[a], target[a])
      BY <2>0, <2>2, <2>5, <2>6, <3>1, <3>2, <3>3, Kinds
    <3>5. Kind(base[a], target[a]) = "type_change"
      BY <2>0, <3>1, <3>2, Kinds DEF Kind
    <3> QED
      BY <2>1, <3>4, <3>5
  \* The file became a directory, and p appeared: later in the journal.
  <2>8. CASE entries[a] = base[a]
    <3>1. base[p] = None /\ entries[p] = target[p] /\ target[a] = Dir
      BY <2>0, <2>3, <2>5, <2>8
    <3>2. base[a] # None /\ base[a] # target[a] /\ Kind(base[a], target[a]) = "type_change"
      BY <2>0, <2>5, <2>8, <3>1, Kinds DEF Kind
    <3>3. PICK e \in Changes(base, target) : e.path = a /\ e.op = Kind(base[a], target[a])
      BY <2>0, <3>1, <3>2, Covered, Kinds
    <3>4. PICK d \in applied : Touches(d, p)
      BY <2>4, <3>1
    <3>5. d.path = p
      <4>1. Says(base, target, d)
        BY <2>0, <2>2, EventFacts
      <4>2. CASE d.op = "rename"
        <5>1. <<d.source, d.path>> \in Renames(base, target)
          BY <4>1, <4>2 DEF Says
        <5>2. target[d.source] = None
          BY <5>1, RenameEnds
        <5> QED
          BY <2>3, <3>1, <3>4, <5>2 DEF Touches
      <4> QED
        BY <3>4, <4>1, <4>2 DEF Touches
    <3>6. e \notin unwritten
      BY <2>0, <2>1, <3>3, <3>5, JournalAssumptions DEF JournalInv, Journalled
    <3> QED
      BY <3>2, <3>3, <3>6 DEF JournalInv, Journalled
  <2> QED
    BY <2>7, <2>8
<1> QED
  BY <1>1, JournalInvariant, PTL

=============================================================================
