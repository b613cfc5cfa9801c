------------------------- MODULE ObjectStoreProofs -------------------------
(* Theorems about ObjectStore, for every set of processes, paths, contents *)
(* and checkpoint ids.                                                     *)
EXTENDS ObjectStore, TLAPS

\* What a process may assume of the manifest it works on.
Locals ==
    \A p \in Procs :
        /\ linked[p] => pc[p] = "write"
        /\ pc[p] \in {"walk", "probe", "create", "write"} => manifest[ck[p]] = "absent"
        /\ pc[p] = "seal" => manifest[ck[p]] = "torn"
        /\ pc[p] = "commit" => manifest[ck[p]] # "absent"
        /\ pc[p] = "point" => manifest[ck[p]] = "whole"

\* Two processes never build the same manifest.
OneBuilder ==
    \A p, q \in Procs : Creating(p) /\ Creating(q) /\ ck[p] = ck[q] => p = q

\* A checkpoint under construction overlaps no gc, or is exposed.
BuiltAlone ==
    \A p, q \in Procs : Creating(p) /\ Collecting(q) => ck[p] \in exposed

\* What the walk has recorded, and what it has open, is in objects/.
BuiltPresent ==
    \A p \in Procs : Creating(p) /\ ck[p] \notin exposed =>
        /\ \A c \in Refs(ck[p]) : objects[c] # "absent"
        /\ pc[p] = "write" => objects[obj[p]] # "absent"

\* gc has read, or still has to read, every checkpoint it must not harm, and
\* sweeps with all their objects in keep.
GcKnows ==
    \A q \in Procs, k \in Ckpts \ exposed :
        /\ pc[q] = "load" /\ manifest[k] = "whole" => k \in todo[q] \/ Refs(k) \subseteq keep[q]
        /\ pc[q] = "load" /\ manifest[k] = "torn" => k \in todo[q]
        /\ pc[q] = "sweep" /\ manifest[k] = "whole" => Refs(k) \subseteq keep[q]

\* A torn object is being written, or its writer failed.
TornExplained ==
    \A c \in Contents : objects[c] = "torn" =>
        c \in spoiled \/ \E p \in Procs : Writing(p, c)

\* The parent links, stated without the manifest's state.
ParentsSealed ==
    \A k \in Ckpts : parent[k] # NoCkpt => parent[k] # k /\ manifest[parent[k]] = "whole"

\* What an undisturbed walk has recorded so far.
WalkExact ==
    \A p \in Procs : Creating(p) /\ quiet[p] =>
        /\ pc[p] = "seal" => todo[p] = {}
        /\ pc[p] \in {"probe", "create", "write"} => obj[p] = ws[path[p]]
        /\ \A f \in Paths \ todo[p] :
              \/ entries[ck[p]][f] = ws[f]
              \/ pc[p] \in {"probe", "create", "write"} /\ path[p] = f

StoreInv ==
    /\ TypeOK /\ Locals /\ OneBuilder
    /\ BuiltAlone /\ BuiltPresent /\ SealedObjectsPresent /\ GcKnows
    /\ TornExplained /\ HistorySealed /\ ParentsSealed
    /\ SweepReadEveryManifest /\ WalkExact

-----------------------------------------------------------------------------
\* Every step of every process keeps the types (TypeOK).
LEMMA TypeStep == ASSUME TypeOK, [Next]_vars PROVE TypeOK'
<1> USE DEF files, local, history
<1>1. ASSUME NEW f \in Paths, NEW c \in Contents \cup {NoFile}, Edit(f, c) PROVE TypeOK'
  BY <1>1, StoreAssumptions DEF TypeOK, Edit
<1>2. ASSUME NEW p \in Procs, NEW k \in Ckpts, NEW u \in BOOLEAN, BeginCheckpoint(p, k, u) PROVE TypeOK'
  BY <1>2, StoreAssumptions DEF TypeOK, BeginCheckpoint
<1>3. ASSUME NEW p \in Procs, NEW f \in Paths, ReadFile(p, f) PROVE TypeOK'
  BY <1>3 DEF TypeOK, ReadFile
<1>4. ASSUME NEW p \in Procs, NEW f \in Paths, FileVanished(p, f) PROVE TypeOK'
  BY <1>4, StoreAssumptions DEF TypeOK, FileVanished, Return
<1>5. ASSUME NEW p \in Procs, ReuseObject(p) PROVE TypeOK'
  BY <1>5 DEF TypeOK, ReuseObject, Record
<1>6. ASSUME NEW p \in Procs, MissObject(p) PROVE TypeOK'
  BY <1>6 DEF TypeOK, MissObject
<1>7. ASSUME NEW p \in Procs, CreateObject(p) PROVE TypeOK'
  BY <1>7 DEF TypeOK, CreateObject
<1>8. ASSUME NEW p \in Procs, WriteObject(p) PROVE TypeOK'
  BY <1>8 DEF TypeOK, WriteObject, Record
<1>9. ASSUME NEW p \in Procs, CreateManifest(p) PROVE TypeOK'
  BY <1>9 DEF TypeOK, CreateManifest
<1>10. ASSUME NEW p \in Procs, SealManifest(p) PROVE TypeOK'
  BY <1>10, StoreAssumptions DEF TypeOK, SealManifest, Return
<1>11. ASSUME NEW p \in Procs, SealThenCommit(p) PROVE TypeOK'
  BY <1>11 DEF TypeOK, SealThenCommit
<1>12. ASSUME NEW p \in Procs, NEW k \in Ckpts, BeginCommit(p, k) PROVE TypeOK'
  BY <1>12 DEF TypeOK, BeginCommit
<1>13. ASSUME NEW p \in Procs, TruncateHead(p) PROVE TypeOK'
  BY <1>13 DEF TypeOK, TruncateHead
<1>14. ASSUME NEW p \in Procs, RefuseCommit(p) PROVE TypeOK'
  BY <1>14, StoreAssumptions DEF TypeOK, RefuseCommit, Return
<1>15. ASSUME NEW p \in Procs, WriteHead(p) PROVE TypeOK'
  BY <1>15, StoreAssumptions DEF TypeOK, WriteHead, Return
<1>16. ASSUME NEW p \in Procs, BeginGc(p) PROVE TypeOK'
  <2>1. exposed' \subseteq Ckpts
    BY <1>16 DEF TypeOK, BeginGc, Creating
  <2> QED
    BY <1>16, <2>1 DEF TypeOK, BeginGc
<1>17. ASSUME NEW p \in Procs, NEW k \in Ckpts, LoadManifest(p, k) PROVE TypeOK'
  <2>1. entries[k] \in [Paths -> Contents \cup {NoFile}]
    BY DEF TypeOK
  <2>2. Refs(k) \subseteq Contents
    BY <2>1 DEF Refs
  <2> QED
    BY <1>17, <2>2 DEF TypeOK, LoadManifest
<1>18. ASSUME NEW p \in Procs, NEW k \in Ckpts, LoadTorn(p, k) PROVE TypeOK'
  BY <1>18, StoreAssumptions DEF TypeOK, LoadTorn, Return
<1>19. ASSUME NEW p \in Procs, ListObjects(p) PROVE TypeOK'
  BY <1>19 DEF TypeOK, ListObjects
<1>20. ASSUME NEW p \in Procs, NEW c \in Contents, RemoveObject(p, c) PROVE TypeOK'
  BY <1>20 DEF TypeOK, RemoveObject
<1>21. ASSUME NEW p \in Procs, FinishGc(p) PROVE TypeOK'
  BY <1>21, StoreAssumptions DEF TypeOK, FinishGc, Return
<1>22. ASSUME NEW p \in Procs, Fail(p) PROVE TypeOK'
  <2>1. spoiled' \subseteq Contents
    BY <1>22 DEF TypeOK, Fail, Writing
  <2> QED
    BY <1>22, <2>1, StoreAssumptions DEF TypeOK, Fail, Return
<1>23. CASE UNCHANGED vars
  BY <1>23 DEF TypeOK, vars
<1> QED
  BY <1>1, <1>2, <1>3, <1>4, <1>5, <1>6, <1>7, <1>8, <1>9, <1>10, <1>11, <1>12, <1>13,
     <1>14, <1>15, <1>16, <1>17, <1>18, <1>19, <1>20, <1>21, <1>22, <1>23 DEF Next,
     Checkpointing, Committing, GarbageCollecting

\* Every step keeps the inductive invariant.  Under each action stand the
\* parts it can disturb; the others follow from the frame of the action.
LEMMA StoreStep == ASSUME StoreInv, [Next]_vars PROVE StoreInv'
<1> USE DEF StoreInv, files, local, history
<1>0. TypeOK'
  BY TypeStep
<1>1. ASSUME NEW f \in Paths, NEW c \in Contents \cup {NoFile}, Edit(f, c) PROVE StoreInv'
  <2>1. WalkExact'
    BY <1>0, <1>1 DEF TypeOK, WalkExact, Edit, Creating
  <2> QED
    BY <1>0, <1>1, <2>1 DEF TypeOK, Locals, OneBuilder, BuiltAlone, BuiltPresent,
       SealedObjectsPresent, GcKnows, TornExplained, HistorySealed, ParentsSealed,
       SweepReadEveryManifest, Edit, Refs, Creating, Collecting, Writing
<1>2. ASSUME NEW p \in Procs, NEW k \in Ckpts, NEW u \in BOOLEAN, BeginCheckpoint(p, k, u) PROVE StoreInv'
  <2>1. OneBuilder'
    BY <1>0, <1>2 DEF TypeOK, OneBuilder, BeginCheckpoint, Creating
  <2>2. BuiltAlone'
    BY <1>0, <1>2 DEF TypeOK, BuiltAlone, BeginCheckpoint, Creating, Collecting
  <2>3. BuiltPresent'
    BY <1>0, <1>2 DEF TypeOK, BuiltPresent, Locals, BeginCheckpoint, Creating, Refs
  <2>4. ParentsSealed'
    BY <1>0, <1>2 DEF TypeOK, HistorySealed, ParentsSealed, BeginCheckpoint
  <2>5. WalkExact'
    BY <1>0, <1>2 DEF TypeOK, WalkExact, BeginCheckpoint, Creating
  <2> QED
    BY <1>0, <1>2, <2>1, <2>2, <2>3, <2>4, <2>5 DEF TypeOK, Locals, SealedObjectsPresent,
       GcKnows, TornExplained, HistorySealed, SweepReadEveryManifest, BeginCheckpoint, Refs,
       Creating, Collecting, Writing
<1>3. ASSUME NEW p \in Procs, NEW f \in Paths, ReadFile(p, f) PROVE StoreInv'
  <2>1. WalkExact'
    BY <1>0, <1>3 DEF TypeOK, WalkExact, ReadFile, Creating
  <2> QED
    BY <1>0, <1>3, <2>1 DEF TypeOK, Locals, OneBuilder, BuiltAlone, BuiltPresent,
       SealedObjectsPresent, GcKnows, TornExplained, HistorySealed, ParentsSealed,
       SweepReadEveryManifest, ReadFile, Refs, Creating, Collecting, Writing
<1>4. ASSUME NEW p \in Procs, NEW f \in Paths, FileVanished(p, f) PROVE StoreInv'
  BY <1>0, <1>4 DEF TypeOK, Locals, OneBuilder, BuiltAlone, BuiltPresent,
     SealedObjectsPresent, GcKnows, TornExplained, HistorySealed, ParentsSealed,
     SweepReadEveryManifest, WalkExact, FileVanished, Return, Refs, Creating, Collecting,
     Writing
<1>5. ASSUME NEW p \in Procs, ReuseObject(p) PROVE StoreInv'
  <2>1. BuiltPresent'
    BY <1>0, <1>5 DEF TypeOK, BuiltPresent, OneBuilder, ReuseObject, Record, Creating, Refs
  <2>2. WalkExact'
    BY <1>0, <1>5 DEF TypeOK, WalkExact, OneBuilder, ReuseObject, Record, Creating
  <2> QED
    BY <1>0, <1>5, <2>1, <2>2 DEF TypeOK, Locals, OneBuilder, BuiltAlone,
       SealedObjectsPresent, GcKnows, TornExplained, HistorySealed, ParentsSealed,
       SweepReadEveryManifest, ReuseObject, Record, Refs, Creating, Collecting, Writing
<1>6. ASSUME NEW p \in Procs, MissObject(p) PROVE StoreInv'
  BY <1>0, <1>6 DEF TypeOK, Locals, OneBuilder, BuiltAlone, BuiltPresent,
     SealedObjectsPresent, GcKnows, TornExplained, HistorySealed, ParentsSealed,
     SweepReadEveryManifest, WalkExact, MissObject, Refs, Creating, Collecting, Writing
<1>7. ASSUME NEW p \in Procs, CreateObject(p) PROVE StoreInv'
  <2>1. TornExplained'
    BY <1>0, <1>7 DEF TypeOK, TornExplained, CreateObject, Writing
  <2> QED
    BY <1>0, <1>7, <2>1 DEF TypeOK, Locals, OneBuilder, BuiltAlone, BuiltPresent,
       SealedObjectsPresent, GcKnows, HistorySealed, ParentsSealed, SweepReadEveryManifest,
       WalkExact, CreateObject, Refs, Creating, Collecting, Writing
<1>8. ASSUME NEW p \in Procs, WriteObject(p) PROVE StoreInv'
  <2>1. BuiltPresent'
    BY <1>0, <1>8 DEF TypeOK, BuiltPresent, OneBuilder, Locals, WriteObject, Record,
       Creating, Refs
  <2>2. TornExplained'
    BY <1>0, <1>8 DEF TypeOK, TornExplained, WriteObject, Record, Writing
  <2>3. WalkExact'
    BY <1>0, <1>8 DEF TypeOK, WalkExact, OneBuilder, WriteObject, Record, Creating
  <2> QED
    BY <1>0, <1>8, <2>1, <2>2, <2>3 DEF TypeOK, Locals, OneBuilder, BuiltAlone,
       SealedObjectsPresent, GcKnows, HistorySealed, ParentsSealed, SweepReadEveryManifest,
       WriteObject, Record, Refs, Creating, Collecting, Writing
<1>9. ASSUME NEW p \in Procs, CreateManifest(p) PROVE StoreInv'
  <2>1. Locals'
    BY <1>0, <1>9 DEF TypeOK, Locals, OneBuilder, CreateManifest, Creating
  <2>2. GcKnows'
    BY <1>0, <1>9 DEF TypeOK, GcKnows, BuiltAlone, Locals, CreateManifest, Refs, Creating,
       Collecting
  <2>3. SweepReadEveryManifest'
    BY <1>0, <1>9 DEF TypeOK, SweepReadEveryManifest, BuiltAlone, CreateManifest, Creating,
       Collecting
  <2>4. HistorySealed'
    BY <1>0, <1>9 DEF TypeOK, HistorySealed, ParentsSealed, Locals, CreateManifest
  <2>5. ParentsSealed'
    BY <1>0, <1>9 DEF TypeOK, ParentsSealed, Locals, CreateManifest
  <2> QED
    BY <1>0, <1>9, <2>1, <2>2, <2>3, <2>4, <2>5 DEF TypeOK, OneBuilder, BuiltAlone,
       BuiltPresent, SealedObjectsPresent, TornExplained, WalkExact, CreateManifest, Refs,
       Creating, Collecting, Writing
<1>10. ASSUME NEW p \in Procs, SealManifest(p) PROVE StoreInv'
  <2>1. SealedObjectsPresent'
    BY <1>0, <1>10 DEF TypeOK, SealedObjectsPresent, BuiltPresent, SealManifest, Return,
       Refs, Creating
  <2>2. GcKnows'
    BY <1>0, <1>10 DEF TypeOK, GcKnows, BuiltAlone, SealManifest, Return, Refs, Creating,
       Collecting
  <2> QED
    BY <1>0, <1>10, <2>1, <2>2 DEF TypeOK, Locals, OneBuilder, BuiltAlone, BuiltPresent,
       TornExplained, HistorySealed, ParentsSealed, SweepReadEveryManifest, WalkExact,
       SealManifest, Return, Refs, Creating, Collecting, Writing
<1>11. ASSUME NEW p \in Procs, SealThenCommit(p) PROVE StoreInv'
  <2>1. SealedObjectsPresent'
    BY <1>0, <1>11 DEF TypeOK, SealedObjectsPresent, BuiltPresent, SealThenCommit, Refs,
       Creating
  <2>2. GcKnows'
    BY <1>0, <1>11 DEF TypeOK, GcKnows, BuiltAlone, SealThenCommit, Refs, Creating,
       Collecting
  <2> QED
    BY <1>0, <1>11, <2>1, <2>2 DEF TypeOK, Locals, OneBuilder, BuiltAlone, BuiltPresent,
       TornExplained, HistorySealed, ParentsSealed, SweepReadEveryManifest, WalkExact,
       SealThenCommit, Refs, Creating, Collecting, Writing
<1>12. ASSUME NEW p \in Procs, NEW k \in Ckpts, BeginCommit(p, k) PROVE StoreInv'
  BY <1>0, <1>12 DEF TypeOK, Locals, OneBuilder, BuiltAlone, BuiltPresent,
     SealedObjectsPresent, GcKnows, TornExplained, HistorySealed, ParentsSealed,
     SweepReadEveryManifest, WalkExact, BeginCommit, Refs, Creating, Collecting, Writing
<1>13. ASSUME NEW p \in Procs, TruncateHead(p) PROVE StoreInv'
  BY <1>0, <1>13 DEF TypeOK, Locals, OneBuilder, BuiltAlone, BuiltPresent,
     SealedObjectsPresent, GcKnows, TornExplained, HistorySealed, ParentsSealed,
     SweepReadEveryManifest, WalkExact, TruncateHead, Refs, Creating, Collecting, Writing
<1>14. ASSUME NEW p \in Procs, RefuseCommit(p) PROVE StoreInv'
  BY <1>0, <1>14 DEF TypeOK, Locals, OneBuilder, BuiltAlone, BuiltPresent,
     SealedObjectsPresent, GcKnows, TornExplained, HistorySealed, ParentsSealed,
     SweepReadEveryManifest, WalkExact, RefuseCommit, Return, Refs, Creating, Collecting,
     Writing
<1>15. ASSUME NEW p \in Procs, WriteHead(p) PROVE StoreInv'
  <2>1. HistorySealed'
    BY <1>0, <1>15 DEF TypeOK, HistorySealed, Locals, WriteHead, Return
  <2> QED
    BY <1>0, <1>15, <2>1 DEF TypeOK, Locals, OneBuilder, BuiltAlone, BuiltPresent,
       SealedObjectsPresent, GcKnows, TornExplained, ParentsSealed, SweepReadEveryManifest,
       WalkExact, WriteHead, Return, Refs, Creating, Collecting, Writing
<1>16. ASSUME NEW p \in Procs, BeginGc(p) PROVE StoreInv'
  <2>1. BuiltAlone'
    BY <1>0, <1>16 DEF TypeOK, BuiltAlone, BeginGc, Creating, Collecting
  <2>2. GcKnows'
    BY <1>0, <1>16 DEF TypeOK, GcKnows, BeginGc, Refs
  <2> QED
    BY <1>0, <1>16, <2>1, <2>2 DEF TypeOK, Locals, OneBuilder, BuiltPresent,
       SealedObjectsPresent, TornExplained, HistorySealed, ParentsSealed,
       SweepReadEveryManifest, WalkExact, BeginGc, Refs, Creating, Collecting, Writing
<1>17. ASSUME NEW p \in Procs, NEW k \in Ckpts, LoadManifest(p, k) PROVE StoreInv'
  <2>1. GcKnows'
    BY <1>0, <1>17 DEF TypeOK, GcKnows, LoadManifest, Refs
  <2> QED
    BY <1>0, <1>17, <2>1 DEF TypeOK, Locals, OneBuilder, BuiltAlone, BuiltPresent,
       SealedObjectsPresent, TornExplained, HistorySealed, ParentsSealed,
       SweepReadEveryManifest, WalkExact, LoadManifest, Refs, Creating, Collecting, Writing
<1>18. ASSUME NEW p \in Procs, NEW k \in Ckpts, LoadTorn(p, k) PROVE StoreInv'
  BY <1>0, <1>18 DEF TypeOK, Locals, OneBuilder, BuiltAlone, BuiltPresent,
     SealedObjectsPresent, GcKnows, TornExplained, HistorySealed, ParentsSealed,
     SweepReadEveryManifest, WalkExact, LoadTorn, Return, Refs, Creating, Collecting,
     Writing
<1>19. ASSUME NEW p \in Procs, ListObjects(p) PROVE StoreInv'
  <2>1. GcKnows'
    BY <1>0, <1>19 DEF TypeOK, GcKnows, ListObjects, Refs
  <2>2. SweepReadEveryManifest'
    BY <1>0, <1>19 DEF TypeOK, SweepReadEveryManifest, GcKnows, ListObjects, Refs
  <2> QED
    BY <1>0, <1>19, <2>1, <2>2 DEF TypeOK, Locals, OneBuilder, BuiltAlone, BuiltPresent,
       SealedObjectsPresent, TornExplained, HistorySealed, ParentsSealed, WalkExact,
       ListObjects, Refs, Creating, Collecting, Writing
<1>20. ASSUME NEW p \in Procs, NEW c \in Contents, RemoveObject(p, c) PROVE StoreInv'
  <2>1. BuiltPresent'
    BY <1>0, <1>20 DEF TypeOK, BuiltPresent, BuiltAlone, RemoveObject, Creating, Refs,
       Collecting
  <2>2. SealedObjectsPresent'
    BY <1>0, <1>20 DEF TypeOK, SealedObjectsPresent, GcKnows, RemoveObject, Refs
  <2>3. TornExplained'
    BY <1>0, <1>20 DEF TypeOK, TornExplained, Locals, RemoveObject, Writing
  <2> QED
    BY <1>0, <1>20, <2>1, <2>2, <2>3 DEF TypeOK, Locals, OneBuilder, BuiltAlone, GcKnows,
       HistorySealed, ParentsSealed, SweepReadEveryManifest, WalkExact, RemoveObject, Refs,
       Creating, Collecting, Writing
<1>21. ASSUME NEW p \in Procs, FinishGc(p) PROVE StoreInv'
  BY <1>0, <1>21 DEF TypeOK, Locals, OneBuilder, BuiltAlone, BuiltPresent,
     SealedObjectsPresent, GcKnows, TornExplained, HistorySealed, ParentsSealed,
     SweepReadEveryManifest, WalkExact, FinishGc, Return, Refs, Creating, Collecting,
     Writing
<1>22. ASSUME NEW p \in Procs, Fail(p) PROVE StoreInv'
  <2>1. TornExplained'
    BY <1>0, <1>22 DEF TypeOK, TornExplained, Locals, Fail, Return, Writing
  <2> QED
    BY <1>0, <1>22, <2>1 DEF TypeOK, Locals, OneBuilder, BuiltAlone, BuiltPresent,
       SealedObjectsPresent, GcKnows, HistorySealed, ParentsSealed, SweepReadEveryManifest,
       WalkExact, Fail, Return, Refs, Creating, Collecting, Writing
<1>23. CASE UNCHANGED vars
  BY <1>23 DEF vars, TypeOK, Locals, OneBuilder, BuiltAlone, BuiltPresent,
     SealedObjectsPresent, GcKnows, TornExplained, HistorySealed, ParentsSealed,
     SweepReadEveryManifest, WalkExact, Refs, Creating, Collecting, Writing
<1> QED
  BY <1>1, <1>2, <1>3, <1>4, <1>5, <1>6, <1>7, <1>8, <1>9, <1>10, <1>11, <1>12, <1>13,
     <1>14, <1>15, <1>16, <1>17, <1>18, <1>19, <1>20, <1>21, <1>22, <1>23 DEF Next,
     Checkpointing, Committing, GarbageCollecting

\* The inductive invariant holds in every state.
LEMMA StoreInvariant == Spec => []StoreInv
<1>1. Init => StoreInv
  BY StoreAssumptions
     DEF Init, StoreInv, TypeOK, Locals, OneBuilder, BuiltAlone, BuiltPresent,
         SealedObjectsPresent, GcKnows, TornExplained, HistorySealed, ParentsSealed,
         SweepReadEveryManifest, WalkExact, Creating, Collecting, Refs
<1> QED
  BY <1>1, StoreStep, PTL DEF Spec

-----------------------------------------------------------------------------
\* The store and the locals of every process keep their types.
THEOREM TypeCorrect == Spec => []TypeOK
<1>1. StoreInv => TypeOK
  BY DEF StoreInv
<1> QED
  BY <1>1, StoreInvariant, PTL

\* gc never takes an object from a checkpoint whose creation it did not
\* overlap, however many processes create, commit and collect, and wherever
\* they fail.
THEOREM GcSafe == Spec => []SealedObjectsPresent
<1>1. StoreInv => SealedObjectsPresent
  BY DEF StoreInv
<1> QED
  BY <1>1, StoreInvariant, PTL

\* Such an object is whole, unless its writer is at work or failed.
THEOREM ObjectsIntact == Spec => []SealedObjectsIntact
<1>1. StoreInv => SealedObjectsIntact
  <2> SUFFICES ASSUME StoreInv,
                      NEW k \in Ckpts \ exposed, manifest[k] = "whole",
                      NEW c \in Refs(k) \ spoiled
               PROVE  objects[c] = "whole" \/ \E p \in Procs : Writing(p, c)
    BY DEF SealedObjectsIntact
  <2>1. c \in Contents
    <3>1. entries[k] \in [Paths -> Contents \cup {NoFile}]
      BY DEF StoreInv, TypeOK
    <3> QED
      BY <3>1 DEF Refs
  <2>2. objects[c] \in {"torn", "whole"}
    BY <2>1 DEF StoreInv, TypeOK, SealedObjectsPresent
  <2> QED
    BY <2>1, <2>2 DEF StoreInv, TornExplained
<1> QED
  BY <1>1, StoreInvariant, PTL

\* The head and every parent link name a readable manifest.
THEOREM HistoryNeverDangles == Spec => []HistorySealed
<1>1. StoreInv => HistorySealed
  BY DEF StoreInv
<1> QED
  BY <1>1, StoreInvariant, PTL

\* A gc sweeps only after it has read every manifest that existed.
THEOREM GcFailsSafe == Spec => []SweepReadEveryManifest
<1>1. StoreInv => SweepReadEveryManifest
  BY DEF StoreInv
<1> QED
  BY <1>1, StoreInvariant, PTL

\* A checkpoint no edit overlapped records the workspace exactly.
THEOREM SnapshotExact == Spec => []UndisturbedSnapshotExact
<1>1. StoreInv => UndisturbedSnapshotExact
  <2> SUFFICES ASSUME StoreInv, NEW p \in Procs, pc[p] = "seal", quiet[p]
               PROVE  entries[ck[p]] = ws
    BY DEF UndisturbedSnapshotExact
  <2>1. entries[ck[p]] \in [Paths -> Contents \cup {NoFile}]
        /\ ws \in [Paths -> Contents \cup {NoFile}]
    BY DEF StoreInv, TypeOK
  <2>2. \A f \in Paths : entries[ck[p]][f] = ws[f]
    BY DEF StoreInv, WalkExact, Creating
  <2> QED
    BY <2>1, <2>2
<1> QED
  BY <1>1, StoreInvariant, PTL

=============================================================================
