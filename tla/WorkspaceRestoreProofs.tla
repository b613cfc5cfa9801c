----------------------- MODULE WorkspaceRestoreProofs -----------------------
(* What an operation of WorkspaceRestore achieves on a workspace without   *)
(* symlinks, whatever its paths, its contents and the number of deaths.    *)
EXTENDS WorkspaceRestore, TLAPS

\* The types, with the symlinks excluded.
Types ==
    /\ tree \in [Paths -> {None, Dir} \cup Files \cup TornFiles]
    /\ target \in [Paths -> {None, Dir} \cup Files]
    /\ op = "rollback" => \A p \in Paths : p \in Ignored => target[p] = None
    /\ op \in Operations \cup {"none"}
    /\ pc \in {"idle", "remove", "build", "fill", "mode", "done", "error"}
    /\ todo \subseteq Paths /\ (pc = "remove" => todo \cap Ignored = {})
    /\ cur \subseteq todo
    /\ faults \in 0..MaxFaults

\* The copy in hand is of a file of the checkpoint: opened, then filled.
Copying ==
    /\ pc \in {"fill", "mode"} => \A p \in cur : target[p] \in Files
    /\ pc = "fill" => \A p \in cur : tree[p] = File(Torn, SourceMode(p))
    /\ pc = "mode" => \A p \in cur : tree[p] = File(target[p].data, SourceMode(p))
    /\ pc \notin {"fill", "mode"} => cur = {}

\* While entries are removed, all that must go is still listed; afterwards a
\* path the target does not have is gone, unless it is ignored, and one that
\* the target has and that is no longer listed is as it has it.
Progress ==
    /\ pc = "remove" => \A p \in Paths \ Ignored :
           tree[p] # None /\ target[p] = None => p \in todo
    /\ pc \in {"build", "fill", "mode", "done"} => \A p \in Paths :
           /\ p \notin Ignored /\ target[p] = None => tree[p] = None
           /\ p \notin todo /\ target[p] # None => tree[p] = target[p]
    /\ pc \in {"build", "fill", "mode"} => \A p \in todo : target[p] # None
    /\ pc = "done" => todo = {}

Trees == IsTree(tree) /\ IsTree(target)

\* A mode is that of an entry that is there.
Modes ==
    /\ locked \subseteq {p \in Paths : tree[p] = Dir} \cup {Root}
    /\ unreadable \subseteq {p \in Paths : tree[p].kind \in {"dir", "file"}}

RestoreInv == Types /\ Copying /\ Progress /\ Trees /\ Modes

-----------------------------------------------------------------------------
\* Every file an operation writes is one the type of the tree allows.
LEMMA IsFile == \A c \in Contents, r \in BOOLEAN : File(c, r) \in Files
BY DEF Files

\* A restore that starts without symlinks keeps the invariant.
LEMMA RestoreStep == ASSUME LinkTo = {}, RestoreInv, [Next]_vars PROVE RestoreInv'
<1> USE RestoreAssumptions DEF RestoreInv, None, Dir, File, Files, TornFiles
<1>0. \A p \in Paths : Follow(tree, p) = p /\ tree[p].kind # "link"
  BY DEF Types, Follow
<1>a. \A p \in Paths : SourceMode(p) \in BOOLEAN
  BY DEF SourceMode
<1>1. ASSUME NEW o \in Operations, Begin(o) PROVE RestoreInv'
  <2>1. Types'
    <3>1. /\ pc = "idle" /\ cur = {} /\ cur' = {} /\ op' = o
          /\ o = "rollback" => target = Walk(target)
          /\ UNCHANGED <<tree, target, faults>>
      BY <1>1 DEF Begin, Copying
    <3>2. op' = "rollback" => \A p \in Paths : p \in Ignored => target'[p] = None
      BY <3>1 DEF Walk
    <3>3. \/ pc' = "remove" /\ todo' = Removable(o)
          \/ pc' = "error" /\ todo' = todo
      BY <1>1 DEF Begin
    <3>4. todo' \subseteq Paths /\ (pc' = "remove" => todo' \cap Ignored = {})
      <4>1. CASE pc' = "remove" /\ todo' = Removable(o)
        <5>1. \A p \in Removable(o) : p \in Paths /\ Walk(tree)[p] # None
          BY DEF Removable
        <5>2. \A p \in Paths : p \in Ignored => Walk(tree)[p] = None
          BY DEF Walk
        <5> QED
          BY <4>1, <5>1, <5>2
      <4>2. CASE pc' = "error" /\ todo' = todo
        BY <4>2 DEF Types
      <4> QED
        BY <3>3, <4>1, <4>2
    <3> QED
      BY <3>1, <3>2, <3>3, <3>4 DEF Types
  <2>2. Copying'
    BY <1>0, <1>1 DEF Types, Copying, Progress, Trees, IsTree, Begin, Removable, Walk, modes
  <2>3. Progress'
    BY <1>0, <1>1 DEF Types, Copying, Progress, Trees, IsTree, Begin, Removable, Walk, modes
  <2>4. Trees'
    BY <1>0, <1>1 DEF Types, Copying, Progress, Trees, IsTree, Begin, Removable, Walk, modes
  <2>5. Modes'
    BY <1>0, <1>1 DEF Types, Copying, Modes, Begin, modes, Follow
  <2> QED
    BY <2>1, <2>2, <2>3, <2>4, <2>5
<1>2. ASSUME NEW p \in Paths, Remove(p) PROVE RestoreInv'
  <2>1. Types'
    BY <1>0, <1>2 DEF Types, Copying, Progress, Trees, IsTree, Remove, NextToRemove, Without, Subtree
  <2>2. Copying'
    BY <1>0, <1>2 DEF Types, Copying, Progress, Trees, IsTree, Remove, NextToRemove, Without, Subtree
  <2>3. Progress'
    BY <1>0, <1>2 DEF Types, Copying, Progress, Trees, IsTree, Remove, NextToRemove, Without, Subtree
  <2>4. Trees'
    BY <1>0, <1>2 DEF Types, Copying, Progress, Trees, IsTree, Remove, NextToRemove, Without, Subtree
  <2>5. Modes'
    BY <1>0, <1>2 DEF Types, Modes, Remove, Without, Subtree, modes, Follow
  <2> QED
    BY <2>1, <2>2, <2>3, <2>4, <2>5
<1>3. ASSUME BeginBuild PROVE RestoreInv'
  <2>1. Types'
    BY <1>0, <1>3 DEF Types, Copying, Progress, Trees, IsTree, BeginBuild
  <2>2. Copying'
    BY <1>0, <1>3 DEF Types, Copying, Progress, Trees, IsTree, BeginBuild
  <2>3. Progress'
    BY <1>0, <1>3 DEF Types, Copying, Progress, Trees, IsTree, BeginBuild
  <2>4. Trees'
    BY <1>0, <1>3 DEF Types, Copying, Progress, Trees, IsTree, BeginBuild
  <2>5. Modes'
    BY <1>0, <1>3 DEF Types, Copying, Modes, BeginBuild, modes, Follow
  <2> QED
    BY <2>1, <2>2, <2>3, <2>4, <2>5
<1>4. ASSUME NEW p \in Paths, MakeDir(p) PROVE RestoreInv'
  <2>1. Types'
    BY <1>0, <1>4 DEF Types, Copying, Progress, Trees, IsTree, MakeDir, Ready, CanMakeDir
  <2>2. Copying'
    BY <1>0, <1>4 DEF Types, Copying, Progress, Trees, IsTree, MakeDir, Ready, CanMakeDir
  <2>3. Progress'
    BY <1>0, <1>4 DEF Types, Copying, Progress, Trees, IsTree, MakeDir, Ready, CanMakeDir
  <2>4. Trees'
    BY <1>0, <1>4 DEF Types, Copying, Progress, Trees, IsTree, MakeDir, Ready, CanMakeDir
  <2>5. Modes'
    BY <1>0, <1>4 DEF Types, Copying, Modes, MakeDir, Ready, modes, Follow
  <2> QED
    BY <2>1, <2>2, <2>3, <2>4, <2>5
<1>5. ASSUME NEW p \in Paths, OpenFile(p) PROVE RestoreInv'
  <2>1. Types'
    <3>1. tree' = [tree EXCEPT ![p] = File(Torn, SourceMode(p))]
      BY <1>0, <1>5 DEF OpenFile
    <3>2. File(Torn, SourceMode(p)) \in TornFiles
      BY <1>a
    <3> HIDE DEF File, TornFiles, Files
    <3>3. tree' \in [Paths -> {None, Dir} \cup Files \cup TornFiles]
      BY <3>1, <3>2 DEF Types
    <3> QED
      BY <1>5, <3>3 DEF Types, OpenFile, Ready
  <2>2. Copying'
    BY <1>0, <1>5 DEF Types, Copying, Progress, Trees, IsTree, OpenFile, Ready, CanOpen, SourceMode
  <2>3. Progress'
    BY <1>0, <1>5 DEF Types, Copying, Progress, Trees, IsTree, OpenFile, Ready, CanOpen, SourceMode
  <2>4. Trees'
    <3>1. \A q \in Above[p] : tree[q] = Dir
      BY <1>0, <1>5 DEF OpenFile, CanOpen
    <3>2. \A q \in Paths : p \in Above[q] => tree[q] = None
      BY <1>0, <1>5 DEF OpenFile, CanOpen, Trees, IsTree
    <3>3. tree' = [tree EXCEPT ![p] = File(Torn, SourceMode(p))] /\ target' = target
      BY <1>0, <1>5 DEF OpenFile
    <3>4. \A q \in Paths : q # p => tree'[q] = tree[q]
      BY <3>3 DEF Types
    <3>5. p \notin Above[p]
      BY <1>0, <1>5, <3>1 DEF OpenFile, CanOpen
    <3> QED
      BY <3>1, <3>2, <3>3, <3>4, <3>5, <1>5 DEF Trees, IsTree, Types
  <2>5. Modes'
    BY <1>0, <1>5 DEF Types, Copying, Modes, OpenFile, Ready, CanOpen, modes, Follow
  <2> QED
    BY <2>1, <2>2, <2>3, <2>4, <2>5
<1>6. ASSUME NEW p \in Paths, FillFile(p) PROVE RestoreInv'
  <2>1. Types'
    <3>1. p \in Paths /\ tree[p] = File(Torn, SourceMode(p)) /\ target[p] \in Files
      BY <1>6 DEF Types, Copying, FillFile, SourceMode
    <3>2. PICK c \in Contents, r \in BOOLEAN : target[p] = File(c, r)
      BY <3>1
    <3>3. target[p].data = c /\ p \in Paths
      BY <3>2
    <3> HIDE DEF Files, TornFiles, File
    <3>4. File(c, SourceMode(p)) \in Files
      BY <1>a, <3>1, IsFile
    <3>5. tree' = [tree EXCEPT ![p] = File(c, SourceMode(p))]
      BY <1>0, <1>6, <3>3 DEF FillFile, SourceMode
    <3>6. tree' \in [Paths -> {None, Dir} \cup Files \cup TornFiles]
      BY <3>1, <3>4, <3>5 DEF Types
    <3> QED
      BY <1>6, <3>6 DEF Types, FillFile, SourceMode
  <2>2. Copying'
    BY <1>0, <1>6 DEF Types, Copying, Progress, Trees, IsTree, FillFile, SourceMode
  <2>3. Progress'
    BY <1>0, <1>6 DEF Types, Copying, Progress, Trees, IsTree, FillFile, SourceMode
  <2>4. Trees'
    BY <1>0, <1>6 DEF Types, Copying, Progress, Trees, IsTree, FillFile, SourceMode
  <2>5. Modes'
    BY <1>0, <1>6 DEF Types, Copying, Modes, FillFile, modes, Follow
  <2> QED
    BY <2>1, <2>2, <2>3, <2>4, <2>5
<1>7. ASSUME NEW p \in Paths, SetMode(p) PROVE RestoreInv'
  <2>1. Types'
    BY <1>0, <1>7 DEF Types, Copying, Progress, Trees, IsTree, SetMode
  <2>2. Copying'
    BY <1>0, <1>7 DEF Types, Copying, Progress, Trees, IsTree, SetMode
  <2>3. Progress'
    BY <1>0, <1>7 DEF Types, Copying, Progress, Trees, IsTree, SetMode
  <2>4. Trees'
    BY <1>0, <1>7 DEF Types, Copying, Progress, Trees, IsTree, SetMode
  <2>5. Modes'
    BY <1>0, <1>7 DEF Types, Copying, Modes, SetMode, modes, Follow
  <2> QED
    BY <2>1, <2>2, <2>3, <2>4, <2>5
<1>8. ASSUME NEW p \in Paths, Refuse(p) PROVE RestoreInv'
  <2>1. Types'
    BY <1>0, <1>8 DEF Types, Copying, Progress, Trees, IsTree, Refuse, Ready
  <2>2. Copying'
    BY <1>0, <1>8 DEF Types, Copying, Progress, Trees, IsTree, Refuse, Ready
  <2>3. Progress'
    BY <1>0, <1>8 DEF Types, Copying, Progress, Trees, IsTree, Refuse, Ready
  <2>4. Trees'
    BY <1>0, <1>8 DEF Types, Copying, Progress, Trees, IsTree, Refuse, Ready
  <2>5. Modes'
    BY <1>0, <1>8 DEF Types, Copying, Modes, Refuse, Ready, modes, Follow
  <2> QED
    BY <2>1, <2>2, <2>3, <2>4, <2>5
<1>9. ASSUME Finish PROVE RestoreInv'
  <2>1. Types'
    BY <1>0, <1>9 DEF Types, Copying, Progress, Trees, IsTree, Finish
  <2>2. Copying'
    BY <1>0, <1>9 DEF Types, Copying, Progress, Trees, IsTree, Finish
  <2>3. Progress'
    BY <1>0, <1>9 DEF Types, Copying, Progress, Trees, IsTree, Finish
  <2>4. Trees'
    BY <1>0, <1>9 DEF Types, Copying, Progress, Trees, IsTree, Finish
  <2>5. Modes'
    BY <1>0, <1>9 DEF Types, Copying, Modes, Finish, modes, Follow
  <2> QED
    BY <2>1, <2>2, <2>3, <2>4, <2>5
<1>10. ASSUME Die PROVE RestoreInv'
  <2>1. Types'
    BY <1>0, <1>10 DEF Types, Copying, Progress, Trees, IsTree, Die
  <2>2. Copying'
    BY <1>0, <1>10 DEF Types, Copying, Progress, Trees, IsTree, Die
  <2>3. Progress'
    BY <1>0, <1>10 DEF Types, Copying, Progress, Trees, IsTree, Die
  <2>4. Trees'
    BY <1>0, <1>10 DEF Types, Copying, Progress, Trees, IsTree, Die
  <2>5. Modes'
    BY <1>0, <1>10 DEF Types, Copying, Modes, Die, modes, Follow
  <2> QED
    BY <2>1, <2>2, <2>3, <2>4, <2>5
<1>11. ASSUME NEW p \in Paths, RefuseRemove(p) PROVE RestoreInv'
  <2>1. PICK gone \in SUBSET (Subtree(p) \ {p}) :
            tree' = Without(gone) /\ locked' = locked \ gone /\ unreadable' = unreadable \ gone
    BY <1>11 DEF RefuseRemove
  <2>2. /\ pc' = "error" /\ cur' = {} /\ IsTree(tree') /\ IsTree(target')
        /\ UNCHANGED <<target, op, todo, faults>>
    BY <1>11 DEF RefuseRemove, NextToRemove, Copying, Trees, IsTree
  <2>3. \A q \in Paths : tree'[q] = IF q \in gone THEN None ELSE tree[q]
    BY <2>1 DEF Without
  <2>4. Types'
    BY <2>1, <2>2, <2>3 DEF Types, Without
  <2>5. Modes'
    BY <2>1, <2>2, <2>3 DEF Modes
  <2> QED
    BY <2>2, <2>4, <2>5 DEF Copying, Progress, Trees
<1> HIDE DEF None, Dir, File, Files, TornFiles
<1>12. CASE UNCHANGED vars
  BY <1>12 DEF vars, modes, Types, Copying, Progress, Trees, Modes, IsTree, SourceMode
<1> HIDE DEF RestoreInv
<1> QED
  BY <1>1, <1>2, <1>3, <1>4, <1>5, <1>6, <1>7, <1>8, <1>9, <1>10, <1>11, <1>12 DEF Next

\* Every workspace and every checkpoint to start from satisfies it.
LEMMA RestoreInit == ASSUME LinkTo = {}, Init PROVE RestoreInv
<1> USE RestoreAssumptions
<1>1. tree \in [Paths -> {None, Dir} \cup Files] /\ IsTree(tree)
  BY DEF Nodes, Init
<1>2. target \in [Paths -> {None, Dir} \cup Files] /\ IsTree(target)
  BY DEF Init
<1> QED
  BY <1>1, <1>2 DEF Init, RestoreInv, Types, Copying, Progress, Trees, Modes, None, Dir

\* So it holds in every behaviour, whatever the process dies in.
LEMMA RestoreInvariant == ASSUME LinkTo = {} PROVE Spec => []RestoreInv
BY RestoreInit, RestoreStep, PTL DEF Spec

\* Without symlinks an operation that returns Ok has restored the checkpoint,
\* whatever the earlier attempts that died left behind.
THEOREM OkIsRestored == ASSUME LinkTo = {} PROVE Spec => []OkMeansRestored
<1>1. RestoreInv => OkMeansRestored
  <2> SUFFICES ASSUME RestoreInv, pc = "done"
           PROVE  Walk(tree) = Walk(target) /\ \A p \in Paths : target[p] \in {None, tree[p]}
    BY DEF OkMeansRestored
  <2>1. \A p \in Paths : tree[p].kind # "link" /\ target[p].kind # "link"
    BY DEF RestoreInv, Types, None, Dir, File, Files, TornFiles
  <2>2. \A p \in Paths : target[p] \in {None, tree[p]}
    BY DEF RestoreInv, Types, Progress
  <2>3. \A p \in Paths \ Ignored : tree[p] = target[p]
    BY DEF RestoreInv, Types, Progress
  <2> QED
    BY <2>1, <2>2, <2>3 DEF Walk
<1> QED
  BY <1>1, RestoreInvariant, PTL

\* Without symlinks the live workspace is a tree after every system call, and
\* every variable has its type.
THEOREM RestoreTypeCorrect == ASSUME LinkTo = {} PROVE Spec => []TypeOK
<1>1. RestoreInv => TypeOK
  BY DEF RestoreInv, Types, Trees, Modes, TypeOK, Nodes
<1> QED
  BY <1>1, RestoreInvariant, PTL

\* Without symlinks no step touches an ignored path the target does not have.
THEOREM IgnoredKept == ASSUME LinkTo = {} PROVE Spec => IgnoredUntouched
<1> DEFINE Kept == \A p \in Ignored : target[p] = None => tree'[p] = tree[p]
<1>1. ASSUME RestoreInv, [Next]_vars PROVE [Kept]_vars
  <2> USE <1>1, RestoreAssumptions DEF RestoreInv, Types, Progress, Copying
  <2>0. \A p \in Paths : Follow(tree, p) = p
    BY DEF Follow, None, Dir, File, Files, TornFiles
  <2>1. ASSUME NEW p \in Paths, Remove(p) PROVE Kept
    BY <2>1 DEF Remove, NextToRemove, Without, Subtree
  <2>2. ASSUME NEW p \in Paths, MakeDir(p) PROVE Kept
    BY <2>2 DEF MakeDir, Ready
  <2>3. ASSUME NEW p \in Paths, OpenFile(p) PROVE Kept
    <3>1. target[p] # None
      BY <2>3 DEF OpenFile, Ready
    <3>2. tree' = [tree EXCEPT ![p] = File(Torn, SourceMode(p))]
      BY <2>0, <2>3 DEF OpenFile
    <3> QED
      BY <3>1, <3>2
  <2>4. ASSUME NEW p \in Paths, FillFile(p) PROVE Kept
    BY <2>0, <2>4 DEF FillFile
  <2>5. ASSUME NEW p \in Paths, SetMode(p) PROVE Kept
    BY <2>0, <2>5 DEF SetMode
  <2>6. ASSUME \/ \E o \in Operations : Begin(o)
               \/ \E p \in Paths : Refuse(p)
               \/ BeginBuild \/ Finish \/ Die
        PROVE Kept
    BY <2>6 DEF Begin, Refuse, BeginBuild, Finish, Die
  <2>7. ASSUME NEW p \in Paths, RefuseRemove(p) PROVE Kept
    BY <2>7 DEF RefuseRemove, NextToRemove, Without, Subtree
  <2> QED
    BY <1>1, <2>1, <2>2, <2>3, <2>4, <2>5, <2>6, <2>7 DEF Next
<1>2. Spec => [][Kept]_vars
  BY <1>1, RestoreInvariant, PTL DEF Spec
<1> QED
  BY <1>2 DEF IgnoredUntouched

-----------------------------------------------------------------------------
(* What was there before the attempt. *)

\* While entries are removed: rollback removes none that the target has,
\* op-restore all that are not ignored.  Afterwards a path that is still to be
\* built is as it was when the attempt began, or has been removed by op-restore.
History ==
    /\ pc # "idle" => op \in {"rollback", "op_restore"}
    /\ pc = "remove" => \A p \in Paths : tree[p] \in {None, start[p]}
    /\ pc = "remove" /\ op = "rollback" =>
         /\ \A p \in todo : target[p] = None
         /\ \A p \in Paths : target[p] # None => tree[p] = start[p]
    /\ pc = "remove" /\ op = "op_restore" =>
         /\ \A p \in Ignored : tree[p] = start[p]
         /\ \A p \in Paths \ Ignored : p \in todo \/ tree[p] = None
    /\ pc \in {"build", "fill", "mode"} =>
         \A p \in todo \ cur :
             \/ tree[p] = start[p] /\ (op = "rollback" \/ p \in Ignored)
             \/ op = "op_restore" /\ p \notin Ignored /\ tree[p] = None

AttemptInv == RestoreInv /\ History /\ KeptPathsStay /\ OnlyConflictsFail

\* Every entry that a rollback removes, copies or fails at keeps it.
LEMMA AttemptStep == ASSUME LinkTo = {}, AttemptInv, [Next]_vars PROVE AttemptInv'
<1> USE RestoreAssumptions DEF AttemptInv
<1>0. RestoreInv'
  BY RestoreStep
<1>1. /\ \A p \in Paths : Follow(tree, p) = p /\ tree[p].kind # "link"
      /\ \A p \in Paths : tree[p] \in {None, Dir} \cup Files \cup TornFiles
      /\ \A p \in Paths : target[p] \in {None, Dir} \cup Files
      /\ TornFiles \cap ({None, Dir} \cup Files) = {}
  BY DEF RestoreInv, Types, Follow, None, Dir, File, Files, TornFiles
<1>2. \A p, q \in Paths : p \in Above[q] /\ target[p] = None => target[q] = None
  BY DEF RestoreInv, Trees, IsTree, None, Dir
<1> USE DEF RestoreInv
<1>3. ASSUME NEW o \in Operations, Begin(o) PROVE AttemptInv'
  <2>1. History'
    <3>1. /\ op' = o /\ o \in {"rollback", "op_restore"} /\ start' = tree
          /\ UNCHANGED <<tree, target>>
          /\ \/ pc' = "remove" /\ todo' = Removable(o)
             \/ pc' = "error"
      BY <1>3 DEF Begin
    <3> QED
      BY <1>1, <3>1 DEF Removable, Walk, History, Types
  <2>2. KeptPathsStay'
    BY <1>3 DEF Begin, KeptPathsStay
  <2>3. OnlyConflictsFail'
    <3>1. CASE CanWalk
      BY <1>3, <3>1 DEF Begin, OnlyConflictsFail
    <3>2. CASE ~CanWalk
      BY <1>3, <3>2 DEF Begin, CanWalk, Walk, OnlyConflictsFail, modes, Modes
    <3> QED
      BY <3>1, <3>2
  <2> QED
    BY <1>0, <2>1, <2>2, <2>3
<1>4. ASSUME NEW p \in Paths, Remove(p) PROVE AttemptInv'
  <2>1. op = "rollback" => \A q \in Paths : target[q] # None => tree'[q] = tree[q]
    BY <1>2, <1>4 DEF Remove, NextToRemove, Without, Subtree, History
  <2>2. \A q \in Ignored : tree'[q] = tree[q]
    BY <1>4 DEF Remove, NextToRemove, Without, Subtree, Types
  <2>3. \A q \in Paths : tree'[q] = tree[q] \/ tree'[q] = None
    BY <1>4 DEF Remove, NextToRemove, Without, Subtree
  <2>4. tree'[p] = None
    BY <1>4 DEF Remove, NextToRemove, Without, Subtree
  <2>5. /\ pc = "remove" /\ todo' = todo \ {p}
        /\ UNCHANGED <<target, op, pc, cur, start, faults>>
    BY <1>4 DEF Remove, NextToRemove, Without, Subtree
  <2>6. History'
    BY <2>1, <2>2, <2>3, <2>4, <2>5 DEF History
  <2>7. KeptPathsStay' /\ OnlyConflictsFail'
    BY <2>1, <2>5 DEF KeptPathsStay, OnlyConflictsFail
  <2> QED
    BY <1>0, <2>6, <2>7
<1>5. CASE BeginBuild
  <2>1. History'
    BY <1>5 DEF BeginBuild, History, Copying
  <2>2. KeptPathsStay' /\ OnlyConflictsFail'
    BY <1>5 DEF BeginBuild, KeptPathsStay, OnlyConflictsFail
  <2> QED
    BY <1>0, <2>1, <2>2
\* A call that changes one path of the tree only: the one it treats.
<1>6. ASSUME NEW p \in todo, pc \in {"build", "fill", "mode"}, pc' \in {"build", "fill", "mode"},
             \A q \in Paths \ {p} : tree'[q] = tree[q], tree'[p] # None,
             tree'[p] \in TornFiles => p \in cur',
             p \notin todo' \ cur', todo' \subseteq todo, cur \subseteq {p},
             UNCHANGED <<target, op, start>>
      PROVE  AttemptInv'
  <2>1. p \in Paths
    BY DEF Types
  <2>2. History'
    BY <1>6, <2>1 DEF History, Types
  <2>3. KeptPathsStay'
    BY <1>6, <2>1 DEF KeptPathsStay
  <2>4. OnlyConflictsFail'
    BY <1>6 DEF OnlyConflictsFail
  <2> QED
    BY <1>0, <2>2, <2>3, <2>4
<1>7. ASSUME NEW p \in Paths, MakeDir(p) PROVE AttemptInv'
  <2>1. pc = "build" /\ cur = {} /\ p \in todo
    BY <1>7 DEF MakeDir, Ready, Copying
  <2>2. tree' = [tree EXCEPT ![p] = Dir]
    BY <1>1, <1>7 DEF MakeDir, CanMakeDir, Types
  <2>3. tree'[p] # None /\ tree'[p] \notin TornFiles
    BY <1>1, <2>2 DEF Types, None, Dir
  <2>4. \A q \in Paths \ {p} : tree'[q] = tree[q]
    BY <2>2 DEF Types
  <2>5. pc' = pc /\ cur' = cur /\ todo' = todo \ {p} /\ UNCHANGED <<target, op, start>>
    BY <1>7 DEF MakeDir
  <2> QED
    BY <1>6, <2>1, <2>3, <2>4, <2>5
<1>8. ASSUME NEW p \in Paths, OpenFile(p) PROVE AttemptInv'
  <2>1. pc = "build" /\ cur = {} /\ p \in todo
    BY <1>8 DEF OpenFile, Ready, Copying
  <2>2. tree' = [tree EXCEPT ![p] = File(Torn, SourceMode(p))]
    BY <1>1, <1>8 DEF OpenFile
  <2>3. tree'[p] # None /\ \A q \in Paths \ {p} : tree'[q] = tree[q]
    BY <2>2 DEF Types, None, File
  <2>4. pc' = "fill" /\ cur' = {p} /\ todo' = todo /\ UNCHANGED <<target, op, start>>
    BY <1>8 DEF OpenFile
  <2> QED
    BY <1>6, <2>1, <2>3, <2>4
<1>9. ASSUME NEW p \in Paths, FillFile(p) PROVE AttemptInv'
  <2>1. pc = "fill" /\ cur = {p} /\ p \in todo
    BY <1>9 DEF FillFile, Types
  <2>2. tree' = [tree EXCEPT ![p] = File(target[p].data, SourceMode(p))]
    BY <1>1, <1>9 DEF FillFile
  <2>3. tree'[p] # None /\ \A q \in Paths \ {p} : tree'[q] = tree[q]
    BY <2>2 DEF Types, None, File
  <2>4. pc' = "mode" /\ cur' = cur /\ todo' = todo /\ UNCHANGED <<target, op, start>>
    BY <1>9 DEF FillFile
  <2> QED
    BY <1>6, <2>1, <2>3, <2>4
<1>10. ASSUME NEW p \in Paths, SetMode(p) PROVE AttemptInv'
  <2>1. pc = "mode" /\ cur = {p} /\ p \in todo /\ target[p] \in Files
    BY <1>10 DEF SetMode, Types, Copying
  <2>2. tree' = [tree EXCEPT ![p] = File(tree[p].data, target[p].ro)]
    BY <1>1, <1>10 DEF SetMode
  <2>3. tree'[p] # None /\ \A q \in Paths \ {p} : tree'[q] = tree[q]
    BY <2>2 DEF Types, None, File
  <2>4. pc' = "build" /\ cur' = {} /\ todo' = todo \ {p} /\ UNCHANGED <<target, op, start>>
    BY <1>10 DEF SetMode
  <2>5. tree'[p] \notin TornFiles
    <3>1. tree[p] = File(target[p].data, SourceMode(p))
      BY <2>1 DEF Copying
    <3>2. tree[p].data \in Contents
      BY <2>1, <3>1 DEF Files, File
    <3> QED
      BY <2>2, <3>2 DEF Types, File, TornFiles
  <2> QED
    BY <1>6, <2>1, <2>3, <2>4, <2>5
<1>11. ASSUME NEW p \in Paths, Refuse(p) PROVE AttemptInv'
  <2>1. /\ pc = "build" /\ cur = {} /\ p \in todo /\ Above[p] \cap todo = {}
        /\ target[p] # None /\ op \in {"rollback", "op_restore"}
        /\ pc' = "error" /\ UNCHANGED <<tree, target, op, todo, cur, start>>
    BY <1>11 DEF Refuse, Ready, Copying, Progress, History
  <2>2. tree[p] # None => tree[p] = start[p] /\ (op = "rollback" \/ p \in Ignored)
    BY <2>1 DEF History
  <2>3. \A a \in Above[p] : tree[a] = Dir
    BY <2>1 DEF Progress, Trees, IsTree, None, Dir
  <2>4. /\ tree[p] \in {None, Dir} \/ tree[p].kind = "file"
        /\ None.kind = "none" /\ Dir.kind = "dir" /\ Follow(tree, p) = p
    BY <1>1 DEF Dir, None, Files, TornFiles, File
  <2>5. \/ tree[p] = None /\ Frozen(p)
        \/ tree[p] # None /\ tree[p].kind # target[p].kind
        \/ tree[p] # None /\ target[p].kind = "file" /\ tree[p].ro /\ ~Privileged
    <3>1. CASE target[p] = Dir /\ ~CanMakeDir(p)
      BY <2>4, <3>1 DEF CanMakeDir
    <3>2. CASE target[p].kind = "file" /\ ~CanOpen(p)
      <4>1. CASE tree[p].kind \notin {"none", "file"}
        BY <2>4, <3>2, <4>1
      <4>2. CASE tree[p].kind = "file"
        BY <2>3, <2>4, <3>2, <4>2 DEF CanOpen
      <4>3. CASE tree[p] = None
        BY <2>3, <2>4, <3>2, <4>3 DEF CanOpen
      <4> QED
        BY <2>4, <4>1, <4>2, <4>3
    <3> QED
      BY <1>11, <3>1, <3>2 DEF Refuse
  <2>6. ASSUME tree[p] # None PROVE OnlyConflictsFail'
    <3>1. InTheWay(p)'
      BY <2>1, <2>2, <2>5, <2>6 DEF InTheWay
    <3> QED
      BY <3>1 DEF OnlyConflictsFail, Types
  <2>7. ASSUME tree[p] = None PROVE OnlyConflictsFail'
    <3>1. Frozen(p) /\ Frozen(p)'
      BY <1>11, <2>5, <2>7 DEF Refuse, Frozen, modes
    <3>2. start[p] # None => op = "op_restore" /\ p \notin Ignored
      BY <2>1, <2>7 DEF History
    <3>3. Barred(p)'
      BY <2>1, <3>1, <3>2 DEF Barred
    <3> QED
      BY <3>3 DEF OnlyConflictsFail, Types
  <2>8. History' /\ KeptPathsStay'
    BY <2>1 DEF History, KeptPathsStay
  <2> QED
    BY <1>0, <2>6, <2>7, <2>8
\* Removal fails at an entry the walk has found and the target has not.
<1>14. ASSUME NEW p \in Paths, RefuseRemove(p) PROVE AttemptInv'
  <2>1. PICK gone \in SUBSET {q \in Subtree(p) \ {p} : ~Frozen(q)} :
            tree' = Without(gone) /\ locked' = locked \ gone
    BY <1>14 DEF RefuseRemove
  <2>2. /\ pc = "remove" /\ p \in todo /\ cur = {} /\ op \in {"rollback", "op_restore"}
        /\ pc' = "error" /\ UNCHANGED <<target, op, todo, cur, start>> /\ IsTree(tree')
    BY <1>14 DEF RefuseRemove, NextToRemove, Copying, History
  <2>3. PICK q \in Subtree(p) : tree[q] # None /\ Frozen(q)
    BY <1>14 DEF RefuseRemove, CanRemove
  <2>4. q \in Paths /\ q \notin Ignored /\ start[q] # None
    BY <2>2, <2>3 DEF Subtree, Types, History
  <2>5. op = "rollback" => target[q] = None
    BY <1>2, <2>2, <2>3 DEF Subtree, History
  <2>6. tree'[q] # None
    BY <2>1, <2>3, <2>4 DEF Without
  <2>7. Frozen(q)'
    <3>1. PICK d \in locked : Holds(d, q) /\ ~Privileged
      BY <2>3 DEF Frozen
    <3>2. d # Root => d \in Paths /\ d \in Above[q] /\ tree'[d] = Dir
      BY <2>2, <2>4, <2>6, <3>1 DEF Holds, IsTree
    <3>3. d \notin gone
      BY <2>1, <3>2 DEF Without, Subtree, None, Dir
    <3> QED
      BY <2>1, <3>1, <3>3 DEF Frozen
  <2>8. Barred(q)'
    BY <2>2, <2>4, <2>5, <2>7 DEF Barred
  <2>9. History'
    BY <2>2 DEF History
  <2>10. KeptPathsStay'
    <3>1. op = "rollback" => \A x \in gone : target[x] = None
      BY <1>2, <2>1, <2>2 DEF Subtree, History
    <3>2. \A x \in Paths : tree'[x] = IF x \in gone THEN None ELSE tree[x]
      BY <2>1 DEF Without
    <3> QED
      BY <2>2, <3>1, <3>2 DEF KeptPathsStay
  <2> QED
    BY <1>0, <2>2, <2>4, <2>8, <2>9, <2>10 DEF OnlyConflictsFail
<1>12. CASE Finish \/ Die
  BY <1>0, <1>12 DEF Finish, Die, History, KeptPathsStay, OnlyConflictsFail
<1>13. CASE UNCHANGED vars
  BY <1>0, <1>13 DEF vars, modes, History, KeptPathsStay, OnlyConflictsFail, InTheWay, Barred, Frozen
<1> QED
  BY <1>3, <1>4, <1>5, <1>7, <1>8, <1>9, <1>10, <1>11, <1>12, <1>13, <1>14 DEF Next

\* It holds in every state of a rollback.
LEMMA AttemptInvariant == ASSUME LinkTo = {} PROVE Spec => []AttemptInv
<1>1. Init => AttemptInv
  BY RestoreInit DEF Init, AttemptInv, History, KeptPathsStay, OnlyConflictsFail
<1> QED
  BY <1>1, AttemptStep, PTL DEF Spec

\* rollback works in place: without symlinks a path that exists before it and
\* in the checkpoint exists at every moment, and only the file being copied
\* may be found half written.
THEOREM RollbackKeepsPaths == ASSUME LinkTo = {} PROVE Spec => []KeptPathsStay
BY AttemptInvariant, PTL DEF AttemptInv

\* Without symlinks and I/O errors an operation fails only where a path
\* changed between file and directory or a read-only file is in the way, where
\* an entry has to come or go in a directory without write permission, or at a
\* file or directory the walk may not read: all of them in the workspace it
\* met, none of them its own doing.
THEOREM FailuresAreConflicts == ASSUME LinkTo = {} PROVE Spec => []OnlyConflictsFail
BY AttemptInvariant, PTL DEF AttemptInv

=============================================================================
