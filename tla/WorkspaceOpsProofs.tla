--------------------------- MODULE WorkspaceOpsProofs ---------------------------
(* That the events of the recording mount rebuild its workspace: each      *)
(* operation keeps the workspace a tree, and repeating its event on a copy *)
(* that looks like the workspace before it gives one that looks like the   *)
(* workspace after it.                                                     *)
EXTENDS WorkspaceOps, SequenceTheorems, TLAPS

-----------------------------------------------------------------------------
(* Paths have one or two names. *)

\* A path is a sequence, its parent is at the top, and their roots are one.
LEMMA PathFacts ==
    ASSUME NEW p \in Paths
    PROVE  /\ p \in Seq(STRING) /\ Len(p) \in {1, 2}
           /\ Len(p) = 1 => Front(p) = <<>>
           /\ Len(p) = 2 => Front(p) \in Paths /\ Len(Front(p)) = 1 /\ Hidden(Front(p)) = Hidden(p)
<1>1. p \in Seq(STRING) /\ Len(p) \in {1, 2} /\ DOMAIN p = 1..Len(p) /\ SubSeq(p, 1, 1) \in Paths
  BY OpsAssumptions, LenProperties
<1>2. CASE Len(p) = 1
  <2>1. Front(p) = <<>>
    BY <1>1, <1>2, SubSeqEmpty DEF Front
  <2> QED
    BY <1>1, <1>2, <2>1
<1>3. CASE Len(p) = 2
  <2>1. Front(p) = SubSeq(p, 1, 1)
    BY <1>3 DEF Front
  <2>2. Len(SubSeq(p, 1, 1)) = 1 /\ SubSeq(p, 1, 1)[1] = p[1]
    BY <1>1, <1>3, SubSeqProperties
  <2>3. Head(Front(p)) = Head(p)
    BY <1>1, <1>3, <2>1, <2>2, OpsAssumptions
  <2> QED
    BY <1>1, <1>3, <2>1, <2>2, <2>3 DEF Hidden
<1> QED
  BY <1>1, <1>2, <1>3

\* Two paths of the same parent and the same last name are one.
LEMMA PathEqual ==
    ASSUME NEW p \in Paths, NEW q \in Paths
    PROVE  /\ Len(p) = 1 /\ Len(q) = 1 /\ p[1] = q[1] => p = q
           /\ Len(p) = 2 /\ Len(q) = 2 /\ p[1] = q[1] /\ p[2] = q[2] => p = q
<1>1. p \in Seq(STRING) /\ q \in Seq(STRING)
  BY PathFacts
<1>2. ASSUME Len(p) = 1, Len(q) = 1, p[1] = q[1] PROVE p = q
  BY <1>1, <1>2, SeqEqual
<1>3. ASSUME Len(p) = 2, Len(q) = 2, p[1] = q[1], p[2] = q[2] PROVE p = q
  <2>1. \A i \in 1..Len(p) : p[i] = q[i]
    BY <1>3
  <2> QED
    BY <1>1, <1>3, <2>1, SeqEqual
<1> QED
  BY <1>2, <1>3

\* What a path is a prefix of: itself and, at the top, its children.
LEMMA PrefixFacts ==
    ASSUME NEW p \in Paths, NEW q \in Paths
    PROVE  /\ IsPrefix(p, q) <=> p = q \/ (Len(q) = 2 /\ Front(q) = p)
           /\ q \in Below(p) <=> Len(q) = 2 /\ Front(q) = p
           /\ Len(q) = 2 => Front(q) # q
<1>1. /\ p \in Seq(STRING) /\ q \in Seq(STRING) /\ Len(p) \in {1, 2} /\ Len(q) \in {1, 2}
      /\ Len(q) = 2 => Len(Front(q)) = 1
  BY PathFacts
<1>2. Len(q) = 2 => Front(q) = SubSeq(q, 1, 1)
  BY <1>1 DEF Front
<1>3. SubSeq(p, 1, Len(p)) = p /\ SubSeq(q, 1, Len(q)) = q
  BY <1>1, SubSeqFull
<1>4. IsPrefix(p, q) <=> p = q \/ (Len(q) = 2 /\ Front(q) = p)
  <2>1. CASE Len(p) = Len(q)
    <3>1. SubSeq(q, 1, Len(p)) = q
      BY <1>3, <2>1
    <3>2. ~(Len(q) = 2 /\ Front(q) = p)
      BY <1>1, <2>1
    <3>3. IsPrefix(p, q) <=> p = q
      BY <1>1, <1>3, <2>1, <3>1 DEF IsPrefix
    <3> QED
      BY <3>2, <3>3
  <2>2. CASE Len(p) = 1 /\ Len(q) = 2
    BY <1>1, <1>3, <1>2, <2>2 DEF IsPrefix
  <2>3. CASE Len(p) = 2 /\ Len(q) = 1
    BY <1>1, <2>3 DEF IsPrefix
  <2> QED
    BY <1>1, <2>1, <2>2, <2>3
<1>5. Len(q) = 2 => Front(q) # q
  <2> SUFFICES ASSUME Len(q) = 2, Front(q) = q PROVE FALSE
    OBVIOUS
  <2>1. Len(Front(q)) = Len(q)
    OBVIOUS
  <2> QED
    BY <1>1, <2>1
<1> QED
  BY <1>4, <1>5 DEF Below, IsStrictPrefix

\* Where a move takes the moved path itself and what is below it.
LEMMA MovedFacts ==
    ASSUME NEW s \in Paths, NEW p \in Paths
    PROVE  /\ Moved(s, p, s) = p
           /\ \A q \in Below(s) : Moved(s, p, q) \in Paths =>
                /\ Moved(s, p, q) \in Below(p) /\ Moved(p, s, Moved(s, p, q)) = q
<1>1. p \in Seq(STRING) /\ s \in Seq(STRING) /\ Len(p) \in {1, 2} /\ Len(s) \in {1, 2}
  BY PathFacts
<1>2. Moved(s, p, s) = p
  BY <1>1, SubSeqEmpty, ConcatEmptySeq DEF Moved
<1>3. ASSUME NEW q \in Below(s), Moved(s, p, q) \in Paths
      PROVE  Moved(s, p, q) \in Below(p) /\ Moved(p, s, Moved(s, p, q)) = q
  <2> DEFINE m == Moved(s, p, q)
  <2>1. q \in Paths /\ Len(q) = 2 /\ Len(s) = 1 /\ Front(q) = s /\ q \in Seq(STRING)
    BY PrefixFacts, PathFacts DEF Below
  <2>2. /\ SubSeq(q, 2, 2) \in Seq(STRING) /\ Len(SubSeq(q, 2, 2)) = 1
        /\ SubSeq(q, 2, 2)[1] = q[2]
    BY <2>1, SubSeqProperties, ElementOfSeq
  <2>3. m = p \o SubSeq(q, 2, 2)
    BY <2>1 DEF Moved
  <2>4. Len(m) = Len(p) + 1 /\ m[Len(p) + 1] = q[2] /\ m[1] = p[1]
    BY <1>1, <2>2, <2>3, ConcatProperties
  <2>5. Len(m) = 2 /\ Len(p) = 1 /\ m \in Seq(STRING)
    BY <1>1, <1>3, <2>4, PathFacts
  <2>6. Front(m) \in Paths /\ Len(Front(m)) = 1 /\ Front(m)[1] = m[1]
    <3>1. Front(m) = SubSeq(m, 1, 1)
      BY <2>5 DEF Front
    <3>2. SubSeq(m, 1, 1)[1] = m[1]
      BY <2>5, SubSeqProperties, ElementOfSeq
    <3> QED
      BY <1>3, <2>5, <3>1, <3>2, PathFacts
  <2>7. Front(m) = p
    BY <2>4, <2>5, <2>6, PathEqual
  <2>8. m \in Below(p)
    BY <1>3, <2>5, <2>7, PrefixFacts
  <2> HIDE DEF m
  <2>9. Moved(p, s, m) = q
    <3>1. 2 \in 1..Len(m) /\ m[2] = q[2]
      BY <2>4, <2>5
    <3>2. \A i \in 2..2 : m[i] \in STRING
      <4>1. m[2] \in STRING
        BY <2>5, <3>1, ElementOfSeq
      <4> QED
        BY <4>1
    <3>3. SubSeq(m, 2, 2) \in Seq(STRING) /\ Len(SubSeq(m, 2, 2)) = 1 /\ SubSeq(m, 2, 2)[1] = q[2]
      BY <2>5, <3>1, <3>2, SubSeqProperties
    <3>4. Moved(p, s, m) = s \o SubSeq(m, 2, 2)
      BY <2>5 DEF Moved
    <3>5. /\ Moved(p, s, m) \in Seq(STRING) /\ Len(Moved(p, s, m)) = 2
          /\ Moved(p, s, m)[1] = s[1] /\ Moved(p, s, m)[2] = q[2]
      BY <1>1, <2>1, <3>3, <3>4, ConcatProperties
    <3>6. s[1] = q[1]
      <4>1. s = SubSeq(q, 1, 1)
        BY <2>1 DEF Front
      <4>2. SubSeq(q, 1, 1)[1] = q[1]
        BY <2>1, SubSeqProperties, ElementOfSeq
      <4> QED
        BY <4>1, <4>2
    <3>7. \A i \in 1..Len(q) : q[i] = Moved(p, s, m)[i]
      BY <2>1, <3>5, <3>6
    <3> QED
      BY <2>1, <3>5, <3>7, SeqEqual
  <2> QED
    BY <2>8, <2>9 DEF m
<1> QED
  BY <1>2, <1>3

-----------------------------------------------------------------------------
(* Trees. *)

\* What a node is; None is the node that is not there.
LEMMA NodeFacts ==
    ASSUME NEW t \in Trees, NEW p \in Paths
    PROVE  /\ t[p] \in Nodes /\ t[p].ro \in BOOLEAN /\ t[p].kind \in {"none", "dir", "file"}
           /\ t[p] = None <=> t[p].kind = "none"
           /\ t[p].kind # "file" => t[p].data = <<>>
           /\ t[p] = None => ~t[p].ro
           /\ t[p].kind = "file" => t[p].data \in Seq(Bytes \cup {Zero})
<1>1. t[p] \in Nodes
  BY DEF Trees
<1>2. CASE t[p] = None
  BY <1>1, <1>2 DEF None
<1>3. CASE t[p] \in [kind : {"dir"}, data : {<<>>}, ro : BOOLEAN]
  BY <1>1, <1>3 DEF None
<1>4. CASE t[p] \in [kind : {"file"}, data : Seq(Bytes \cup {Zero}), ro : BOOLEAN]
  BY <1>1, <1>4 DEF None
<1> QED
  BY <1>1, <1>2, <1>3, <1>4 DEF Nodes

\* What the system calls make are nodes.
LEMMA MadeNodes ==
    /\ None \in Nodes /\ Dir \in Nodes /\ None.kind = "none" /\ ~None.ro
    /\ Dir.kind = "dir" /\ Dir # None /\ ~Dir.ro
    /\ \A d \in Seq(Bytes \cup {Zero}), r \in BOOLEAN :
          /\ File(d, r) \in Nodes /\ File(d, r).kind = "file" /\ File(d, r) # None
          /\ File(d, r).data = d /\ File(d, r).ro = r
BY DEF Nodes, None, Dir, File

\* The shape of the paths, without their names.
LEMMA PathShape ==
    /\ \A p \in Paths : Len(p) \in {1, 2} /\ (Len(p) > 1 <=> Len(p) = 2)
    /\ \A p \in Paths : Len(p) = 2 =>
          Front(p) \in Paths /\ Len(Front(p)) = 1 /\ Hidden(Front(p)) = Hidden(p)
    /\ \A p, q \in Paths : IsPrefix(p, q) <=> p = q \/ (Len(q) = 2 /\ Front(q) = p)
    /\ \A p, q \in Paths : q \in Below(p) <=> Len(q) = 2 /\ Front(q) = p
    /\ \A p \in Paths : Below(p) \subseteq Paths
<1>1. ASSUME NEW p \in Paths PROVE Len(p) \in {1, 2} /\ (Len(p) > 1 <=> Len(p) = 2)
  <2>1. Len(p) \in {1, 2}
    BY PathFacts
  <2> QED
    BY <2>1
<1> QED
  BY <1>1, PathFacts, PrefixFacts DEF Below

\* What exists below the top lies in a directory.
LEMMA TreeFacts ==
    ASSUME NEW t \in Trees
    PROVE  IsTree(t) <=> \A p \in Paths : Len(p) = 2 /\ t[p] # None => t[Front(p)].kind = "dir"
BY PathShape DEF IsTree

-----------------------------------------------------------------------------
(* Every operation keeps the workspace a tree. *)

\* What create_dir_all of the parent leaves alone, and what it makes.
LEMMA ParentFacts ==
    ASSUME NEW t \in Trees, IsTree(t), NEW p \in Paths, CanMakeParent(t, p)
    PROVE  /\ MakeParent(t, p) \in Trees /\ IsTree(MakeParent(t, p))
           /\ Len(p) = 2 => MakeParent(t, p)[Front(p)].kind = "dir"
           /\ MakeParent(t, p)[p] = t[p]
           /\ \A q \in Paths : \/ MakeParent(t, p)[q] = t[q]
                               \/ /\ Len(p) = 2 /\ q = Front(p) /\ t[q] = None
                                  /\ MakeParent(t, p)[q] = Dir
<1>1. CASE Len(p) = 2 /\ t[Front(p)] = None
  <2>1. Front(p) \in Paths /\ Len(Front(p)) = 1 /\ Len(p) > 1 /\ Front(p) # p
    BY <1>1, PathShape
  <2>2. MakeParent(t, p) = [t EXCEPT ![Front(p)] = Dir]
    BY <1>1, <2>1 DEF MakeParent
  <2>3. [t EXCEPT ![Front(p)] = Dir] \in Trees
    BY <2>1, MadeNodes DEF Trees
  <2>4. /\ [t EXCEPT ![Front(p)] = Dir][Front(p)] = Dir
        /\ \A q \in Paths : q # Front(p) => [t EXCEPT ![Front(p)] = Dir][q] = t[q]
    BY <2>1 DEF Trees
  <2>5. IsTree([t EXCEPT ![Front(p)] = Dir])
    <3> SUFFICES ASSUME NEW q \in Paths, Len(q) = 2, [t EXCEPT ![Front(p)] = Dir][q] # None
                 PROVE  [t EXCEPT ![Front(p)] = Dir][Front(q)].kind = "dir"
      BY <2>3, TreeFacts
    <3>1. q # Front(p) /\ Front(q) \in Paths /\ t[q] # None
      BY <2>1, <2>4, PathShape
    <3>2. t[Front(q)].kind = "dir"
      BY <3>1, TreeFacts
    <3> QED
      BY <2>4, <3>1, <3>2, MadeNodes
  <2> QED
    BY <1>1, <2>1, <2>2, <2>3, <2>4, <2>5, MadeNodes
<1>2. CASE ~(Len(p) = 2 /\ t[Front(p)] = None)
  <2>1. MakeParent(t, p) = t
    BY <1>2, PathShape DEF MakeParent
  <2>2. Len(p) = 2 => t[Front(p)].kind = "dir"
    BY <1>2, PathShape, NodeFacts DEF CanMakeParent
  <2> QED
    BY <2>1, <2>2
<1> QED
  BY <1>1, <1>2

\* A node is put where there is none, or where there is one of its kind.
LEMMA PutTree ==
    ASSUME NEW t \in Trees, IsTree(t), NEW p \in Paths, NEW n \in Nodes, n # None,
           Len(p) = 2 => t[Front(p)].kind = "dir",
           t[p] = None \/ t[p].kind = n.kind
    PROVE  /\ [t EXCEPT ![p] = n] \in Trees /\ IsTree([t EXCEPT ![p] = n])
           /\ \A q \in Paths : t[q] # None => [t EXCEPT ![p] = n][q] # None
<1>1. [t EXCEPT ![p] = n] \in Trees
  BY DEF Trees
<1>2. [t EXCEPT ![p] = n][p] = n /\ \A q \in Paths \ {p} : [t EXCEPT ![p] = n][q] = t[q]
  BY DEF Trees
<1>3. ASSUME NEW q \in Paths, Len(q) = 2, [t EXCEPT ![p] = n][q] # None
      PROVE  [t EXCEPT ![p] = n][Front(q)].kind = "dir"
  <2>1. Front(q) \in Paths /\ t[Front(q)].kind = "dir"
    BY <1>2, <1>3, PathShape, TreeFacts
  <2> QED
    BY <1>2, <2>1, NodeFacts, MadeNodes
<1> QED
  BY <1>1, <1>2, <1>3, TreeFacts

\* A file is made, or emptied; a directory is made, or there.
LEMMA MadeTree ==
    ASSUME NEW t \in Trees, IsTree(t), NEW p \in Paths
    PROVE  /\ CanCreate(t, p) =>
                /\ Create(t, p) \in Trees /\ IsTree(Create(t, p))
                /\ Create(t, p)[p] = File(<<>>, FALSE)
                /\ \A q \in Paths : t[q] # None \/ q = p => Create(t, p)[q] # None
           /\ CanMakeDir(t, p) =>
                /\ MakeDir(t, p) \in Trees /\ IsTree(MakeDir(t, p))
                /\ \A q \in Paths : t[q] # None \/ q = p => MakeDir(t, p)[q] # None
<1>1. File(<<>>, FALSE) \in Nodes /\ File(<<>>, FALSE).kind = "file" /\ File(<<>>, FALSE) # None
  <2>1. <<>> \in Seq(Bytes \cup {Zero})
    BY EmptySeq
  <2> QED
    BY <2>1, MadeNodes
<1>2. ASSUME CanCreate(t, p)
      PROVE  /\ Create(t, p) \in Trees /\ IsTree(Create(t, p))
             /\ Create(t, p)[p] = File(<<>>, FALSE)
             /\ \A q \in Paths : t[q] # None \/ q = p => Create(t, p)[q] # None
  <2>1. CanMakeParent(t, p) /\ (t[p] = None \/ t[p].kind = "file")
    BY <1>2 DEF CanCreate
  <2> DEFINE u == MakeParent(t, p)
  <2>2. u \in Trees /\ IsTree(u) /\ u[p] = t[p] /\ (Len(p) = 2 => u[Front(p)].kind = "dir")
        /\ \A q \in Paths : t[q] # None => u[q] # None
    BY <2>1, ParentFacts, MadeNodes
  <2>3. Create(t, p) = [u EXCEPT ![p] = File(<<>>, FALSE)]
    BY DEF Create
  <2> HIDE DEF u
  <2>4. /\ [u EXCEPT ![p] = File(<<>>, FALSE)] \in Trees /\ IsTree([u EXCEPT ![p] = File(<<>>, FALSE)])
        /\ \A q \in Paths : u[q] # None => [u EXCEPT ![p] = File(<<>>, FALSE)][q] # None
    BY <1>1, <2>1, <2>2, PutTree
  <2>5. [u EXCEPT ![p] = File(<<>>, FALSE)][p] = File(<<>>, FALSE)
    BY <2>2 DEF Trees
  <2> QED
    BY <1>1, <2>2, <2>3, <2>4, <2>5
<1>3. ASSUME CanMakeDir(t, p)
      PROVE  /\ MakeDir(t, p) \in Trees /\ IsTree(MakeDir(t, p))
             /\ \A q \in Paths : t[q] # None \/ q = p => MakeDir(t, p)[q] # None
  <2>1. CASE t[p] = None
    <3> DEFINE u == MakeParent(t, p)
    <3>1. u \in Trees /\ IsTree(u) /\ u[p] = t[p] /\ (Len(p) = 2 => u[Front(p)].kind = "dir")
          /\ \A q \in Paths : t[q] # None => u[q] # None
      BY <1>3, ParentFacts, MadeNodes DEF CanMakeDir
    <3>2. MakeDir(t, p) = [u EXCEPT ![p] = Dir]
      BY <2>1 DEF MakeDir
    <3> HIDE DEF u
    <3>3. /\ [u EXCEPT ![p] = Dir] \in Trees /\ IsTree([u EXCEPT ![p] = Dir])
          /\ \A q \in Paths : u[q] # None => [u EXCEPT ![p] = Dir][q] # None
      BY <2>1, <3>1, PutTree, MadeNodes
    <3>4. [u EXCEPT ![p] = Dir][p] # None
      BY <3>1, MadeNodes DEF Trees
    <3> QED
      BY <3>1, <3>2, <3>3, <3>4
  <2>2. CASE t[p] # None
    BY <2>2 DEF MakeDir
  <2> QED
    BY <2>1, <2>2
<1> QED
  BY <1>2, <1>3

\* The content of a file and the mode of a node change nothing else.
LEMMA ChangedTree ==
    ASSUME NEW t \in Trees, IsTree(t), NEW p \in Paths
    PROVE  /\ \A d \in Seq(Bytes \cup {Zero}) : t[p].kind = "file" =>
                /\ [t EXCEPT ![p].data = d] \in Trees /\ IsTree([t EXCEPT ![p].data = d])
                /\ \A q \in Paths : t[q] # None => [t EXCEPT ![p].data = d][q] # None
           /\ \A r \in BOOLEAN : t[p] # None =>
                /\ [t EXCEPT ![p].ro = r] \in Trees /\ IsTree([t EXCEPT ![p].ro = r])
                /\ \A q \in Paths : t[q] # None => [t EXCEPT ![p].ro = r][q] # None
<1>1. ASSUME NEW d \in Seq(Bytes \cup {Zero}), t[p].kind = "file"
      PROVE  /\ [t EXCEPT ![p].data = d] \in Trees /\ IsTree([t EXCEPT ![p].data = d])
             /\ \A q \in Paths : t[q] # None => [t EXCEPT ![p].data = d][q] # None
  <2> DEFINE n == [t[p] EXCEPT !.data = d]
  <2>1. t[p] \in [kind : {"file"}, data : Seq(Bytes \cup {Zero}), ro : BOOLEAN]
    BY <1>1, NodeFacts DEF Nodes, None
  <2>2. n \in Nodes /\ n # None /\ n.kind = t[p].kind
    BY <2>1 DEF Nodes, None
  <2>3. Len(p) = 2 => t[Front(p)].kind = "dir"
    BY <1>1, TreeFacts, MadeNodes
  <2>4. [t EXCEPT ![p].data = d] = [t EXCEPT ![p] = n]
    OBVIOUS
  <2> HIDE DEF n
  <2> QED
    BY <2>2, <2>3, <2>4, PutTree
<1>2. ASSUME NEW r \in BOOLEAN, t[p] # None
      PROVE  /\ [t EXCEPT ![p].ro = r] \in Trees /\ IsTree([t EXCEPT ![p].ro = r])
             /\ \A q \in Paths : t[q] # None => [t EXCEPT ![p].ro = r][q] # None
  <2> DEFINE n == [t[p] EXCEPT !.ro = r]
  <2>1. n \in Nodes /\ n # None /\ n.kind = t[p].kind
    <3>1. t[p] \in [kind : {"dir"}, data : {<<>>}, ro : BOOLEAN]
            \cup [kind : {"file"}, data : Seq(Bytes \cup {Zero}), ro : BOOLEAN]
      BY <1>2, NodeFacts DEF Nodes
    <3> QED
      BY <3>1 DEF Nodes, None
  <2>2. Len(p) = 2 => t[Front(p)].kind = "dir"
    BY <1>2, TreeFacts
  <2>3. [t EXCEPT ![p].ro = r] = [t EXCEPT ![p] = n]
    OBVIOUS
  <2> HIDE DEF n
  <2> QED
    BY <2>1, <2>2, <2>3, PutTree
<1> QED
  BY <1>1, <1>2

\* A removal takes what is below with it.
LEMMA RemovedTree ==
    ASSUME NEW t \in Trees, IsTree(t), NEW p \in Paths
    PROVE  RemoveTree(t, p) \in Trees /\ IsTree(RemoveTree(t, p))
<1>1. RemoveTree(t, p) \in Trees
  BY MadeNodes DEF RemoveTree, Trees
<1>2. ASSUME NEW q \in Paths, Len(q) = 2, RemoveTree(t, p)[q] # None
      PROVE  RemoveTree(t, p)[Front(q)].kind = "dir"
  <2>1. ~IsPrefix(p, q) /\ t[q] # None
    BY <1>2 DEF RemoveTree
  <2>2. Front(q) \in Paths /\ Len(Front(q)) = 1 /\ t[Front(q)].kind = "dir"
    BY <1>2, <2>1, PathShape, TreeFacts
  <2>3. ~IsPrefix(p, Front(q))
    BY <1>2, <2>1, <2>2, PathShape
  <2> QED
    BY <2>2, <2>3 DEF RemoveTree
<1> QED
  BY <1>1, <1>2, TreeFacts

\* Where everything is after a move.
LEMMA MoveFacts ==
    ASSUME NEW t \in Trees, NEW s \in Paths, NEW p \in Paths, ~IsPrefix(s, p)
    PROVE  /\ Move(t, s, p)[p] = t[s]
           /\ \A q \in Below(p) :
                \/ Move(t, s, p)[q] = None
                \/ Moved(p, s, q) \in Below(s) /\ Move(t, s, p)[q] = t[Moved(p, s, q)]
           /\ \A q \in Paths : IsPrefix(s, q) /\ ~IsPrefix(p, q) => Move(t, s, p)[q] = None
           /\ \A q \in Paths : ~IsPrefix(s, q) /\ ~IsPrefix(p, q) => Move(t, s, p)[q] = t[q]
<1>1. Moved(p, s, p) = s /\ \A q \in Below(p) : Moved(p, s, q) \in Paths => Moved(p, s, q) \in Below(s)
  BY MovedFacts
<1>2. IsPrefix(p, p) /\ \A q \in Below(p) : q \in Paths /\ IsPrefix(p, q)
  BY PathShape
<1>3. Move(t, s, p)[p] = t[s]
  BY <1>1, <1>2 DEF Move
<1>4. ASSUME NEW q \in Below(p)
      PROVE  \/ Move(t, s, p)[q] = None
             \/ Moved(p, s, q) \in Below(s) /\ Move(t, s, p)[q] = t[Moved(p, s, q)]
  BY <1>1, <1>2 DEF Move
<1> QED
  BY <1>3, <1>4 DEF Move

\* A move takes what is below along, into a directory that is there.
LEMMA MovedTree ==
    ASSUME NEW t \in Trees, IsTree(t), NEW s \in Paths, NEW p \in Paths, CanMove(t, s, p)
    PROVE  Move(t, s, p) \in Trees /\ IsTree(Move(t, s, p))
<1> DEFINE m == Move(t, s, p)
<1>1. ~IsPrefix(s, p) /\ t[s] # None /\ (Len(p) = 2 => t[Front(p)].kind = "dir")
  BY PathShape DEF CanMove, CanLink
<1>2. m \in Trees
  <2>1. None \in Nodes
    BY MadeNodes
  <2> QED
    BY <2>1 DEF Move, Trees
<1>3. /\ m[p] = t[s]
      /\ \A q \in Below(p) : m[q] = None \/ (Moved(p, s, q) \in Below(s) /\ m[q] = t[Moved(p, s, q)])
      /\ \A q \in Paths : IsPrefix(s, q) /\ ~IsPrefix(p, q) => m[q] = None
      /\ \A q \in Paths : ~IsPrefix(s, q) /\ ~IsPrefix(p, q) => m[q] = t[q]
  BY <1>1, MoveFacts
<1> HIDE DEF m
<1>4. ASSUME NEW q \in Paths, Len(q) = 2, m[q] # None PROVE m[Front(q)].kind = "dir"
  <2>1. Front(q) \in Paths /\ Len(Front(q)) = 1
    BY <1>4, PathShape
  <2>2. CASE q = p
    <3>1. t[Front(q)].kind = "dir"
      BY <1>1, <1>4, <2>2
    <3>2. ~IsPrefix(s, Front(q)) /\ ~IsPrefix(p, Front(q))
      BY <1>1, <1>4, <2>1, <2>2, PathShape
    <3> QED
      BY <1>3, <2>1, <3>1, <3>2
  <2>3. CASE q \in Below(p)
    <3>1. Moved(p, s, q) \in Below(s) /\ t[Moved(p, s, q)] # None
      BY <1>3, <1>4, <2>3
    <3>2. Moved(p, s, q) \in Paths /\ Len(Moved(p, s, q)) = 2 /\ Front(Moved(p, s, q)) = s
      BY <3>1, PathShape
    <3>3. t[s].kind = "dir"
      BY <3>1, <3>2, TreeFacts
    <3>4. Front(q) = p
      BY <2>3, PathShape
    <3> QED
      BY <1>3, <3>3, <3>4
  <2>4. CASE ~IsPrefix(p, q)
    <3>1. ~IsPrefix(s, q) /\ m[q] = t[q]
      BY <1>3, <1>4, <2>4
    <3>2. t[Front(q)].kind = "dir"
      BY <1>4, <3>1, TreeFacts
    <3>3. ~IsPrefix(s, Front(q)) /\ ~IsPrefix(p, Front(q))
      BY <1>4, <2>1, <2>4, <3>1, PathShape
    <3> QED
      BY <1>3, <2>1, <3>2, <3>3
  <2> QED
    BY <1>4, <2>2, <2>3, <2>4, PathShape
<1> QED
  BY <1>2, <1>4, TreeFacts DEF m

-----------------------------------------------------------------------------
(* The bytes of a file. *)

\* The length of a written file is one of two.
LEMMA MaxOfTwo ==
    ASSUME NEW a \in Nat, NEW b \in Nat
    PROVE  Max({a, b}) = IF a >= b THEN a ELSE b
<1>1. \E x \in {a, b} : \A y \in {a, b} : x >= y
  OBVIOUS
<1>2. Max({a, b}) \in {a, b} /\ \A y \in {a, b} : Max({a, b}) >= y
  BY <1>1 DEF Max
<1> QED
  BY <1>2

\* A list of so many bytes is a sequence of them.
LEMMA ListOf ==
    ASSUME NEW S, NEW n \in Nat, NEW f \in [1..n -> S]
    PROVE  f \in Seq(S) /\ Len(f) = n /\ DOMAIN f = 1..n
<1>1. f \in Seq(S)
  BY SeqDef
<1>2. DOMAIN f = 1..n
  OBVIOUS
<1> QED
  BY <1>1, <1>2, LenProperties

\* ftruncate and Vec::resize make a file of the size.
LEMMA SizedFile ==
    ASSUME NEW d \in Seq(Bytes \cup {Zero}), NEW n \in Nat
    PROVE  /\ SetLen(d, n) \in Seq(Bytes \cup {Zero})
           /\ Len(SetLen(d, n)) = n /\ DOMAIN SetLen(d, n) = 1..n
           /\ \A i \in 1..n : SetLen(d, n)[i] = IF i <= Len(d) THEN d[i] ELSE Zero
<1>1. \A i \in 1..n : i <= Len(d) => d[i] \in Bytes \cup {Zero}
  BY ElementOfSeq, LenProperties
<1>2. SetLen(d, n) \in [1..n -> Bytes \cup {Zero}]
  BY <1>1 DEF SetLen
<1> QED
  BY <1>2, ListOf DEF SetLen

\* The replay reads, extends, overwrites and writes back what pwrite changed
\* in place: the same bytes.
LEMMA WrittenFile ==
    ASSUME NEW d \in Seq(Bytes \cup {Zero}), NEW off \in Nat, NEW b \in Seq(Bytes)
    PROVE  /\ WriteAt(d, off, b) \in Seq(Bytes \cup {Zero})
           /\ Overwrite(d, off, b) = WriteAt(d, off, b)
<1> DEFINE end == off + Len(b)
           n == IF Len(d) >= end THEN Len(d) ELSE end
           long == IF Len(d) < off THEN SetLen(d, off) ELSE d
           full == IF Len(long) < end THEN SetLen(long, end) ELSE long
<1>1. Len(d) \in Nat /\ Len(b) \in Nat /\ end \in Nat /\ n \in Nat /\ DOMAIN d = 1..Len(d)
  BY LenProperties
<1>2. /\ \A i \in 1..Len(d) : d[i] \in Bytes \cup {Zero}
      /\ \A i \in 1..Len(b) : b[i] \in Bytes
  BY ElementOfSeq
<1>3. Max({Len(d), end}) = n
  BY <1>1, MaxOfTwo
<1>4. WriteAt(d, off, b) = [i \in 1..n |-> IF i \in (off + 1)..end THEN b[i - off]
                                           ELSE IF i <= Len(d) THEN d[i] ELSE Zero]
  BY <1>3 DEF WriteAt
<1>5. /\ long \in Seq(Bytes \cup {Zero}) /\ DOMAIN long = 1..Len(long)
      /\ Len(long) = IF Len(d) < off THEN off ELSE Len(d)
      /\ \A i \in 1..Len(long) : long[i] = IF i <= Len(d) THEN d[i] ELSE Zero
  <2>1. CASE Len(d) < off
    BY <1>1, <2>1, SizedFile
  <2>2. CASE ~(Len(d) < off)
    BY <1>1, <2>2
  <2> QED
    BY <2>1, <2>2
<1> HIDE DEF long
<1>6. /\ DOMAIN full = 1..n
      /\ \A i \in 1..n : full[i] = IF i <= Len(d) THEN d[i] ELSE Zero
  <2>1. CASE Len(long) < end
    <3>1. full = SetLen(long, end) /\ n = end
      BY <1>1, <1>5, <2>1
    <3>2. /\ DOMAIN full = 1..end
          /\ \A i \in 1..end : full[i] = IF i <= Len(long) THEN long[i] ELSE Zero
      <4>1. /\ DOMAIN SetLen(long, end) = 1..end
            /\ \A i \in 1..end : SetLen(long, end)[i] = IF i <= Len(long) THEN long[i] ELSE Zero
        BY <1>1, <1>5, SizedFile
      <4> QED
        BY <3>1, <4>1
    <3> QED
      BY <1>1, <1>5, <2>1, <3>1, <3>2
  <2>2. CASE ~(Len(long) < end)
    <3>1. full = long /\ n = Len(long)
      BY <1>1, <1>5, <2>2
    <3> QED
      BY <1>5, <3>1
  <2> QED
    BY <2>1, <2>2
<1>7. Overwrite(d, off, b) = [i \in DOMAIN full |-> IF i > off /\ i <= end THEN b[i - off] ELSE full[i]]
  BY DEF Overwrite, long
<1> HIDE DEF full, n
<1>8. WriteAt(d, off, b) \in [1..n -> Bytes \cup {Zero}]
  <2>1. ASSUME NEW i \in 1..n, i \in (off + 1)..end PROVE b[i - off] \in Bytes
    BY <1>1, <1>2, <2>1
  <2> QED
    BY <1>1, <1>2, <1>4, <2>1
<1>9. \A i \in 1..n : (i > off /\ i <= end) <=> i \in (off + 1)..end
  BY <1>1
<1> QED
  BY <1>1, <1>4, <1>6, <1>7, <1>8, <1>9, ListOf

-----------------------------------------------------------------------------
(* A copy that looks like the workspace: it has what a checkpoint of the   *)
(* workspace has, and of the ignored entries and the modes of directories, *)
(* which a checkpoint lacks, none that stands in the way of a later event. *)

Like(t, d) ==
    \A p \in Paths :
        /\ d[p].kind = t[p].kind \/ (Hidden(p) /\ d[p] = None)
        /\ ~Hidden(p) /\ t[p].kind = "file" => d[p] = t[p]
        /\ d[p].ro => t[p].ro
        /\ Len(p) = 2 /\ d[p] = None /\ t[p] # None => ~d[Front(p)].ro

\* The event e can be applied to d and gives a copy that looks like u.
Repeats(u, d, e) ==
    /\ CanApply(d, e, {e.data})
    /\ Apply(d, e) \in Trees /\ IsTree(Apply(d, e)) /\ Like(u, Apply(d, e))

\* A node put in both.
LEMMA LikePut ==
    ASSUME NEW t \in Trees, NEW d \in Trees, Like(t, d), NEW p \in Paths,
           NEW x \in Nodes, NEW y \in Nodes, y # None,
           y.kind = x.kind, ~Hidden(p) /\ x.kind = "file" => y = x,
           y.ro => x.ro, Hidden(p) /\ y.ro => d[p].ro
    PROVE  Like([t EXCEPT ![p] = x], [d EXCEPT ![p] = y])
<1> DEFINE u == [t EXCEPT ![p] = x]
           v == [d EXCEPT ![p] = y]
<1>1. u[p] = x /\ v[p] = y /\ \A q \in Paths \ {p} : u[q] = t[q] /\ v[q] = d[q]
  BY DEF Trees
<1> HIDE DEF u, v
<1> SUFFICES ASSUME NEW q \in Paths
             PROVE  /\ v[q].kind = u[q].kind \/ (Hidden(q) /\ v[q] = None)
                    /\ ~Hidden(q) /\ u[q].kind = "file" => v[q] = u[q]
                    /\ v[q].ro => u[q].ro
                    /\ Len(q) = 2 /\ v[q] = None /\ u[q] # None => ~v[Front(q)].ro
  BY DEF Like, u, v
<1>2. CASE q = p
  BY <1>1, <1>2
<1>3. CASE q # p
  <2>1. /\ d[q].kind = t[q].kind \/ (Hidden(q) /\ d[q] = None)
        /\ ~Hidden(q) /\ t[q].kind = "file" => d[q] = t[q]
        /\ d[q].ro => t[q].ro
        /\ Len(q) = 2 /\ d[q] = None /\ t[q] # None => ~d[Front(q)].ro
    BY DEF Like
  <2>2. u[q] = t[q] /\ v[q] = d[q]
    BY <1>1, <1>3
  <2>3. ASSUME Len(q) = 2, d[q] = None, t[q] # None PROVE ~v[Front(q)].ro
    <3>1. Front(q) \in Paths /\ Hidden(Front(q)) = Hidden(q) /\ ~d[Front(q)].ro
      BY <2>1, <2>3, PathShape
    <3>2. Hidden(q)
      BY <2>1, <2>3, NodeFacts
    <3> QED
      BY <1>1, <3>1, <3>2
  <2> QED
    BY <2>1, <2>2, <2>3
<1> QED
  BY <1>2, <1>3

\* create_dir_all of the parent makes it in both, or it is in both.
LEMMA LikeParent ==
    ASSUME NEW t \in Trees, NEW d \in Trees, IsTree(t), IsTree(d), Like(t, d), NEW p \in Paths,
           CanMakeParent(t, p)
    PROVE  CanMakeParent(d, p) /\ Like(MakeParent(t, p), MakeParent(d, p))
<1>1. CASE Len(p) = 2
  <2> DEFINE r == Front(p)
  <2>1. r \in Paths /\ Len(p) > 1 /\ t[r].kind # "file"
    BY <1>1, PathShape DEF CanMakeParent
  <2>2. /\ d[r].kind = t[r].kind \/ d[r] = None
    BY <2>1 DEF Like
  <2>3. CanMakeParent(d, p)
    BY <1>1, <2>1, <2>2, MadeNodes DEF CanMakeParent
  <2>4. CASE t[r] = None
    <3>1. d[r] = None
      BY <2>1, <2>2, <2>4, NodeFacts
    <3>2. MakeParent(t, p) = [t EXCEPT ![r] = Dir] /\ MakeParent(d, p) = [d EXCEPT ![r] = Dir]
      BY <2>1, <2>4, <3>1 DEF MakeParent
    <3> HIDE DEF r
    <3>3. Like([t EXCEPT ![r] = Dir], [d EXCEPT ![r] = Dir])
      BY <2>1, MadeNodes, LikePut
    <3> QED
      BY <2>3, <3>2, <3>3
  <2>5. CASE t[r] # None /\ d[r] = None
    <3>1. t[r].kind = "dir" /\ [t EXCEPT ![r] = t[r]] = t /\ t[r] \in Nodes
      BY <2>1, <2>5, NodeFacts DEF Trees
    <3>2. MakeParent(t, p) = t /\ MakeParent(d, p) = [d EXCEPT ![r] = Dir]
      BY <2>1, <2>5 DEF MakeParent
    <3> HIDE DEF r
    <3>3. Like([t EXCEPT ![r] = t[r]], [d EXCEPT ![r] = Dir])
      BY <2>1, <3>1, MadeNodes, LikePut
    <3> QED
      BY <2>3, <3>1, <3>2, <3>3
  <2>6. CASE t[r] # None /\ d[r] # None
    BY <2>3, <2>6 DEF MakeParent
  <2> QED
    BY <2>4, <2>5, <2>6, <2>2, <2>1, NodeFacts
<1>2. CASE Len(p) # 2
  <2>1. ~(Len(p) > 1)
    BY <1>2, PathShape
  <2> QED
    BY <2>1 DEF CanMakeParent, MakeParent
<1> QED
  BY <1>1, <1>2

\* Where the workspace can link an entry, so can the copy that has its parent.
LEMMA LikeLink ==
    ASSUME NEW t \in Trees, NEW d \in Trees, Like(t, d), NEW p \in Paths,
           CanLink(t, p), Len(p) = 2 => d[Front(p)] # None
    PROVE  CanLink(d, p)
<1> SUFFICES ASSUME Len(p) = 2 PROVE d[Front(p)].kind = "dir" /\ ~d[Front(p)].ro
  BY PathShape DEF CanLink
<1>1. Front(p) \in Paths /\ t[Front(p)].kind = "dir" /\ ~t[Front(p)].ro
  BY PathShape DEF CanLink
<1> QED
  BY <1>1 DEF Like

\* What the copy lacks it can make, be it in the workspace or not.
LEMMA LikeAbsent ==
    ASSUME NEW t \in Trees, NEW d \in Trees, IsTree(t), IsTree(d), Like(t, d), NEW p \in Paths,
           CanMakeParent(t, p), d[p] = None,
           t[p] = None => CanLink(MakeParent(t, p), p)
    PROVE  CanMakeParent(d, p) /\ CanLink(MakeParent(d, p), p)
<1> DEFINE u == MakeParent(t, p)
           v == MakeParent(d, p)
<1>1. CanMakeParent(d, p) /\ Like(u, v)
  BY LikeParent
<1>2. /\ u \in Trees /\ v \in Trees /\ u[p] = t[p] /\ v[p] = d[p]
      /\ Len(p) = 2 => v[Front(p)].kind = "dir"
  BY <1>1, ParentFacts
<1> HIDE DEF u, v
<1>3. CASE t[p] = None
  <2>1. Len(p) = 2 => v[Front(p)] # None
    BY <1>2, MadeNodes
  <2>2. CanLink(u, p)
    BY <1>3 DEF u
  <2>3. CanLink(v, p)
    BY <1>1, <1>2, <2>1, <2>2, LikeLink
  <2> QED
    BY <1>1, <2>3 DEF v
<1>4. CASE t[p] # None
  <2>1. Len(p) = 2 => ~v[Front(p)].ro
    BY <1>1, <1>2, <1>4 DEF Like
  <2> QED
    BY <1>1, <1>2, <2>1, PathShape DEF CanLink, v
<1> QED
  BY <1>3, <1>4

-----------------------------------------------------------------------------
(* Every event repeats what its operation did. *)

\* create_dir_all of the parent and File::create, in the copy as in the workspace.
LEMMA RepeatCreate ==
    ASSUME NEW t \in Trees, NEW d \in Trees, IsTree(t), IsTree(d), Like(t, d), NEW p \in Paths,
           CanCreate(t, p)
    PROVE  CanCreate(d, p) /\ Like(Create(t, p), Create(d, p))
<1>1. CanMakeParent(t, p) /\ (t[p] = None => CanLink(MakeParent(t, p), p))
      /\ (t[p] # None => t[p].kind = "file" /\ ~t[p].ro)
  BY MadeNodes DEF CanCreate
<1>2. CanMakeParent(d, p) /\ Like(MakeParent(t, p), MakeParent(d, p))
  BY <1>1, LikeParent
<1>3. CanCreate(d, p)
  <2>1. CASE d[p] = None
    BY <1>1, <2>1, LikeAbsent DEF CanCreate
  <2>2. CASE d[p] # None
    <3>1. d[p].kind = t[p].kind /\ (d[p].ro => t[p].ro)
      BY <2>2 DEF Like
    <3>2. d[p].kind = "file" /\ ~d[p].ro
      BY <1>1, <2>2, <3>1, NodeFacts
    <3> QED
      BY <1>2, <3>2 DEF CanCreate
  <2> QED
    BY <2>1, <2>2
<1>4. MakeParent(t, p) \in Trees /\ MakeParent(d, p) \in Trees
  BY <1>1, <1>2, ParentFacts
<1>5. File(<<>>, FALSE) \in Nodes /\ File(<<>>, FALSE) # None /\ ~File(<<>>, FALSE).ro
  <2>1. <<>> \in Seq(Bytes \cup {Zero})
    BY EmptySeq
  <2> QED
    BY <2>1, MadeNodes
<1>6. Like(Create(t, p), Create(d, p))
  BY <1>2, <1>4, <1>5, LikePut DEF Create
<1> QED
  BY <1>3, <1>6

\* The event of a create repeats it.
LEMMA RepeatCreateEvent ==
    ASSUME NEW t \in Trees, NEW d \in Trees, IsTree(t), IsTree(d), Like(t, d), NEW p \in Paths,
           CanCreate(t, p)
    PROVE  Repeats(Create(t, p), d, Event("create", p))
<1> DEFINE e == Event("create", p)
<1>1. e.op = "create" /\ e.path = p
  BY DEF Event
<1>2. CanCreate(d, p) /\ Like(Create(t, p), Create(d, p))
  BY RepeatCreate
<1>3. Create(d, p) \in Trees /\ IsTree(Create(d, p))
  BY <1>2, MadeTree
<1> HIDE DEF e
<1>4. CanApply(d, e, {e.data}) <=> CanCreate(d, p)
  BY <1>1 DEF CanApply
<1>5. Apply(d, e) = Create(d, p)
  BY <1>1 DEF Apply
<1> QED
  BY <1>2, <1>3, <1>4, <1>5 DEF Repeats, e

\* create_dir_all
LEMMA RepeatMkdirEvent ==
    ASSUME NEW t \in Trees, NEW d \in Trees, IsTree(t), IsTree(d), Like(t, d), NEW p \in Paths,
           CanMakeDir(t, p)
    PROVE  Repeats(MakeDir(t, p), d, Event("mkdir", p))
<1> DEFINE e == Event("mkdir", p)
<1>1. e.op = "mkdir" /\ e.path = p
  BY DEF Event
<1>2. CanMakeParent(t, p) /\ (t[p] = None => CanLink(MakeParent(t, p), p))
      /\ (t[p] # None => t[p].kind = "dir")
  BY MadeNodes DEF CanMakeDir
<1>3. CanMakeParent(d, p) /\ Like(MakeParent(t, p), MakeParent(d, p))
  BY <1>2, LikeParent
<1>4. /\ MakeParent(t, p) \in Trees /\ MakeParent(d, p) \in Trees
      /\ MakeParent(t, p)[p] = t[p]
  BY <1>2, <1>3, ParentFacts
<1>5. CanMakeDir(d, p) /\ Like(MakeDir(t, p), MakeDir(d, p))
  <2>1. CASE d[p] = None /\ t[p] = None
    <3>1. CanMakeDir(d, p)
      BY <1>2, <2>1, LikeAbsent DEF CanMakeDir
    <3>2. Like([MakeParent(t, p) EXCEPT ![p] = Dir], [MakeParent(d, p) EXCEPT ![p] = Dir])
      BY <1>3, <1>4, MadeNodes, LikePut
    <3> QED
      BY <2>1, <3>1, <3>2 DEF MakeDir
  <2>2. CASE d[p] = None /\ t[p] # None
    <3>1. CanMakeDir(d, p)
      BY <1>2, <2>2, LikeAbsent DEF CanMakeDir
    <3> DEFINE u == MakeParent(t, p)
    <3>2. u = t
      <4>1. Len(p) = 2 => t[Front(p)].kind = "dir"
        BY <2>2, TreeFacts
      <4> QED
        BY <4>1, PathShape, MadeNodes DEF MakeParent
    <3>3. u[p] \in Nodes /\ u[p].kind = "dir" /\ [u EXCEPT ![p] = u[p]] = u
      BY <1>2, <1>4, <2>2, NodeFacts DEF Trees
    <3> HIDE DEF u
    <3>4. Like([u EXCEPT ![p] = u[p]], [MakeParent(d, p) EXCEPT ![p] = Dir])
      BY <1>3, <1>4, <3>3, MadeNodes, LikePut DEF u
    <3> QED
      BY <2>2, <3>1, <3>2, <3>3, <3>4 DEF MakeDir
  <2>3. CASE d[p] # None
    <3>1. d[p].kind = t[p].kind
      BY <2>3 DEF Like
    <3>2. t[p] # None /\ d[p].kind = "dir"
      BY <1>2, <2>3, <3>1, NodeFacts
    <3> QED
      BY <1>3, <2>3, <3>2 DEF CanMakeDir, MakeDir
  <2> QED
    BY <2>1, <2>2, <2>3
<1>6. MakeDir(d, p) \in Trees /\ IsTree(MakeDir(d, p))
  BY <1>5, MadeTree
<1> HIDE DEF e
<1>7. CanApply(d, e, {e.data}) <=> CanMakeDir(d, p)
  BY <1>1 DEF CanApply
<1>8. Apply(d, e) = MakeDir(d, p)
  BY <1>1 DEF Apply
<1> QED
  BY <1>5, <1>6, <1>7, <1>8 DEF Repeats, e

\* A writable file with another content is a file.
LEMMA DataPut ==
    ASSUME NEW n \in Nodes, n.kind = "file", NEW f \in Seq(Bytes \cup {Zero})
    PROVE  [n EXCEPT !.data = f] = File(f, n.ro)
<1>1. n \in [kind : {"file"}, data : Seq(Bytes \cup {Zero}), ro : BOOLEAN]
  BY DEF Nodes, None
<1> QED
  BY <1>1 DEF File

\* Opening a file for writing, and what is opened: the file there is, or the
\* new one of a copy that lacks it.
LEMMA RepeatOpen ==
    ASSUME NEW t \in Trees, NEW d \in Trees, IsTree(t), IsTree(d), Like(t, d), NEW p \in Paths,
           CanOpen(t, p)
    PROVE  LET v == IF d[p] = None THEN Create(d, p) ELSE d IN
           /\ CanOpenNew(d, p)
           /\ v \in Trees /\ IsTree(v) /\ v[p].kind = "file" /\ ~v[p].ro
           /\ ~Hidden(p) => v[p] = t[p]
           /\ \A f, g \in Seq(Bytes \cup {Zero}) : (~Hidden(p) => f = g) =>
                Like([t EXCEPT ![p].data = f], [v EXCEPT ![p].data = g])
<1> DEFINE v == IF d[p] = None THEN Create(d, p) ELSE d
<1>1. t[p].kind = "file" /\ ~t[p].ro /\ t[p] # None
  BY MadeNodes DEF CanOpen
<1>2. /\ d[p].kind = t[p].kind \/ (Hidden(p) /\ d[p] = None)
      /\ ~Hidden(p) => d[p] = t[p]
      /\ d[p].ro => t[p].ro
  BY <1>1 DEF Like
<1>3. CanMakeParent(t, p) /\ MakeParent(t, p) = t
  <2>1. Len(p) = 2 => t[Front(p)].kind = "dir"
    BY <1>1, TreeFacts
  <2> QED
    BY <2>1, PathShape, MadeNodes DEF CanMakeParent, MakeParent
<1>4. CASE d[p] = None
  <2>1. CanCreate(d, p) /\ CanMakeParent(d, p)
    BY <1>1, <1>3, <1>4, LikeAbsent DEF CanCreate
  <2> DEFINE w == MakeParent(d, p)
  <2>2. w \in Trees /\ Like(t, w)
    BY <1>3, <2>1, LikeParent, ParentFacts
  <2>3. /\ v = [w EXCEPT ![p] = File(<<>>, FALSE)] /\ v \in Trees /\ IsTree(v)
        /\ v[p] = File(<<>>, FALSE)
    BY <1>4, <2>1, MadeTree DEF Create
  <2>4. v[p].kind = "file" /\ ~v[p].ro
    BY <2>3 DEF File
  <2>5. Hidden(p)
    BY <1>1, <1>2, <1>4, MadeNodes
  <2> HIDE DEF w
  <2>6. ASSUME NEW f \in Seq(Bytes \cup {Zero}), NEW g \in Seq(Bytes \cup {Zero})
        PROVE  Like([t EXCEPT ![p].data = f], [v EXCEPT ![p].data = g])
    <3> HIDE DEF v
    <3> DEFINE x == File(f, t[p].ro)
               y == File(g, v[p].ro)
    <3>1. t[p] \in Nodes /\ v[p] \in Nodes /\ t[p].ro \in BOOLEAN /\ v[p].ro \in BOOLEAN
      BY <2>3, NodeFacts
    <3>2. [t EXCEPT ![p].data = f] = [t EXCEPT ![p] = x]
      <4>1. [t[p] EXCEPT !.data = f] = x
        BY <1>1, <3>1, DataPut
      <4> QED
        BY <4>1
    <3>3. [v EXCEPT ![p].data = g] = [w EXCEPT ![p] = y]
      <4>1. [v[p] EXCEPT !.data = g] = y
        BY <2>4, <3>1, DataPut
      <4>2. [v EXCEPT ![p].data = g] = [v EXCEPT ![p] = y]
        BY <4>1
      <4>3. [v EXCEPT ![p] = y] = [w EXCEPT ![p] = y]
        BY <2>2, <2>3 DEF Trees
      <4> QED
        BY <4>2, <4>3
    <3>4. /\ x \in Nodes /\ y \in Nodes /\ y # None /\ x.kind = "file" /\ y.kind = "file"
          /\ y.ro = v[p].ro
      BY <3>1, MadeNodes
    <3> HIDE DEF x, y
    <3> QED
      BY <2>2, <2>4, <2>5, <3>2, <3>3, <3>4, LikePut
  <2> QED
    BY <1>1, <1>4, <2>1, <2>3, <2>4, <2>5, <2>6 DEF CanOpenNew
<1>5. CASE d[p] # None
  <2>1. v = d /\ d[p].kind = "file" /\ ~d[p].ro
    BY <1>1, <1>2, <1>5
  <2>2. ASSUME NEW f \in Seq(Bytes \cup {Zero}), NEW g \in Seq(Bytes \cup {Zero}),
               ~Hidden(p) => f = g
        PROVE  Like([t EXCEPT ![p].data = f], [d EXCEPT ![p].data = g])
    <3> DEFINE x == File(f, t[p].ro)
               y == File(g, d[p].ro)
    <3>1. t[p] \in Nodes /\ d[p] \in Nodes /\ t[p].ro \in BOOLEAN /\ d[p].ro \in BOOLEAN
      BY NodeFacts
    <3>2. [t EXCEPT ![p].data = f] = [t EXCEPT ![p] = x]
      <4>1. [t[p] EXCEPT !.data = f] = x
        BY <1>1, <3>1, DataPut
      <4> QED
        BY <4>1
    <3>3. [d EXCEPT ![p].data = g] = [d EXCEPT ![p] = y]
      <4>1. [d[p] EXCEPT !.data = g] = y
        BY <2>1, <3>1, DataPut
      <4> QED
        BY <4>1
    <3>4. /\ x \in Nodes /\ y \in Nodes /\ y # None /\ x.kind = "file" /\ y.kind = "file"
          /\ y.ro = d[p].ro /\ (~Hidden(p) => x = y)
      BY <1>1, <1>2, <2>2, <3>1, MadeNodes
    <3> HIDE DEF x, y
    <3> QED
      BY <2>1, <3>2, <3>3, <3>4, LikePut
  <2> QED
    BY <1>2, <2>1, <2>2 DEF CanOpenNew, CanOpen
<1> QED
  BY <1>4, <1>5

\* pwrite
LEMMA RepeatWriteEvent ==
    ASSUME NEW t \in Trees, NEW d \in Trees, IsTree(t), IsTree(d), Like(t, d), NEW p \in Paths,
           CanOpen(t, p), NEW off \in Nat, NEW b \in Seq(Bytes)
    PROVE  Repeats([t EXCEPT ![p].data = WriteAt(@, off, b)], d, WriteEvent(p, off, b))
<1> DEFINE e == WriteEvent(p, off, b)
           v == IF d[p] = None THEN Create(d, p) ELSE d
           f == WriteAt(t[p].data, off, b)
           g == Overwrite(v[p].data, off, b)
<1>1. e.op = "write" /\ e.path = p /\ e.at = off /\ e.data = b
  BY DEF Event, WriteEvent
<1>2. /\ CanOpenNew(d, p)
      /\ v \in Trees /\ IsTree(v) /\ v[p].kind = "file" /\ ~v[p].ro
      /\ ~Hidden(p) => v[p] = t[p]
      /\ \A x, y \in Seq(Bytes \cup {Zero}) : (~Hidden(p) => x = y) =>
            Like([t EXCEPT ![p].data = x], [v EXCEPT ![p].data = y])
  BY RepeatOpen
<1>3. t[p].data \in Seq(Bytes \cup {Zero}) /\ v[p].data \in Seq(Bytes \cup {Zero})
  BY <1>2, NodeFacts DEF CanOpen
<1> HIDE DEF v
<1>4. f \in Seq(Bytes \cup {Zero}) /\ g \in Seq(Bytes \cup {Zero}) /\ (~Hidden(p) => f = g)
  BY <1>2, <1>3, WrittenFile
<1> HIDE DEF g, f, e
<1>5. Like([t EXCEPT ![p].data = f], [v EXCEPT ![p].data = g])
  BY <1>2, <1>4
<1>6. [v EXCEPT ![p].data = g] \in Trees /\ IsTree([v EXCEPT ![p].data = g])
  BY <1>2, <1>4, ChangedTree
<1>7. CanApply(d, e, {e.data})
  BY <1>1, <1>2 DEF CanApply
<1>8. Apply(d, e) = [v EXCEPT ![p].data = g]
  BY <1>1 DEF Apply, v, g
<1> QED
  BY <1>5, <1>6, <1>7, <1>8 DEF Repeats, e, f

\* ftruncate
LEMMA RepeatTruncateEvent ==
    ASSUME NEW t \in Trees, NEW d \in Trees, IsTree(t), IsTree(d), Like(t, d), NEW p \in Paths,
           CanOpen(t, p), NEW n \in Nat
    PROVE  Repeats([t EXCEPT ![p].data = SetLen(@, n)], d, TruncateEvent(p, n))
<1> DEFINE e == TruncateEvent(p, n)
           v == IF d[p] = None THEN Create(d, p) ELSE d
           f == SetLen(t[p].data, n)
           g == SetLen(v[p].data, n)
<1>1. e.op = "truncate" /\ e.path = p /\ e.at = n
  BY DEF Event, TruncateEvent
<1>2. /\ CanOpenNew(d, p)
      /\ v \in Trees /\ IsTree(v) /\ v[p].kind = "file" /\ ~v[p].ro
      /\ ~Hidden(p) => v[p] = t[p]
      /\ \A x, y \in Seq(Bytes \cup {Zero}) : (~Hidden(p) => x = y) =>
            Like([t EXCEPT ![p].data = x], [v EXCEPT ![p].data = y])
  BY RepeatOpen
<1>3. t[p].data \in Seq(Bytes \cup {Zero}) /\ v[p].data \in Seq(Bytes \cup {Zero})
  BY <1>2, NodeFacts DEF CanOpen
<1> HIDE DEF v
<1>4. f \in Seq(Bytes \cup {Zero}) /\ g \in Seq(Bytes \cup {Zero}) /\ (~Hidden(p) => f = g)
  BY <1>2, <1>3, SizedFile
<1> HIDE DEF g, f, e
<1>5. Like([t EXCEPT ![p].data = f], [v EXCEPT ![p].data = g])
  BY <1>2, <1>4
<1>6. [v EXCEPT ![p].data = g] \in Trees /\ IsTree([v EXCEPT ![p].data = g])
  BY <1>2, <1>4, ChangedTree
<1>7. CanApply(d, e, {e.data})
  BY <1>1, <1>2 DEF CanApply
<1>8. Apply(d, e) = [v EXCEPT ![p].data = g]
  BY <1>1 DEF Apply, v, g
<1> QED
  BY <1>5, <1>6, <1>7, <1>8 DEF Repeats, e, f

\* remove_file and remove_dir_all
LEMMA RepeatDeleteEvent ==
    ASSUME NEW t \in Trees, NEW d \in Trees, IsTree(t), IsTree(d), Like(t, d), NEW p \in Paths,
           t[p] = None \/ CanRemove(t, p)
    PROVE  Repeats(RemoveTree(t, p), d, Event("delete", p))
<1> DEFINE e == Event("delete", p)
<1>1. e.op = "delete" /\ e.path = p
  BY DEF Event
<1>2. d[p] = None \/ CanRemove(d, p)
  <2> SUFFICES ASSUME d[p] # None PROVE CanRemove(d, p)
    OBVIOUS
  <2>0. t[p] # None
    BY NodeFacts DEF Like
  <2>1. CanLink(t, p) /\ (t[p].ro /\ t[p].kind = "dir" => \A q \in Below(p) : t[q] = None)
    BY <2>0 DEF CanRemove
  <2>2. Len(p) = 2 => d[Front(p)] # None
    BY TreeFacts, MadeNodes
  <2>3. CanLink(d, p)
    BY <2>1, <2>2, LikeLink
  <2>4. d[p].kind = t[p].kind /\ (d[p].ro => t[p].ro)
    BY DEF Like
  <2>5. \A q \in Below(p) : t[q] = None => d[q] = None
    BY PathShape, NodeFacts DEF Like
  <2> QED
    BY <2>1, <2>3, <2>4, <2>5 DEF CanRemove
<1>3. Like(RemoveTree(t, p), RemoveTree(d, p))
  <2> SUFFICES ASSUME NEW q \in Paths
               PROVE  /\ \/ RemoveTree(d, p)[q].kind = RemoveTree(t, p)[q].kind
                         \/ Hidden(q) /\ RemoveTree(d, p)[q] = None
                      /\ ~Hidden(q) /\ RemoveTree(t, p)[q].kind = "file" =>
                            RemoveTree(d, p)[q] = RemoveTree(t, p)[q]
                      /\ RemoveTree(d, p)[q].ro => RemoveTree(t, p)[q].ro
                      /\ Len(q) = 2 /\ RemoveTree(d, p)[q] = None /\ RemoveTree(t, p)[q] # None =>
                            ~RemoveTree(d, p)[Front(q)].ro
    BY DEF Like
  <2>1. CASE IsPrefix(p, q)
    BY <2>1, MadeNodes DEF RemoveTree
  <2>2. CASE ~IsPrefix(p, q)
    <3>1. RemoveTree(t, p)[q] = t[q] /\ RemoveTree(d, p)[q] = d[q]
      BY <2>2 DEF RemoveTree
    <3>2. Len(q) = 2 => Front(q) \in Paths /\ ~IsPrefix(p, Front(q))
      BY <2>2, PathShape
    <3>3. Len(q) = 2 => RemoveTree(d, p)[Front(q)] = d[Front(q)]
      BY <3>2 DEF RemoveTree
    <3> QED
      BY <3>1, <3>3 DEF Like
  <2> QED
    BY <2>1, <2>2
<1>4. RemoveTree(d, p) \in Trees /\ IsTree(RemoveTree(d, p))
  BY RemovedTree
<1> HIDE DEF e
<1>5. CanApply(d, e, {e.data}) <=> d[p] = None \/ CanRemove(d, p)
  BY <1>1 DEF CanApply
<1>6. Apply(d, e) = RemoveTree(d, p)
  BY <1>1 DEF Apply
<1> QED
  BY <1>2, <1>3, <1>4, <1>5, <1>6 DEF Repeats, e

\* A move of what checkpoints have: the copy can make it too,
LEMMA LikeMove ==
    ASSUME NEW t \in Trees, NEW d \in Trees, IsTree(t), IsTree(d), Like(t, d),
           NEW s \in Paths, NEW p \in Paths, ~Hidden(s), CanMove(t, s, p),
           Len(p) = 2 => d[Front(p)] # None
    PROVE  CanMove(d, s, p)
<1>1. /\ t[s] # None /\ CanLink(t, s) /\ CanLink(t, p) /\ ~IsPrefix(s, p)
      /\ t[p] = None \/ (t[p].kind = "dir" <=> t[s].kind = "dir")
      /\ \A q \in Below(p) : t[q] = None
      /\ t[s].kind = "dir" => Front(s) = Front(p) \/ ~t[s].ro
  BY DEF CanMove
<1>2. d[s].kind = t[s].kind /\ d[s] # None /\ (d[s].ro => t[s].ro)
  <2>1. d[s].kind = t[s].kind /\ (d[s].ro => t[s].ro)
    BY DEF Like
  <2> QED
    BY <1>1, <2>1, NodeFacts
<1>3. Len(s) = 2 => d[Front(s)] # None
  BY <1>2, TreeFacts, MadeNodes
<1>4. CanLink(d, s) /\ CanLink(d, p)
  BY <1>1, <1>3, LikeLink
<1>5. d[p] = None \/ (d[p].kind = "dir" <=> d[s].kind = "dir")
  <2>1. d[p].kind = t[p].kind \/ d[p] = None
    BY DEF Like
  <2> QED
    BY <1>1, <1>2, <2>1, NodeFacts
<1>6. \A q \in Below(p) : d[q] = None
  BY <1>1, PathShape, NodeFacts DEF Like
<1> QED
  BY <1>1, <1>2, <1>4, <1>5, <1>6 DEF CanMove

\* and looks like the workspace after it.
LEMMA MovedLike ==
    ASSUME NEW t \in Trees, NEW d \in Trees, IsTree(t), IsTree(d), Like(t, d),
           NEW s \in Paths, NEW p \in Paths, ~Hidden(s), CanMove(t, s, p), CanMove(d, s, p)
    PROVE  Like(Move(t, s, p), Move(d, s, p))
<1> DEFINE u == Move(t, s, p)
           v == Move(d, s, p)
<1>1. ~IsPrefix(s, p) /\ d[s] # None
  BY DEF CanMove
<1>2. /\ u[p] = t[s] /\ v[p] = d[s]
      /\ \A q \in Below(p) :
            \/ u[q] = None /\ v[q] = None
            \/ /\ Moved(p, s, q) \in Below(s)
               /\ u[q] = t[Moved(p, s, q)] /\ v[q] = d[Moved(p, s, q)]
      /\ \A q \in Paths : IsPrefix(s, q) /\ ~IsPrefix(p, q) => u[q] = None /\ v[q] = None
      /\ \A q \in Paths : ~IsPrefix(s, q) /\ ~IsPrefix(p, q) => u[q] = t[q] /\ v[q] = d[q]
  <2>1. \A q \in Below(p) : IsPrefix(p, q) /\ q \in Paths
    BY PathShape
  <2>2. \A q \in Below(p) :
            \/ Moved(p, s, q) \notin Paths /\ u[q] = None /\ v[q] = None
            \/ /\ Moved(p, s, q) \in Paths
               /\ u[q] = t[Moved(p, s, q)] /\ v[q] = d[Moved(p, s, q)]
    BY <2>1 DEF Move
  <2>3. \A q \in Below(p) : Moved(p, s, q) \in Paths => Moved(p, s, q) \in Below(s)
    BY MovedFacts
  <2>4. u[p] = t[s] /\ v[p] = d[s]
    BY <1>1, MoveFacts
  <2>5. \A q \in Paths : IsPrefix(s, q) /\ ~IsPrefix(p, q) => u[q] = None /\ v[q] = None
    BY <1>1, MoveFacts
  <2>6. \A q \in Paths : ~IsPrefix(s, q) /\ ~IsPrefix(p, q) => u[q] = t[q] /\ v[q] = d[q]
    BY <1>1, MoveFacts
  <2> HIDE DEF u, v
  <2> QED
    BY <2>2, <2>3, <2>4, <2>5, <2>6
<1> HIDE DEF u, v
<1> SUFFICES ASSUME NEW q \in Paths
             PROVE  /\ v[q].kind = u[q].kind \/ (Hidden(q) /\ v[q] = None)
                    /\ ~Hidden(q) /\ u[q].kind = "file" => v[q] = u[q]
                    /\ v[q].ro => u[q].ro
                    /\ Len(q) = 2 /\ v[q] = None /\ u[q] # None => ~v[Front(q)].ro
  BY DEF Like, u, v
<1>3. \A r \in Paths : ~Hidden(r) =>
        /\ d[r].kind = t[r].kind /\ (d[r].ro => t[r].ro)
        /\ t[r].kind = "file" => d[r] = t[r]
        /\ d[r] = None => t[r] = None
  BY NodeFacts DEF Like
<1>4. CASE q = p
  BY <1>1, <1>2, <1>3, <1>4
<1>5. CASE q \in Below(p)
  <2>1. CASE u[q] = None /\ v[q] = None
    BY <2>1, MadeNodes
  <2>2. CASE /\ Moved(p, s, q) \in Below(s)
             /\ u[q] = t[Moved(p, s, q)] /\ v[q] = d[Moved(p, s, q)]
    <3>1. Moved(p, s, q) \in Paths /\ ~Hidden(Moved(p, s, q))
      BY <2>2, PathShape
    <3> QED
      BY <1>3, <2>2, <3>1
  <2> QED
    BY <1>2, <1>5, <2>1, <2>2
<1>6. CASE IsPrefix(s, q) /\ ~IsPrefix(p, q)
  BY <1>2, <1>6, MadeNodes
<1>7. CASE ~IsPrefix(s, q) /\ ~IsPrefix(p, q)
  <2>1. u[q] = t[q] /\ v[q] = d[q]
    BY <1>2, <1>7
  <2>2. Len(q) = 2 => v[Front(q)] = d[Front(q)]
    <3>1. Len(q) = 2 => Front(q) \in Paths /\ ~IsPrefix(s, Front(q)) /\ ~IsPrefix(p, Front(q))
      BY <1>7, PathShape
    <3> QED
      BY <1>2, <3>1
  <2> QED
    BY <2>1, <2>2 DEF Like
<1> QED
  BY <1>4, <1>5, <1>6, <1>7, PathShape

\* rename, with create_dir_all of the target's parent before it
LEMMA RepeatRenameEvent ==
    ASSUME NEW t \in Trees, NEW d \in Trees, IsTree(t), IsTree(d), Like(t, d),
           NEW s \in Paths, NEW p \in Paths, ~Hidden(s),
           CanMakeParent(t, p), CanMove(MakeParent(t, p), s, p)
    PROVE  Repeats(Move(MakeParent(t, p), s, p), d, RenameEvent(s, p))
<1> DEFINE e == RenameEvent(s, p)
           u == MakeParent(t, p)
           v == MakeParent(d, p)
<1>1. e.op = "rename" /\ e.path = p /\ e.source = s
  BY DEF Event, RenameEvent
<1>2. CanMakeParent(d, p) /\ Like(u, v)
  BY LikeParent
<1>3. u \in Trees /\ v \in Trees /\ IsTree(u) /\ IsTree(v) /\ (Len(p) = 2 => v[Front(p)] # None)
  BY <1>2, ParentFacts, MadeNodes
<1> HIDE DEF e, u
<1>4. CanMove(u, s, p)
  BY DEF u
<1> HIDE DEF v
<1>5. CanMove(v, s, p)
  BY <1>2, <1>3, <1>4, LikeMove
<1>6. Like(Move(u, s, p), Move(v, s, p))
  BY <1>2, <1>3, <1>4, <1>5, MovedLike
<1>7. Move(v, s, p) \in Trees /\ IsTree(Move(v, s, p))
  BY <1>3, <1>5, MovedTree
<1>8. CanApply(d, e, {e.data}) <=> CanMakeParent(d, p) /\ CanMove(v, s, p)
  BY <1>1 DEF CanApply, v
<1>9. Apply(d, e) = Move(v, s, p)
  BY <1>1 DEF Apply, v
<1> QED
  BY <1>2, <1>5, <1>6, <1>7, <1>8, <1>9 DEF Repeats, e, u

\* set_permissions
LEMMA RepeatChmodEvent ==
    ASSUME NEW t \in Trees, NEW d \in Trees, IsTree(t), IsTree(d), Like(t, d), NEW p \in Paths,
           ~Hidden(p), t[p] # None, NEW r \in BOOLEAN
    PROVE  Repeats([t EXCEPT ![p].ro = r], d, ChmodEvent(p, r))
<1> DEFINE e == ChmodEvent(p, r)
           x == [t[p] EXCEPT !.ro = r]
           y == [d[p] EXCEPT !.ro = r]
<1>1. e.op = "chmod" /\ e.path = p /\ e.ro = r
  BY DEF Event, ChmodEvent
<1>2. d[p].kind = t[p].kind /\ (t[p].kind = "file" => d[p] = t[p]) /\ d[p] # None
  <2>1. d[p].kind = t[p].kind /\ (t[p].kind = "file" => d[p] = t[p])
    BY DEF Like
  <2> QED
    BY <2>1, NodeFacts
<1>3. \A n \in Nodes \ {None} :
        /\ [n EXCEPT !.ro = r] \in Nodes /\ [n EXCEPT !.ro = r] # None
        /\ [n EXCEPT !.ro = r].kind = n.kind /\ [n EXCEPT !.ro = r].ro = r
  BY DEF Nodes, None
<1>4. t[p] \in Nodes \ {None} /\ d[p] \in Nodes \ {None}
  BY <1>2, NodeFacts
<1>5. /\ x \in Nodes /\ y \in Nodes /\ y # None /\ y.kind = x.kind /\ y.ro = x.ro
      /\ x.kind = "file" => y = x
  BY <1>2, <1>3, <1>4
<1>6. [t EXCEPT ![p].ro = r] = [t EXCEPT ![p] = x] /\ [d EXCEPT ![p].ro = r] = [d EXCEPT ![p] = y]
  OBVIOUS
<1> HIDE DEF e, x, y
<1>7. Like([t EXCEPT ![p] = x], [d EXCEPT ![p] = y])
  BY <1>5, LikePut
<1>8. [d EXCEPT ![p].ro = r] \in Trees /\ IsTree([d EXCEPT ![p].ro = r])
  BY <1>2, ChangedTree
<1>9. CanApply(d, e, {e.data})
  BY <1>1, <1>2 DEF CanApply
<1>10. Apply(d, e) = [d EXCEPT ![p].ro = r]
  BY <1>1 DEF Apply
<1> QED
  BY <1>6, <1>7, <1>8, <1>9, <1>10 DEF Repeats, e

\* That of an fsync changes nothing.
LEMMA RepeatFsyncEvent ==
    ASSUME NEW t \in Trees, NEW d \in Trees, IsTree(d), Like(t, d), NEW p \in Paths
    PROVE  Repeats(t, d, Event("fsync", p))
<1> DEFINE e == Event("fsync", p)
<1>1. e.op = "fsync"
  BY DEF Event
<1> HIDE DEF e
<1>2. CanApply(d, e, {e.data}) /\ Apply(d, e) = d
  BY <1>1 DEF CanApply, Apply
<1> QED
  BY <1>2 DEF Repeats, e

-----------------------------------------------------------------------------
(* Checkpoints. *)

\* A checkpoint is a tree that looks like the workspace.
LEMMA SeenTree ==
    ASSUME NEW t \in Trees, IsTree(t)
    PROVE  Seen(t) \in Trees /\ IsTree(Seen(t)) /\ Like(t, Seen(t))
<1>1. /\ \A p \in Paths : Hidden(p) => Seen(t)[p] = None
      /\ \A p \in Paths : ~Hidden(p) =>
            Seen(t)[p] = IF t[p].kind = "dir" THEN Dir ELSE t[p]
  BY NodeFacts DEF Seen
<1>2. Seen(t) \in Trees
  BY MadeNodes, NodeFacts DEF Seen, Trees
<1>3. ASSUME NEW p \in Paths, Len(p) = 2, Seen(t)[p] # None
      PROVE  Seen(t)[Front(p)].kind = "dir"
  <2>1. ~Hidden(p) /\ t[p] # None
    BY <1>1, <1>3, NodeFacts, MadeNodes
  <2>2. Front(p) \in Paths /\ ~Hidden(Front(p)) /\ t[Front(p)].kind = "dir"
    BY <1>3, <2>1, PathShape, TreeFacts
  <2> QED
    BY <1>1, <2>2, MadeNodes
<1>4. ASSUME NEW p \in Paths
      PROVE  /\ Seen(t)[p].kind = t[p].kind \/ (Hidden(p) /\ Seen(t)[p] = None)
             /\ ~Hidden(p) /\ t[p].kind = "file" => Seen(t)[p] = t[p]
             /\ Seen(t)[p].ro => t[p].ro
             /\ Len(p) = 2 /\ Seen(t)[p] = None /\ t[p] # None => ~Seen(t)[Front(p)].ro
  <2>1. CASE Hidden(p)
    <3>1. Len(p) = 2 => Front(p) \in Paths /\ Hidden(Front(p))
      BY <2>1, PathShape
    <3> QED
      BY <1>1, <2>1, <3>1, MadeNodes
  <2>2. CASE ~Hidden(p)
    <3>1. Seen(t)[p] = None => t[p] = None
      BY <1>1, <2>2, NodeFacts, MadeNodes
    <3> QED
      BY <1>1, <2>2, <3>1, MadeNodes
  <2> QED
    BY <2>1, <2>2
<1> QED
  BY <1>2, <1>3, <1>4, TreeFacts DEF Like

\* Copies that look like the workspace have its checkpoint.
LEMMA LikeSeen ==
    ASSUME NEW t \in Trees, NEW d \in Trees, Like(t, d)
    PROVE  Seen(d) = Seen(t)
<1>1. ASSUME NEW p \in Paths, ~Hidden(p)
      PROVE  /\ d[p].kind = t[p].kind
             /\ t[p].kind # "dir" => d[p] = t[p]
  BY <1>1, NodeFacts DEF Like
<1> QED
  BY <1>1 DEF Seen

-----------------------------------------------------------------------------
(* Workspaces with links: what a call does to a path without links is what *)
(* it does to the workspace without its links.                             *)

\* What is not a link stays as it is.
LEMMA WalkedFacts ==
    ASSUME NEW t \in Workspaces
    PROVE  /\ Walked(t) \in Trees
           /\ \A p \in Paths :
                /\ t[p].kind # "link" => Walked(t)[p] = t[p] /\ t[p] \in Nodes
                /\ t[p].kind = "link" => Walked(t)[p] = None
                /\ t[p] = None => Walked(t)[p] = None
                /\ t[p].kind \in {"none", "dir", "file", "link"}
           /\ Seen(t) = Seen(Walked(t))
<1>1. \A p \in Paths : t[p] \in Nodes \/ t[p].kind = "link"
  BY DEF Workspaces, Links, Link
<1>2. \A n \in Nodes : n.kind \in {"none", "dir", "file"}
  BY DEF Nodes, None
<1>3. Walked(t) \in Trees
  BY <1>1, MadeNodes DEF Walked, Trees
<1>4. \A p \in Paths :
        /\ t[p].kind # "link" => Walked(t)[p] = t[p] /\ t[p] \in Nodes
        /\ t[p].kind = "link" => Walked(t)[p] = None
        /\ t[p] = None => Walked(t)[p] = None
        /\ t[p].kind \in {"none", "dir", "file", "link"}
  BY <1>1, <1>2, MadeNodes DEF Walked
<1>5. \A p \in Paths : Seen(t)[p] = Seen(Walked(t))[p]
  BY <1>4, MadeNodes DEF Seen
<1>6. Seen(t) = Seen(Walked(t))
  <2>1. Seen(t) = [p \in Paths |-> Seen(t)[p]] /\ Seen(Walked(t)) = [p \in Paths |-> Seen(Walked(t))[p]]
    BY DEF Seen
  <2> QED
    BY <1>5, <2>1
<1> QED
  BY <1>3, <1>4, <1>6

\* What a checkpoint has of a workspace, with its links or without them.
LEMMA WalkedSeen ==
    ASSUME NEW t \in Workspaces, IsTree(Walked(t))
    PROVE  /\ Seen(t) \in Trees /\ IsTree(Seen(t)) /\ Like(Walked(t), Seen(t))
           /\ Seen(Seen(t)) = Seen(t)
           /\ \A d \in Trees : Like(Walked(t), d) => Seen(d) = Seen(t)
BY WalkedFacts, SeenTree, LikeSeen

\* A node is put in both.
LEMMA WalkedPut ==
    ASSUME NEW t \in Workspaces, NEW p \in Paths, NEW n \in Nodes
    PROVE  /\ [t EXCEPT ![p] = n] \in Workspaces
           /\ Walked([t EXCEPT ![p] = n]) = [Walked(t) EXCEPT ![p] = n]
<1> DEFINE u == [t EXCEPT ![p] = n]
<1>1. u \in Workspaces /\ u[p] = n /\ \A q \in Paths \ {p} : u[q] = t[q]
  BY DEF Workspaces
<1>2. n.kind # "link"
  BY DEF Nodes, None
<1> HIDE DEF u
<1>3. Walked(u) = [q \in Paths |-> IF q = p THEN n ELSE Walked(t)[q]]
  <2>1. \A q \in Paths : Walked(u)[q] = IF q = p THEN n ELSE Walked(t)[q]
    BY <1>1, <1>2 DEF Walked
  <2>2. Walked(u) = [q \in Paths |-> Walked(u)[q]]
    BY DEF Walked
  <2> QED
    BY <2>1, <2>2
<1>4. [Walked(t) EXCEPT ![p] = n] = [q \in Paths |-> IF q = p THEN n ELSE Walked(t)[q]]
  BY DEF Walked
<1> QED
  BY <1>1, <1>3, <1>4 DEF u

\* create_dir_all of a parent that is no link
LEMMA WalkedParent ==
    ASSUME NEW t \in Workspaces, NEW p \in Paths, Len(p) = 2 => t[Front(p)].kind # "link"
    PROVE  /\ MakeParent(t, p) \in Workspaces
           /\ Walked(MakeParent(t, p)) = MakeParent(Walked(t), p)
           /\ CanMakeParent(t, p) => CanMakeParent(Walked(t), p)
           /\ Len(p) = 2 => MakeParent(t, p)[Front(p)].kind # "link"
           /\ \A q \in Paths : ~(Len(p) = 2 /\ q = Front(p)) => MakeParent(t, p)[q] = t[q]
<1>1. /\ Len(p) > 1 <=> Len(p) = 2
      /\ Len(p) = 2 => Front(p) \in Paths /\ Walked(t)[Front(p)] = t[Front(p)]
  BY PathShape, WalkedFacts
<1>2. CASE Len(p) = 2 /\ t[Front(p)] = None
  <2>1. /\ MakeParent(t, p) = [t EXCEPT ![Front(p)] = Dir]
        /\ MakeParent(Walked(t), p) = [Walked(t) EXCEPT ![Front(p)] = Dir]
    BY <1>1, <1>2 DEF MakeParent
  <2>2. /\ [t EXCEPT ![Front(p)] = Dir] \in Workspaces
        /\ Walked([t EXCEPT ![Front(p)] = Dir]) = [Walked(t) EXCEPT ![Front(p)] = Dir]
    BY <1>1, <1>2, MadeNodes, WalkedPut
  <2>3. /\ [t EXCEPT ![Front(p)] = Dir][Front(p)].kind # "link"
        /\ \A q \in Paths : q # Front(p) => [t EXCEPT ![Front(p)] = Dir][q] = t[q]
    BY <1>1, <1>2, MadeNodes DEF Workspaces
  <2> QED
    BY <1>1, <1>2, <2>1, <2>2, <2>3 DEF CanMakeParent
<1>3. CASE ~(Len(p) = 2 /\ t[Front(p)] = None)
  <2>1. MakeParent(t, p) = t /\ MakeParent(Walked(t), p) = Walked(t)
    BY <1>1, <1>3 DEF MakeParent
  <2> QED
    BY <1>1, <2>1 DEF CanMakeParent
<1> QED
  BY <1>2, <1>3

\* An entry is made or removed in the same directory.
LEMMA WalkedLink ==
    ASSUME NEW t \in Workspaces, NEW p \in Paths, CanLink(t, p)
    PROVE  CanLink(Walked(t), p) /\ (Len(p) = 2 => t[Front(p)].kind = "dir")
<1>1. Len(p) > 1 => Len(p) = 2 /\ Front(p) \in Paths
  BY PathShape
<1>2. Len(p) > 1 => t[Front(p)].kind = "dir" /\ ~t[Front(p)].ro
  BY DEF CanLink
<1>3. Len(p) > 1 => Walked(t)[Front(p)] = t[Front(p)]
  BY <1>1, <1>2, WalkedFacts
<1> QED
  BY <1>1, <1>2, <1>3, PathShape DEF CanLink

\* File::create and create_dir_all, of what is no link in what is no link
LEMMA WalkedMade ==
    ASSUME NEW t \in Workspaces, NEW p \in Paths, Len(p) = 2 => t[Front(p)].kind # "link"
    PROVE  /\ CanCreate(t, p) =>
                /\ CanCreate(Walked(t), p) /\ Create(t, p) \in Workspaces
                /\ Walked(Create(t, p)) = Create(Walked(t), p)
           /\ CanMakeDir(t, p) =>
                /\ CanMakeDir(Walked(t), p) /\ MakeDir(t, p) \in Workspaces
                /\ Walked(MakeDir(t, p)) = MakeDir(Walked(t), p)
<1> DEFINE u == MakeParent(t, p)
           w == Walked(t)
<1>1. /\ u \in Workspaces /\ Walked(u) = MakeParent(w, p)
      /\ CanMakeParent(t, p) => CanMakeParent(w, p)
  BY WalkedParent
<1>2. CanLink(u, p) => CanLink(MakeParent(w, p), p)
  BY <1>1, WalkedLink
<1>3. t[p].kind # "link" => w[p] = t[p]
  BY WalkedFacts
<1>4. t[p] = None => t[p].kind # "link"
  BY MadeNodes
<1>5. File(<<>>, FALSE) \in Nodes /\ Dir \in Nodes
  <2>1. <<>> \in Seq(Bytes \cup {Zero})
    BY EmptySeq
  <2> QED
    BY <2>1, MadeNodes
<1>6. ASSUME NEW n \in Nodes
      PROVE  /\ [u EXCEPT ![p] = n] \in Workspaces
             /\ Walked([u EXCEPT ![p] = n]) = [MakeParent(w, p) EXCEPT ![p] = n]
  <2> HIDE DEF u
  <2>1. Walked([u EXCEPT ![p] = n]) = [Walked(u) EXCEPT ![p] = n] /\ [u EXCEPT ![p] = n] \in Workspaces
    BY <1>1, WalkedPut
  <2> QED
    BY <1>1, <2>1
<1>7. ASSUME CanCreate(t, p)
      PROVE  /\ CanCreate(w, p) /\ Create(t, p) \in Workspaces
             /\ Walked(Create(t, p)) = Create(w, p)
  <2>1. CanCreate(w, p)
    <3>1. CanMakeParent(t, p) /\ ((t[p] = None /\ CanLink(u, p)) \/ (t[p].kind = "file" /\ ~t[p].ro))
      BY <1>7 DEF CanCreate
    <3> HIDE DEF u, w
    <3> QED
      BY <1>1, <1>2, <1>3, <1>4, <3>1 DEF CanCreate
  <2>2. Create(t, p) = [u EXCEPT ![p] = File(<<>>, FALSE)]
        /\ Create(w, p) = [MakeParent(w, p) EXCEPT ![p] = File(<<>>, FALSE)]
    BY DEF Create
  <2> HIDE DEF u, w
  <2> QED
    BY <1>5, <1>6, <2>1, <2>2
<1>8. ASSUME CanMakeDir(t, p)
      PROVE  /\ CanMakeDir(w, p) /\ MakeDir(t, p) \in Workspaces
             /\ Walked(MakeDir(t, p)) = MakeDir(w, p)
  <2>1. CanMakeParent(t, p) /\ ((t[p] = None /\ CanLink(u, p)) \/ t[p].kind = "dir")
    BY <1>8 DEF CanMakeDir
  <2>2. w[p] = t[p]
    BY <1>3, <1>4, <2>1
  <2>3. CanMakeDir(w, p)
    <3> HIDE DEF u, w
    <3> QED
      BY <1>1, <1>2, <2>1, <2>2 DEF CanMakeDir
  <2>4. CASE t[p] = None
    <3>1. /\ MakeDir(t, p) = [u EXCEPT ![p] = Dir]
          /\ MakeDir(w, p) = [MakeParent(w, p) EXCEPT ![p] = Dir]
      BY <2>2, <2>4 DEF MakeDir
    <3> HIDE DEF u, w
    <3> QED
      BY <1>5, <1>6, <2>3, <3>1
  <2>5. CASE t[p] # None
    BY <2>2, <2>3, <2>5 DEF MakeDir
  <2> QED
    BY <2>4, <2>5
<1> QED
  BY <1>7, <1>8

\* The content and the mode of what is no link.
LEMMA WalkedChanged ==
    ASSUME NEW t \in Workspaces, NEW p \in Paths
    PROVE  /\ CanOpen(t, p) =>
                /\ CanOpen(Walked(t), p) /\ Walked(t)[p] = t[p]
                /\ t[p].data \in Seq(Bytes \cup {Zero})
                /\ \A d \in Seq(Bytes \cup {Zero}) :
                     /\ [t EXCEPT ![p].data = d] \in Workspaces
                     /\ Walked([t EXCEPT ![p].data = d]) = [Walked(t) EXCEPT ![p].data = d]
           /\ t[p].kind \in {"dir", "file"} =>
                /\ Walked(t)[p] # None
                /\ \A r \in BOOLEAN :
                     /\ [t EXCEPT ![p].ro = r] \in Workspaces
                     /\ Walked([t EXCEPT ![p].ro = r]) = [Walked(t) EXCEPT ![p].ro = r]
<1>1. t[p].kind \in {"dir", "file"} => Walked(t)[p] = t[p] /\ t[p] \in Nodes /\ t[p] # None
  BY WalkedFacts, MadeNodes
<1>2. \A n \in Nodes, r \in BOOLEAN : n # None => [n EXCEPT !.ro = r] \in Nodes
  BY DEF Nodes, None
<1>3. \A n \in Nodes, d \in Seq(Bytes \cup {Zero}) : n.kind = "file" =>
        [n EXCEPT !.data = d] \in Nodes /\ n.data \in Seq(Bytes \cup {Zero})
  BY DEF Nodes, None
<1>4. ASSUME CanOpen(t, p), NEW d \in Seq(Bytes \cup {Zero})
      PROVE  /\ [t EXCEPT ![p].data = d] \in Workspaces
             /\ Walked([t EXCEPT ![p].data = d]) = [Walked(t) EXCEPT ![p].data = d]
  <2> DEFINE n == [t[p] EXCEPT !.data = d]
  <2>1. n \in Nodes /\ Walked(t)[p] = t[p]
    BY <1>1, <1>3, <1>4 DEF CanOpen
  <2>2. [t EXCEPT ![p].data = d] = [t EXCEPT ![p] = n]
    OBVIOUS
  <2>3. [Walked(t) EXCEPT ![p].data = d] = [Walked(t) EXCEPT ![p] = n]
    BY <2>1
  <2> HIDE DEF n
  <2> QED
    BY <2>1, <2>2, <2>3, WalkedPut
<1>5. ASSUME t[p].kind \in {"dir", "file"}, NEW r \in BOOLEAN
      PROVE  /\ [t EXCEPT ![p].ro = r] \in Workspaces
             /\ Walked([t EXCEPT ![p].ro = r]) = [Walked(t) EXCEPT ![p].ro = r]
  <2> DEFINE n == [t[p] EXCEPT !.ro = r]
  <2>1. n \in Nodes /\ Walked(t)[p] = t[p]
    BY <1>1, <1>2, <1>5
  <2>2. [t EXCEPT ![p].ro = r] = [t EXCEPT ![p] = n]
    OBVIOUS
  <2>3. [Walked(t) EXCEPT ![p].ro = r] = [Walked(t) EXCEPT ![p] = n]
    BY <2>1
  <2> HIDE DEF n
  <2> QED
    BY <2>1, <2>2, <2>3, WalkedPut
<1>6. CanOpen(t, p) => /\ CanOpen(Walked(t), p) /\ Walked(t)[p] = t[p]
                       /\ t[p].data \in Seq(Bytes \cup {Zero})
  <2>1. \A n \in Nodes : n.kind = "file" => n.data \in Seq(Bytes \cup {Zero})
    BY DEF Nodes, None
  <2> QED
    BY <1>1, <2>1 DEF CanOpen
<1>7. t[p].kind \in {"dir", "file"} => Walked(t)[p] # None
  BY <1>1
<1> QED
  BY <1>4, <1>5, <1>6, <1>7

\* A removal, of a link too.
LEMMA WalkedRemove ==
    ASSUME NEW t \in Workspaces, NEW p \in Paths, CanRemove(t, p)
    PROVE  /\ RemoveTree(t, p) \in Workspaces
           /\ Walked(RemoveTree(t, p)) = RemoveTree(Walked(t), p)
           /\ Walked(t)[p] = None \/ CanRemove(Walked(t), p)
<1>1. RemoveTree(t, p) \in Workspaces
  BY MadeNodes DEF RemoveTree, Workspaces
<1>2. Walked(RemoveTree(t, p)) = RemoveTree(Walked(t), p)
  <2>1. \A q \in Paths : Walked(RemoveTree(t, p))[q] = RemoveTree(Walked(t), p)[q]
    BY MadeNodes DEF Walked, RemoveTree
  <2>2. /\ Walked(RemoveTree(t, p)) = [q \in Paths |-> Walked(RemoveTree(t, p))[q]]
        /\ RemoveTree(Walked(t), p) = [q \in Paths |-> RemoveTree(Walked(t), p)[q]]
    BY DEF Walked, RemoveTree
  <2> QED
    BY <2>1, <2>2
<1>3. ASSUME Walked(t)[p] # None PROVE CanRemove(Walked(t), p)
  <2>1. /\ CanLink(t, p)
        /\ t[p].ro /\ t[p].kind = "dir" => \A q \in Below(p) : t[q] = None
    BY DEF CanRemove
  <2>2. Walked(t)[p] = t[p] /\ \A q \in Below(p) : t[q] = None => Walked(t)[q] = None
    BY <1>3, PathShape, WalkedFacts
  <2>3. CanLink(Walked(t), p)
    BY <2>1, WalkedLink
  <2> QED
    BY <1>3, <2>1, <2>2, <2>3 DEF CanRemove
<1> QED
  BY <1>1, <1>2, <1>3

\* A move, which may replace a link; of a link itself there is nothing to see.
LEMMA WalkedMove ==
    ASSUME NEW t \in Workspaces, IsTree(Walked(t)), NEW s \in Paths, NEW p \in Paths,
           CanMove(t, s, p)
    PROVE  /\ Move(t, s, p) \in Workspaces
           /\ Walked(Move(t, s, p)) = Move(Walked(t), s, p)
           /\ IsTree(Walked(Move(t, s, p)))
           /\ t[s].kind # "link" => CanMove(Walked(t), s, p)
<1> DEFINE w == Walked(t)
<1>1. /\ t[s] # None /\ CanLink(t, s) /\ CanLink(t, p) /\ ~IsPrefix(s, p)
      /\ t[p] = None \/ (t[p].kind = "dir" <=> t[s].kind = "dir")
      /\ \A q \in Below(p) : t[q] = None
      /\ t[s].kind = "dir" => Front(s) = Front(p) \/ ~t[s].ro
  BY DEF CanMove
<1>2. /\ w \in Trees
      /\ \A q \in Paths : /\ t[q].kind # "link" => w[q] = t[q]
                          /\ t[q].kind = "link" => w[q] = None
                          /\ t[q] = None => w[q] = None
  BY WalkedFacts
<1>3. Move(t, s, p) \in Workspaces
  BY MadeNodes DEF Move, Workspaces
<1>4. Walked(Move(t, s, p)) = Move(w, s, p)
  <2>1. \A q \in Paths : Walked(Move(t, s, p))[q] = Move(w, s, p)[q]
    BY MadeNodes DEF Walked, Move
  <2>2. /\ Walked(Move(t, s, p)) = [q \in Paths |-> Walked(Move(t, s, p))[q]]
        /\ Move(w, s, p) = [q \in Paths |-> Move(w, s, p)[q]]
    BY DEF Walked, Move
  <2> QED
    BY <2>1, <2>2
<1>5. CanLink(w, s) /\ CanLink(w, p)
  BY <1>1, WalkedLink
<1> HIDE DEF w
<1>6. ASSUME t[s].kind # "link" PROVE CanMove(w, s, p)
  <2>1. w[s] = t[s] /\ \A q \in Below(p) : w[q] = None
    BY <1>1, <1>2, <1>6, PathShape
  <2>2. w[p] = None \/ (w[p].kind = "dir" <=> w[s].kind = "dir")
    BY <1>1, <1>2, <2>1
  <2> QED
    BY <1>1, <1>5, <2>1, <2>2 DEF CanMove
<1>7. ASSUME t[s].kind = "link" PROVE IsTree(Move(w, s, p))
  <2>1. w[s] = None
    BY <1>2, <1>7
  <2>2. \A q \in Below(s) : w[q] = None
    BY <1>2, <2>1, PathShape, TreeFacts, MadeNodes DEF w
  <2>3. \A q \in Paths : Move(w, s, p)[q] = RemoveTree(w, p)[q]
    <3> TAKE q \in Paths
    <3>1. CASE q = p
      BY <1>1, <1>2, <2>1, <3>1, MoveFacts, PathShape DEF RemoveTree
    <3>2. CASE q \in Below(p)
      <4>1. Move(w, s, p)[q] = None
        BY <1>1, <1>2, <2>2, <3>2, MoveFacts
      <4> QED
        BY <3>2, <4>1, PathShape DEF RemoveTree
    <3>3. CASE ~IsPrefix(p, q)
      <4>1. IsPrefix(s, q) => w[q] = None
        BY <2>1, <2>2, PathShape
      <4>2. Move(w, s, p)[q] = w[q]
        BY <1>1, <1>2, <3>3, <4>1, MoveFacts
      <4> QED
        BY <3>3, <4>2 DEF RemoveTree
    <3> QED
      BY <3>1, <3>2, <3>3, PathShape
  <2>4. Move(w, s, p) = RemoveTree(w, p)
    <3>1. /\ Move(w, s, p) = [q \in Paths |-> Move(w, s, p)[q]]
          /\ RemoveTree(w, p) = [q \in Paths |-> RemoveTree(w, p)[q]]
      BY DEF Move, RemoveTree
    <3> QED
      BY <2>3, <3>1
  <2> QED
    BY <1>2, <2>4, RemovedTree DEF w
<1>8. ASSUME t[s].kind # "link" PROVE IsTree(Move(w, s, p))
  BY <1>2, <1>6, <1>8, MovedTree DEF w
<1> QED
  BY <1>3, <1>4, <1>6, <1>7, <1>8 DEF w

-----------------------------------------------------------------------------
(* Events of any origin. *)

\* Only a write takes something from the store, its payload.
LEMMA Payloads ==
    ASSUME NEW d, NEW e, NEW O, e.op = "write" => e.data \in O
    PROVE  CanApply(d, e, O) <=> CanApply(d, e, {e.data})
BY DEF CanApply

\* Whatever event can be applied makes a tree of a tree.
LEMMA AppliedTree ==
    ASSUME NEW d \in Trees, IsTree(d), NEW e \in Events, CanApply(d, e, {e.data})
    PROVE  Apply(d, e) \in Trees /\ IsTree(Apply(d, e))
<1> DEFINE p == e.path
           v == IF d[p] = None THEN Create(d, p) ELSE d
<1>1. /\ p \in Paths /\ e.source \in Paths /\ e.at \in Nat /\ e.data \in Seq(Bytes)
      /\ e.ro \in BOOLEAN
      /\ e.op \in {"create", "mkdir", "write", "truncate", "delete", "rename", "chmod", "fsync"}
  BY DEF Events
<1>2. ASSUME CanOpenNew(d, p)
      PROVE  /\ v \in Trees /\ IsTree(v) /\ v[p].kind = "file"
             /\ v[p].data \in Seq(Bytes \cup {Zero})
  <2>1. v \in Trees /\ IsTree(v) /\ v[p].kind = "file"
    <3>1. CASE d[p] = None
      <4>1. CanCreate(d, p)
        BY <1>2, <3>1, MadeNodes DEF CanOpenNew, CanOpen
      <4>2. <<>> \in Seq(Bytes \cup {Zero})
        BY EmptySeq
      <4>3. /\ Create(d, p) \in Trees /\ IsTree(Create(d, p))
            /\ Create(d, p)[p].kind = "file"
        BY <1>1, <4>1, <4>2, MadeTree, MadeNodes
      <4> QED
        BY <3>1, <4>3
    <3>2. CASE d[p] # None
      BY <1>2, <3>2 DEF CanOpenNew, CanOpen
    <3> QED
      BY <3>1, <3>2
  <2> HIDE DEF v
  <2> QED
    BY <1>1, <2>1, NodeFacts
<1>3. CASE e.op = "create"
  <2>1. CanCreate(d, p) /\ Apply(d, e) = Create(d, p)
    BY <1>3 DEF CanApply, Apply
  <2> QED
    BY <1>1, <2>1, MadeTree
<1>4. CASE e.op = "mkdir"
  <2>1. CanMakeDir(d, p) /\ Apply(d, e) = MakeDir(d, p)
    BY <1>4 DEF CanApply, Apply
  <2> QED
    BY <1>1, <2>1, MadeTree
<1>5. CASE e.op = "write"
  <2> DEFINE g == Overwrite(v[p].data, e.at, e.data)
  <2>1. CanOpenNew(d, p) /\ Apply(d, e) = [v EXCEPT ![p].data = g]
    BY <1>5 DEF CanApply, Apply
  <2> HIDE DEF v
  <2>2. g \in Seq(Bytes \cup {Zero})
    <3>1. v[p].data \in Seq(Bytes \cup {Zero})
      BY <1>2, <2>1 DEF v
    <3>2. /\ WriteAt(v[p].data, e.at, e.data) \in Seq(Bytes \cup {Zero})
          /\ g = WriteAt(v[p].data, e.at, e.data)
      BY <1>1, <3>1, WrittenFile
    <3> QED
      BY <3>2
  <2>3. v \in Trees /\ IsTree(v) /\ v[p].kind = "file"
    BY <1>2, <2>1 DEF v
  <2> HIDE DEF g, p
  <2>4. [v EXCEPT ![p].data = g] \in Trees /\ IsTree([v EXCEPT ![p].data = g])
    BY <1>1, <2>2, <2>3, ChangedTree
  <2> QED
    BY <2>1, <2>4
<1>6. CASE e.op = "truncate"
  <2> DEFINE g == SetLen(v[p].data, e.at)
  <2>1. CanOpenNew(d, p) /\ Apply(d, e) = [v EXCEPT ![p].data = g]
    BY <1>6 DEF CanApply, Apply
  <2> HIDE DEF v
  <2>2. g \in Seq(Bytes \cup {Zero})
    BY <1>1, <1>2, <2>1, SizedFile
  <2>3. v \in Trees /\ IsTree(v) /\ v[p].kind = "file"
    BY <1>2, <2>1 DEF v
  <2> HIDE DEF g, p
  <2>4. [v EXCEPT ![p].data = g] \in Trees /\ IsTree([v EXCEPT ![p].data = g])
    BY <1>1, <2>2, <2>3, ChangedTree
  <2> QED
    BY <2>1, <2>4
<1>7. CASE e.op = "delete"
  <2>1. Apply(d, e) = RemoveTree(d, p)
    BY <1>7 DEF Apply
  <2> QED
    BY <1>1, <2>1, RemovedTree
<1>8. CASE e.op = "rename"
  <2> DEFINE u == MakeParent(d, p)
  <2>1. CanMakeParent(d, p) /\ CanMove(u, e.source, p) /\ Apply(d, e) = Move(u, e.source, p)
    BY <1>8 DEF CanApply, Apply
  <2>2. u \in Trees /\ IsTree(u)
    BY <1>1, <2>1, ParentFacts
  <2> HIDE DEF u
  <2> QED
    BY <1>1, <2>1, <2>2, MovedTree
<1>9. CASE e.op = "chmod"
  <2>1. d[p] # None /\ Apply(d, e) = [d EXCEPT ![p].ro = e.ro]
    BY <1>9 DEF CanApply, Apply
  <2> HIDE DEF p
  <2>2. [d EXCEPT ![p].ro = e.ro] \in Trees /\ IsTree([d EXCEPT ![p].ro = e.ro])
    BY <1>1, <2>1, ChangedTree
  <2> QED
    BY <2>1, <2>2
<1>10. CASE e.op = "fsync"
  BY <1>10 DEF Apply
<1> QED
  BY <1>1, <1>3, <1>4, <1>5, <1>6, <1>7, <1>8, <1>9, <1>10

-----------------------------------------------------------------------------
(* Whether an event can be applied does not depend on the bytes of files. *)

Shaped(t, d) == \A p \in Paths : d[p].kind = t[p].kind /\ d[p].ro = t[p].ro

\* What is there in one is there in the other.
LEMMA ShapedFacts ==
    ASSUME NEW t \in Trees, NEW d \in Trees, Shaped(t, d)
    PROVE  \A p \in Paths : /\ d[p].kind = t[p].kind /\ d[p].ro = t[p].ro
                            /\ d[p] = None <=> t[p] = None
BY NodeFacts DEF Shaped

\* Nodes of one kind and mode, put in both.
LEMMA ShapedPut ==
    ASSUME NEW t \in Trees, NEW d \in Trees, Shaped(t, d), NEW p \in Paths,
           NEW x \in Nodes, NEW y \in Nodes, y.kind = x.kind, y.ro = x.ro
    PROVE  /\ [t EXCEPT ![p] = x] \in Trees /\ [d EXCEPT ![p] = y] \in Trees
           /\ Shaped([t EXCEPT ![p] = x], [d EXCEPT ![p] = y])
<1> DEFINE u == [t EXCEPT ![p] = x]
           v == [d EXCEPT ![p] = y]
<1>1. u \in Trees /\ v \in Trees
  BY DEF Trees
<1>2. /\ u[p] = x /\ v[p] = y
      /\ \A q \in Paths \ {p} : u[q] = t[q] /\ v[q] = d[q]
  BY DEF Trees
<1> HIDE DEF u, v
<1>3. Shaped(u, v)
  BY <1>2 DEF Shaped
<1> QED
  BY <1>1, <1>3 DEF u, v

\* create_dir_all of the parent, and the directory of an entry
LEMMA ShapedParent ==
    ASSUME NEW t \in Trees, NEW d \in Trees, Shaped(t, d), NEW p \in Paths
    PROVE  /\ CanMakeParent(t, p) => CanMakeParent(d, p)
           /\ CanLink(t, p) => CanLink(d, p)
           /\ MakeParent(t, p) \in Trees /\ MakeParent(d, p) \in Trees
           /\ Shaped(MakeParent(t, p), MakeParent(d, p))
<1>1. Len(p) > 1 => Front(p) \in Paths
  BY PathShape
<1>2. Len(p) > 1 => /\ d[Front(p)].kind = t[Front(p)].kind /\ d[Front(p)].ro = t[Front(p)].ro
                    /\ d[Front(p)] = None <=> t[Front(p)] = None
  BY <1>1, ShapedFacts
<1>3. CASE Len(p) > 1 /\ t[Front(p)] = None
  <2>1. /\ MakeParent(t, p) = [t EXCEPT ![Front(p)] = Dir]
        /\ MakeParent(d, p) = [d EXCEPT ![Front(p)] = Dir]
    BY <1>2, <1>3 DEF MakeParent
  <2>2. Dir \in Nodes
    BY MadeNodes
  <2>3. /\ [t EXCEPT ![Front(p)] = Dir] \in Trees /\ [d EXCEPT ![Front(p)] = Dir] \in Trees
        /\ Shaped([t EXCEPT ![Front(p)] = Dir], [d EXCEPT ![Front(p)] = Dir])
    BY <1>1, <1>3, <2>2, ShapedPut
  <2> QED
    BY <1>2, <2>1, <2>3 DEF CanMakeParent, CanLink
<1>4. CASE ~(Len(p) > 1 /\ t[Front(p)] = None)
  <2>1. MakeParent(t, p) = t /\ MakeParent(d, p) = d
    BY <1>2, <1>4 DEF MakeParent
  <2> QED
    BY <1>2, <2>1 DEF CanMakeParent, CanLink
<1> QED
  BY <1>3, <1>4

\* File::create and create_dir_all
LEMMA ShapedMade ==
    ASSUME NEW t \in Trees, NEW d \in Trees, Shaped(t, d), NEW p \in Paths
    PROVE  /\ CanCreate(t, p) => CanCreate(d, p)
           /\ Create(t, p) \in Trees /\ Create(d, p) \in Trees /\ Shaped(Create(t, p), Create(d, p))
           /\ CanMakeDir(t, p) => CanMakeDir(d, p)
           /\ Shaped(MakeDir(t, p), MakeDir(d, p))
<1> DEFINE u == MakeParent(t, p)
           v == MakeParent(d, p)
<1>1. u \in Trees /\ v \in Trees /\ Shaped(u, v) /\ (CanMakeParent(t, p) => CanMakeParent(d, p))
  BY ShapedParent
<1>2. d[p].kind = t[p].kind /\ d[p].ro = t[p].ro /\ (d[p] = None <=> t[p] = None)
  BY ShapedFacts
<1>3. /\ Create(t, p) = [u EXCEPT ![p] = File(<<>>, FALSE)]
      /\ Create(d, p) = [v EXCEPT ![p] = File(<<>>, FALSE)]
      /\ MakeDir(t, p) = IF t[p] = None THEN [u EXCEPT ![p] = Dir] ELSE t
      /\ MakeDir(d, p) = IF d[p] = None THEN [v EXCEPT ![p] = Dir] ELSE d
  BY DEF Create, MakeDir
<1>4. /\ CanCreate(t, p) <=> /\ CanMakeParent(t, p)
                             /\ (t[p] = None /\ CanLink(u, p)) \/ (t[p].kind = "file" /\ ~t[p].ro)
      /\ CanCreate(d, p) <=> /\ CanMakeParent(d, p)
                             /\ (d[p] = None /\ CanLink(v, p)) \/ (d[p].kind = "file" /\ ~d[p].ro)
      /\ CanMakeDir(t, p) <=> /\ CanMakeParent(t, p)
                              /\ (t[p] = None /\ CanLink(u, p)) \/ t[p].kind = "dir"
      /\ CanMakeDir(d, p) <=> /\ CanMakeParent(d, p)
                              /\ (d[p] = None /\ CanLink(v, p)) \/ d[p].kind = "dir"
  BY DEF CanCreate, CanMakeDir
<1> HIDE DEF u, v
<1>5. CanLink(u, p) => CanLink(v, p)
  BY <1>1, ShapedParent
<1>6. File(<<>>, FALSE) \in Nodes /\ Dir \in Nodes
  <2>1. <<>> \in Seq(Bytes \cup {Zero})
    BY EmptySeq
  <2> QED
    BY <2>1, MadeNodes
<1>7. ASSUME NEW n \in Nodes
      PROVE  /\ [u EXCEPT ![p] = n] \in Trees /\ [v EXCEPT ![p] = n] \in Trees
             /\ Shaped([u EXCEPT ![p] = n], [v EXCEPT ![p] = n])
  BY <1>1, ShapedPut
<1>8. Create(t, p) \in Trees /\ Create(d, p) \in Trees /\ Shaped(Create(t, p), Create(d, p))
  BY <1>3, <1>6, <1>7
<1>9. Shaped(MakeDir(t, p), MakeDir(d, p))
  BY <1>2, <1>3, <1>6, <1>7
<1> QED
  BY <1>1, <1>2, <1>4, <1>5, <1>8, <1>9

\* remove_dir_all and rename
LEMMA ShapedMoved ==
    ASSUME NEW t \in Trees, NEW d \in Trees, Shaped(t, d), NEW p \in Paths, NEW s \in Paths
    PROVE  /\ CanRemove(t, p) => CanRemove(d, p)
           /\ Shaped(RemoveTree(t, p), RemoveTree(d, p))
           /\ CanMove(t, s, p) => CanMove(d, s, p)
           /\ Shaped(Move(t, s, p), Move(d, s, p))
<1>1. \A q \in Paths : /\ d[q].kind = t[q].kind /\ d[q].ro = t[q].ro
                       /\ d[q] = None <=> t[q] = None
  BY ShapedFacts
<1>2. (CanLink(t, p) => CanLink(d, p)) /\ (CanLink(t, s) => CanLink(d, s))
  BY ShapedParent
<1>3. \A q \in Below(p) : t[q] = None => d[q] = None
  BY <1>1, PathShape
<1>4. CanRemove(t, p) => CanRemove(d, p)
  BY <1>1, <1>2, <1>3 DEF CanRemove
<1>5. CanMove(t, s, p) => CanMove(d, s, p)
  BY <1>1, <1>2, <1>3 DEF CanMove
<1>6. Shaped(RemoveTree(t, p), RemoveTree(d, p))
  BY <1>1 DEF Shaped, RemoveTree
<1>7. Shaped(Move(t, s, p), Move(d, s, p))
  <2> DEFINE o(q) == Moved(p, s, q)
  <2>1. ASSUME NEW q \in Paths
        PROVE  /\ Move(d, s, p)[q].kind = Move(t, s, p)[q].kind
               /\ Move(d, s, p)[q].ro = Move(t, s, p)[q].ro
    <3>1. /\ Move(t, s, p)[q] = IF IsPrefix(p, q) THEN IF o(q) \in Paths THEN t[o(q)] ELSE None
                                ELSE IF IsPrefix(s, q) THEN None ELSE t[q]
          /\ Move(d, s, p)[q] = IF IsPrefix(p, q) THEN IF o(q) \in Paths THEN d[o(q)] ELSE None
                                ELSE IF IsPrefix(s, q) THEN None ELSE d[q]
      BY DEF Move
    <3> HIDE DEF o
    <3> QED
      BY <1>1, <3>1
  <2> QED
    BY <2>1 DEF Shaped
<1> QED
  BY <1>4, <1>5, <1>6, <1>7

\* An event can be applied to trees of one shape alike, and leaves them so.
LEMMA ShapedApply ==
    ASSUME NEW t \in Trees, NEW d \in Trees, Shaped(t, d), NEW e \in Events, NEW O,
           CanApply(t, e, O)
    PROVE  CanApply(d, e, O) /\ Shaped(Apply(t, e), Apply(d, e))
<1> DEFINE p == e.path
           u == IF t[p] = None THEN Create(t, p) ELSE t
           v == IF d[p] = None THEN Create(d, p) ELSE d
<1>1. /\ p \in Paths /\ e.source \in Paths /\ e.ro \in BOOLEAN
      /\ e.op \in {"create", "mkdir", "write", "truncate", "delete", "rename", "chmod", "fsync"}
  BY DEF Events
<1>2. d[p].kind = t[p].kind /\ d[p].ro = t[p].ro /\ (d[p] = None <=> t[p] = None)
  BY <1>1, ShapedFacts
<1>3. /\ CanCreate(t, p) => CanCreate(d, p)
      /\ Create(t, p) \in Trees /\ Create(d, p) \in Trees /\ Shaped(Create(t, p), Create(d, p))
      /\ CanMakeDir(t, p) => CanMakeDir(d, p)
      /\ Shaped(MakeDir(t, p), MakeDir(d, p))
  BY <1>1, ShapedMade
<1>4. CanOpenNew(t, p) => CanOpenNew(d, p)
  BY <1>2, <1>3 DEF CanOpenNew, CanOpen
<1>5. u \in Trees /\ v \in Trees /\ Shaped(u, v)
  BY <1>2, <1>3
<1> HIDE DEF u, v
<1>6. \A f, g : Shaped([u EXCEPT ![p].data = f], [v EXCEPT ![p].data = g])
  <2> TAKE f, g
  <2>1. \A q \in Paths : /\ [u EXCEPT ![p].data = f][q].kind = u[q].kind
                         /\ [u EXCEPT ![p].data = f][q].ro = u[q].ro
                         /\ [v EXCEPT ![p].data = g][q].kind = v[q].kind
                         /\ [v EXCEPT ![p].data = g][q].ro = v[q].ro
    <3>1. \A n \in Nodes : /\ [n EXCEPT !.data = f].kind = n.kind /\ [n EXCEPT !.data = f].ro = n.ro
                           /\ [n EXCEPT !.data = g].kind = n.kind /\ [n EXCEPT !.data = g].ro = n.ro
      BY DEF Nodes, None
    <3>2. u[p] \in Nodes /\ v[p] \in Nodes /\ DOMAIN u = Paths /\ DOMAIN v = Paths
      BY <1>1, <1>5 DEF Trees
    <3>3. /\ [u EXCEPT ![p].data = f][p] = [u[p] EXCEPT !.data = f]
          /\ [v EXCEPT ![p].data = g][p] = [v[p] EXCEPT !.data = g]
          /\ \A q \in Paths : q # p => /\ [u EXCEPT ![p].data = f][q] = u[q]
                                       /\ [v EXCEPT ![p].data = g][q] = v[q]
      BY <1>1, <3>2
    <3> QED
      BY <3>1, <3>2, <3>3
  <2> QED
    BY <1>5, <2>1 DEF Shaped
<1>7. CASE e.op = "create"
  BY <1>3, <1>7 DEF CanApply, Apply
<1>8. CASE e.op = "mkdir"
  BY <1>3, <1>8 DEF CanApply, Apply
<1>9. CASE e.op \in {"write", "truncate"}
  <2>1. \E f, g : /\ Apply(t, e) = [u EXCEPT ![p].data = f]
                  /\ Apply(d, e) = [v EXCEPT ![p].data = g]
    BY <1>9 DEF Apply, u, v
  <2>2. CanApply(d, e, O)
    BY <1>4, <1>9 DEF CanApply
  <2> PICK f, g : /\ Apply(t, e) = [u EXCEPT ![p].data = f]
                  /\ Apply(d, e) = [v EXCEPT ![p].data = g]
    BY <2>1
  <2>3. Shaped([u EXCEPT ![p].data = f], [v EXCEPT ![p].data = g])
    BY <1>6
  <2> QED
    BY <2>2, <2>3
<1>10. CASE e.op = "delete"
  <2>1. t[p] = None \/ CanRemove(t, p)
    BY <1>10 DEF CanApply
  <2>2. d[p] = None \/ CanRemove(d, p)
    BY <1>1, <1>2, <2>1, ShapedMoved
  <2>3. Apply(t, e) = RemoveTree(t, p) /\ Apply(d, e) = RemoveTree(d, p)
    BY <1>10 DEF Apply
  <2>4. CanApply(d, e, O)
    BY <1>10, <2>2 DEF CanApply
  <2> HIDE DEF p
  <2> QED
    BY <1>1, <2>3, <2>4, ShapedMoved
<1>11. CASE e.op = "rename"
  <2> DEFINE a == MakeParent(t, p)
             b == MakeParent(d, p)
  <2>1. CanMakeParent(t, p) /\ CanMove(a, e.source, p)
    BY <1>11 DEF CanApply
  <2>2. a \in Trees /\ b \in Trees /\ Shaped(a, b) /\ CanMakeParent(d, p)
    BY <1>1, <2>1, ShapedParent
  <2>3. Apply(t, e) = Move(a, e.source, p) /\ Apply(d, e) = Move(b, e.source, p)
    BY <1>11 DEF Apply
  <2>4. CanApply(d, e, O) <=> CanMakeParent(d, p) /\ CanMove(b, e.source, p)
    BY <1>11 DEF CanApply
  <2> HIDE DEF a, b, p
  <2> QED
    BY <1>1, <2>1, <2>2, <2>3, <2>4, ShapedMoved
<1>12. CASE e.op = "chmod"
  <2> DEFINE r == e.ro
             x == [t[p] EXCEPT !.ro = r]
             y == [d[p] EXCEPT !.ro = r]
  <2>1. t[p] # None /\ d[p] # None
    BY <1>2, <1>12 DEF CanApply
  <2>2. \A n \in Nodes : n # None =>
            /\ [n EXCEPT !.ro = r] \in Nodes /\ [n EXCEPT !.ro = r].kind = n.kind
            /\ [n EXCEPT !.ro = r].ro = r
    BY <1>1 DEF Nodes, None
  <2>3. t[p] \in Nodes /\ d[p] \in Nodes
    BY <1>1, NodeFacts
  <2>4. x \in Nodes /\ y \in Nodes /\ y.kind = x.kind /\ y.ro = x.ro
    BY <1>2, <2>1, <2>2, <2>3
  <2>5. Apply(t, e) = [t EXCEPT ![p] = x] /\ Apply(d, e) = [d EXCEPT ![p] = y]
    BY <1>12 DEF Apply
  <2>6. CanApply(d, e, O)
    BY <1>12, <2>1 DEF CanApply
  <2>7. p \in Paths
    BY <1>1
  <2> HIDE DEF x, y, p
  <2>8. Shaped([t EXCEPT ![p] = x], [d EXCEPT ![p] = y])
    BY <2>4, <2>7, ShapedPut
  <2> QED
    BY <2>5, <2>6, <2>8
<1>13. CASE e.op = "fsync"
  BY <1>13 DEF CanApply, Apply
<1> QED
  BY <1>1, <1>7, <1>8, <1>9, <1>10, <1>11, <1>12, <1>13

=============================================================================
