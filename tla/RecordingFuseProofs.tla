-------------------------- MODULE RecordingFuseProofs --------------------------
(* The recording mount, for every set of paths, workspace to begin with,   *)
(* number of clients' calls, sessions and faults: the inode table keeps    *)
(* the names clients hold, and op-replay rebuilds the workspace as it was  *)
(* at each event that has the name of what it changed.                     *)
EXTENDS RecordingFuse, WorkspaceOpsProofs

-----------------------------------------------------------------------------
(* The inductive invariant. *)

Working ==
    /\ tree \in Workspaces /\ IsTree(Walked(tree))
    /\ stage \in {"down", "mount", "idle", "store", "record", "mode"}
    /\ mode \in {"keep", "ro", "rw"}
    /\ pending \in Events \cup {NoEvent}
    /\ stage \in {"store", "record", "mode"} <=> pending # NoEvent
    /\ ops \in 0..MaxOps /\ journal \in Seq(Events) /\ Len(journal) <= ops
    /\ stage \in {"store", "record"} => Len(journal) < ops
    /\ redone \in Seq(Trees \cup {NoTree}) /\ Len(redone) = Len(journal) + 1
    /\ \A k \in 1..Len(redone) : redone[k] # NoTree => IsTree(redone[k])

Storing ==
    /\ ckpts \in Seq(Trees) /\ \A c \in 1..Len(ckpts) : IsTree(ckpts[c])
    /\ rbase \in 0..Len(ckpts) /\ jbase \in 0..Len(ckpts) /\ head \in 0..Len(ckpts)
    /\ tail \in {"none", "line", "open", "torn"} /\ (journal # <<>> => tail # "none")
    /\ compacted \in BOOLEAN /\ (compacted => tail # "none")
    /\ objects \subseteq Seq(Bytes \cup {Zero}) /\ torn \subseteq Seq(Bytes \cup {Zero})
    /\ objects \cap torn = {}

Counting ==
    /\ sound \in 0..AllSound /\ collected \in BOOLEAN
    /\ mounts \in 0..MaxMounts /\ upsets \in 0..MaxUpsets

\* The inode table: an entry leads there and back, numbers not given out are
\* unknown, and the name a client has is the entry, unless the table lost it.
Named ==
    /\ byIno \in [Inos -> Paths \cup {Root, NoPath}]
    /\ byPath \in [Paths -> Inos \cup {0}] /\ nextIno \in 2..(MaxIno + 1)
    /\ meant \in [Inos -> Paths \cup {Root, NoPath, Gone}] /\ strayed \subseteq Inos
    /\ \A p \in Paths : byPath[p] # 0 => byPath[p] < nextIno /\ byIno[byPath[p]] = p
    /\ \A i \in Inos : i >= nextIno => byIno[i] = NoPath /\ meant[i] = NoPath
    /\ \A i \in Inos \ strayed : meant[i] \in Paths => byPath[meant[i]] = i
    /\ \A i \in Inos \ strayed :
          meant[i] # NoPath => byIno[i] = IF meant[i] = Gone THEN NoPath ELSE meant[i]

\* A handler has changed the workspace and not recorded it yet.
Applying == stage \in {"store", "record"}

\* The table has room for the file that create or mkdir is about to answer with.
Alive ==
    Applying /\ pending.op \in {"create", "mkdir"} => Room(pending.path)

\* What the events rebuild: each version follows from the one before and its
\* event, none is missing before an ignored name or a lost change, and the first
\* is the base of the journal and of the session.
Versioned ==
    /\ \A k \in 0..Len(journal) : ~Blinded(k) /\ k <= sound => redone[k + 1] # NoTree
    /\ \A k \in 1..Len(journal) : redone[k + 1] = Redo(redone[k], journal[k])
    /\ journal # <<>> => jbase # 0 /\ ckpts[jbase] = redone[1]
    /\ stage \notin {"down", "mount"} =>
          rbase # 0 /\ (journal = <<>> => ckpts[rbase] = redone[1])
    /\ Lost => sound <= Len(journal)

\* What events and checkpoints refer to is in the store, in part at least, if no
\* collection came in between.
Stored == collected \/ InHand \cup Referenced \subseteq objects \cup torn

\* As long as nothing was lost, the last version looks like the workspace, or
\* will when the event at hand is recorded.
Version == redone[Len(journal) + 1]
Seeing == ~Lost /\ ~Blinded(Len(journal))
Tracking ==
    Seeing =>
        /\ Version \in Trees
        /\ IF Applying THEN Blind(pending) \/ Repeats(Walked(tree), Version, pending)
           ELSE Like(Walked(tree), Version)

\* A replay stands at the version of the event it has come to, or at one with
\* other bytes in it if its base is torn.
Replaying ==
    /\ replay \in [pc : {"idle", "apply", "failed"}, upto : Nat, todo : Seq(Events),
                   dest : Trees \cup {NoTree}]
    /\ replay.pc # "idle" => replay.upto \in 0..Len(journal)
    /\ replay.pc = "apply" =>
          /\ journal # <<>> /\ Len(replay.todo) <= replay.upto
          /\ replay.todo = SubSeq(journal, replay.upto - Len(replay.todo) + 1, replay.upto)
          /\ LET v == redone[replay.upto - Len(replay.todo) + 1] IN
                /\ replay.dest \in Trees /\ v \in Trees /\ Shaped(v, replay.dest)
                /\ ~BaseTorn => replay.dest = v
    /\ ReplayFailsOnly

FuseInv ==
    /\ Working /\ Storing /\ Counting /\ Named /\ Alive
    /\ Versioned /\ Stored /\ Tracking /\ Replaying

-----------------------------------------------------------------------------
(* The inode table. *)

\* The root and the marks of the table are no paths; there is a first inode.
LEMMA Outside ==
    /\ Root \notin Paths /\ NoPath \notin Paths /\ Gone \notin Paths
    /\ Root # NoPath /\ Root # Gone /\ NoPath # Gone
    /\ MaxIno \in Nat /\ MaxIno >= 1 /\ RootIno \in Inos
<1>1. Len(Root) = 0
  BY EmptySeq DEF Root
<1>2. Root \notin Paths
  BY <1>1, PathShape
<1>3. NoPath # Gone /\ NoPath \notin Paths /\ Gone \notin Paths /\ NoPath # Root /\ Gone # Root
  BY FuseAssumptions DEF Root
<1>4. MaxIno \in Nat /\ MaxIno >= 1 /\ RootIno \in Inos
  BY FuseAssumptions DEF RootIno, Inos
<1> QED
  BY <1>2, <1>3, <1>4

\* remember_path, whether or not the client learns the number.
LEMMA RememberStep ==
    ASSUME Named, NEW p \in Paths, Room(p), Remember(p),
           HandOut(p) \/ UNCHANGED clients
    PROVE  Named'
<1> DEFINE n == InoOf(p)
<1>1. /\ byIno \in [Inos -> Paths \cup {Root, NoPath}]
      /\ byPath \in [Paths -> Inos \cup {0}] /\ nextIno \in 2..(MaxIno + 1)
      /\ meant \in [Inos -> Paths \cup {Root, NoPath, Gone}] /\ strayed \subseteq Inos
  BY DEF Named
<1>2. /\ \A q \in Paths : byPath[q] # 0 => byPath[q] < nextIno /\ byIno[byPath[q]] = q
      /\ \A i \in Inos : i >= nextIno => byIno[i] = NoPath /\ meant[i] = NoPath
  BY DEF Named
<1>3. /\ \A i \in Inos \ strayed : meant[i] \in Paths => byPath[meant[i]] = i
      /\ \A i \in Inos \ strayed :
            meant[i] # NoPath => byIno[i] = IF meant[i] = Gone THEN NoPath ELSE meant[i]
  BY DEF Named
<1>4. n \in Inos /\ n < nextIno' /\ nextIno' \in 2..(MaxIno + 1) /\ nextIno <= nextIno'
  BY <1>1, <1>2, Outside DEF Room, InoOf, Remember, Inos
<1>5. /\ byPath' = [byPath EXCEPT ![p] = n] /\ byIno' = [byIno EXCEPT ![n] = p]
      /\ strayed \subseteq strayed' /\ strayed' \subseteq Inos
  BY <1>1, <1>4 DEF Remember, HandOut, clients
<1>6. /\ meant' \in [Inos -> Paths \cup {Root, NoPath, Gone}]
      /\ \A i \in Inos : i # n => meant'[i] = meant[i]
      /\ meant'[n] = meant[n] \/ (meant[n] = NoPath /\ meant'[n] = p)
  BY <1>1, <1>4 DEF HandOut, clients
<1>7. \A q \in Paths : q # p => byPath[q] # n
  BY <1>1, <1>2 DEF InoOf
<1>8. meant[n] # NoPath => byPath[p] = n
  BY <1>1, <1>2, <1>4 DEF InoOf
<1>9. \A q \in Paths : byPath'[q] # 0 => byPath'[q] < nextIno' /\ byIno'[byPath'[q]] = q
  <2> TAKE q \in Paths
  <2>1. CASE q = p
    BY <1>1, <1>4, <1>5, <2>1
  <2>2. CASE q # p
    <3>1. byPath'[q] = byPath[q] /\ byPath[q] # n /\ byPath[q] \in Inos \cup {0}
      BY <1>1, <1>5, <1>7, <2>2
    <3>2. byPath[q] # 0 => byPath[q] < nextIno /\ byIno[byPath[q]] = q
      BY <1>2
    <3>3. byPath[q] # 0 => byIno'[byPath[q]] = q
      BY <1>1, <1>5, <3>1, <3>2
    <3>4. byPath[q] # 0 => byPath[q] < nextIno'
      BY <1>1, <1>4, <3>1, <3>2 DEF Inos
    <3> QED
      BY <3>1, <3>3, <3>4
  <2> QED
    BY <2>1, <2>2
<1>10. \A i \in Inos : i >= nextIno' => byIno'[i] = NoPath /\ meant'[i] = NoPath
  <2> TAKE i \in Inos
  <2>1. i >= nextIno' => i # n /\ i >= nextIno
    BY <1>1, <1>4 DEF Inos
  <2> QED
    BY <1>1, <1>2, <1>5, <1>6, <2>1
<1>11. \A i \in Inos \ strayed : meant'[i] \in Paths => byPath'[meant'[i]] = i
  <2> SUFFICES ASSUME NEW i \in Inos \ strayed, meant'[i] \in Paths PROVE byPath'[meant'[i]] = i
    OBVIOUS
  <2>1. CASE meant'[i] = meant[i]
    <3>1. byPath[meant[i]] = i
      BY <1>3, <2>1
    <3>2. meant[i] = p => i = n
      BY <3>1, <1>4 DEF InoOf, Inos
    <3> QED
      BY <1>1, <1>5, <2>1, <3>1, <3>2
  <2>2. CASE i = n /\ meant'[i] = p
    BY <1>1, <1>5, <2>2
  <2> QED
    BY <1>6, <2>1, <2>2
<1>12. \A i \in Inos \ strayed : meant'[i] # NoPath =>
            byIno'[i] = IF meant'[i] = Gone THEN NoPath ELSE meant'[i]
  <2> SUFFICES ASSUME NEW i \in Inos \ strayed, meant'[i] # NoPath
               PROVE  byIno'[i] = IF meant'[i] = Gone THEN NoPath ELSE meant'[i]
    OBVIOUS
  <2>1. CASE i # n
    BY <1>1, <1>3, <1>5, <1>6, <2>1
  <2>2. CASE i = n /\ meant[n] = NoPath
    BY <1>1, <1>5, <1>6, <2>2, Outside
  <2>3. CASE i = n /\ meant[n] # NoPath
    <3>1. byIno[n] = p /\ meant'[n] = meant[n]
      BY <1>1, <1>2, <1>6, <1>8, <1>4, <2>3 DEF Inos
    <3>2. meant[n] = p
      BY <1>3, <2>3, <3>1, Outside
    <3> QED
      BY <1>1, <1>5, <2>3, <3>1, <3>2, Outside
  <2> QED
    BY <2>1, <2>2, <2>3
<1> HIDE DEF n
<1>13. /\ byIno' \in [Inos -> Paths \cup {Root, NoPath}]
       /\ byPath' \in [Paths -> Inos \cup {0}]
  BY <1>1, <1>4, <1>5
<1> QED
  BY <1>1, <1>4, <1>5, <1>6, <1>9, <1>10, <1>11, <1>12, <1>13 DEF Named

\* forget_path of what was removed, with or without what was below it.
LEMMA ForgetStep ==
    ASSUME Named, NEW p \in Paths, Forget(p),
           strayed \cup Under(p) \subseteq strayed', strayed' \subseteq Inos,
           meant' = [i \in Inos |-> IF i \in At(p) \cup Under(p) THEN Gone ELSE meant[i]]
    PROVE  Named'
<1> DEFINE n == byPath[p]
<1>1. /\ byIno \in [Inos -> Paths \cup {Root, NoPath}]
      /\ byPath \in [Paths -> Inos \cup {0}] /\ nextIno \in 2..(MaxIno + 1)
      /\ meant \in [Inos -> Paths \cup {Root, NoPath, Gone}] /\ strayed \subseteq Inos
  BY DEF Named
<1>2. /\ \A q \in Paths : byPath[q] # 0 => byPath[q] < nextIno /\ byIno[byPath[q]] = q
      /\ \A i \in Inos : i >= nextIno => byIno[i] = NoPath /\ meant[i] = NoPath
  BY DEF Named
<1>3. /\ \A i \in Inos \ strayed : meant[i] \in Paths => byPath[meant[i]] = i
      /\ \A i \in Inos \ strayed :
            meant[i] # NoPath => byIno[i] = IF meant[i] = Gone THEN NoPath ELSE meant[i]
  BY DEF Named
<1>4. /\ byPath' = [byPath EXCEPT ![p] = 0] /\ nextIno' = nextIno
      /\ n = 0 => byIno' = byIno
      /\ n # 0 => byIno' = [byIno EXCEPT ![n] = NoPath] /\ n \in Inos /\ byIno[n] = p
  BY <1>1, <1>2 DEF Forget
<1>5. /\ At(p) \subseteq Inos /\ Under(p) \subseteq Inos
      /\ \A i \in At(p) : meant[i] = p
      /\ \A i \in Under(p) : meant[i] \in Paths
      /\ \A i \in Inos : meant[i] = p => i \in At(p)
      /\ \A i \in Inos : meant[i] \in Below(p) => i \in Under(p)
  BY PathShape DEF At, Under
<1>6. /\ meant' \in [Inos -> Paths \cup {Root, NoPath, Gone}]
      /\ \A i \in At(p) \cup Under(p) : meant'[i] = Gone /\ meant[i] \in Paths
      /\ \A i \in Inos \ (At(p) \cup Under(p)) : meant'[i] = meant[i] /\ meant[i] # p
  BY <1>1, <1>5
<1>7. byIno' \in [Inos -> Paths \cup {Root, NoPath}] /\ byPath' \in [Paths -> Inos \cup {0}]
  BY <1>1, <1>4
<1>8. \A q \in Paths : byPath'[q] # 0 => byPath'[q] < nextIno' /\ byIno'[byPath'[q]] = q
  <2> SUFFICES ASSUME NEW q \in Paths, byPath'[q] # 0
               PROVE  byPath'[q] < nextIno' /\ byIno'[byPath'[q]] = q
    OBVIOUS
  <2>1. q # p /\ byPath'[q] = byPath[q] /\ byPath[q] \in Inos
    BY <1>1, <1>4
  <2>2. byPath[q] < nextIno' /\ byIno[byPath[q]] = q
    BY <1>2, <1>4, <2>1
  <2>3. n # 0 => byPath[q] # n
    BY <1>4, <2>1, <2>2
  <2> HIDE DEF n
  <2>4. byIno'[byPath[q]] = q
    BY <1>1, <1>4, <2>1, <2>2, <2>3
  <2> QED
    BY <2>1, <2>2, <2>4
<1>9. \A i \in Inos : i >= nextIno' => byIno'[i] = NoPath /\ meant'[i] = NoPath
  <2> SUFFICES ASSUME NEW i \in Inos, i >= nextIno
               PROVE  byIno'[i] = NoPath /\ meant'[i] = NoPath
    BY <1>4
  <2>1. byIno[i] = NoPath /\ meant[i] = NoPath
    BY <1>2
  <2>2. i \notin At(p) \cup Under(p)
    BY <1>6, <2>1, Outside
  <2> HIDE DEF n
  <2> QED
    BY <1>1, <1>4, <1>6, <2>1, <2>2
<1>10. \A i \in Inos \ strayed' : meant'[i] \in Paths => byPath'[meant'[i]] = i
  <2> SUFFICES ASSUME NEW i \in Inos, i \notin strayed', meant'[i] \in Paths
               PROVE  byPath'[meant'[i]] = i
    OBVIOUS
  <2>1. meant'[i] = meant[i] /\ meant[i] # p /\ i \notin strayed
    BY <1>6, Outside
  <2>2. byPath[meant[i]] = i
    BY <1>3, <2>1
  <2> QED
    BY <1>1, <1>4, <2>1, <2>2
<1>11. \A i \in Inos \ strayed' : meant'[i] # NoPath =>
            byIno'[i] = IF meant'[i] = Gone THEN NoPath ELSE meant'[i]
  <2> SUFFICES ASSUME NEW i \in Inos, i \notin strayed', meant'[i] # NoPath
               PROVE  byIno'[i] = IF meant'[i] = Gone THEN NoPath ELSE meant'[i]
    OBVIOUS
  <2>1. i \notin strayed /\ i \notin Under(p)
    OBVIOUS
  <2>2. CASE i \in At(p)
    <3>1. byPath[p] = i /\ i # 0
      BY <1>3, <1>5, <2>1, <2>2 DEF Inos
    <3> QED
      BY <1>1, <1>4, <1>6, <2>2, <3>1
  <2>3. CASE i \notin At(p)
    <3>1. meant'[i] = meant[i] /\ meant[i] # p
      BY <1>6, <2>1, <2>3
    <3>2. byIno[i] = IF meant[i] = Gone THEN NoPath ELSE meant[i]
      BY <1>3, <2>1, <3>1
    <3>3. byIno[i] # p
      BY <3>1, <3>2, Outside
    <3>4. byIno'[i] = byIno[i]
      <4>1. n # 0 => i # n
        BY <1>4, <3>3
      <4> HIDE DEF n
      <4> QED
        BY <1>1, <1>4, <4>1
    <3> QED
      BY <3>1, <3>2, <3>4
  <2> QED
    BY <2>2, <2>3
<1> QED
  BY <1>1, <1>4, <1>6, <1>7, <1>8, <1>9, <1>10, <1>11 DEF Named

\* move_path: the inode of the source, none of those below it.
LEMMA MovePathStep ==
    ASSUME Named, NEW s \in Paths, NEW p \in Paths, s # p, MovePath(s, p),
           \A i \in Under(s) : Moved(s, p, meant[i]) \in Paths,
           meant' = [i \in Inos |-> IF i \in At(p) THEN Gone
                                    ELSE IF i \in At(s) \cup Under(s) THEN Moved(s, p, meant[i])
                                    ELSE meant[i]],
           strayed \cup At(p) \cup Under(s) \subseteq strayed', strayed' \subseteq Inos
    PROVE  Named'
<1> DEFINE n == byPath[s]
<1>1. /\ byIno \in [Inos -> Paths \cup {Root, NoPath}]
      /\ byPath \in [Paths -> Inos \cup {0}] /\ nextIno \in 2..(MaxIno + 1)
      /\ meant \in [Inos -> Paths \cup {Root, NoPath, Gone}] /\ strayed \subseteq Inos
  BY DEF Named
<1>2. /\ \A q \in Paths : byPath[q] # 0 => byPath[q] < nextIno /\ byIno[byPath[q]] = q
      /\ \A i \in Inos : i >= nextIno => byIno[i] = NoPath /\ meant[i] = NoPath
  BY DEF Named
<1>3. /\ \A i \in Inos \ strayed : meant[i] \in Paths => byPath[meant[i]] = i
      /\ \A i \in Inos \ strayed :
            meant[i] # NoPath => byIno[i] = IF meant[i] = Gone THEN NoPath ELSE meant[i]
  BY DEF Named
<1>4. /\ nextIno' = nextIno
      /\ n = 0 => byIno' = byIno /\ byPath' = byPath
      /\ n # 0 => /\ byIno' = [byIno EXCEPT ![n] = p] /\ n \in Inos /\ byIno[n] = s
                  /\ byPath' = [byPath EXCEPT ![s] = 0, ![p] = n] /\ n < nextIno
  BY <1>1, <1>2 DEF MovePath
<1>5. /\ At(s) \subseteq Inos /\ At(p) \subseteq Inos /\ Under(s) \subseteq Inos
      /\ \A i \in Inos : i \in At(s) <=> meant[i] = s
      /\ \A i \in Inos : i \in At(p) <=> meant[i] = p
      /\ \A i \in Under(s) : meant[i] \in Paths
  BY PathShape DEF At, Under
<1>6. /\ \A i \in At(p) : meant'[i] = Gone
      /\ \A i \in At(s) \ At(p) : meant'[i] = p
      /\ \A i \in Under(s) \ At(p) : meant'[i] \in Paths
      /\ \A i \in Inos \ (At(p) \cup At(s) \cup Under(s)) : meant'[i] = meant[i]
  <2>1. Moved(s, p, s) = p
    BY MovedFacts
  <2>2. \A i \in At(s) : Moved(s, p, meant[i]) = p
    BY <1>5, <2>1
  <2> QED
    BY <1>5, <2>2
<1>7. meant' \in [Inos -> Paths \cup {Root, NoPath, Gone}]
  <2>1. \A i \in Inos : meant'[i] \in Paths \cup {Root, NoPath, Gone}
    BY <1>1, <1>5, <1>6
  <2> QED
    BY <2>1
<1> HIDE DEF n
<1>8. byIno' \in [Inos -> Paths \cup {Root, NoPath}] /\ byPath' \in [Paths -> Inos \cup {0}]
  BY <1>1, <1>4
<1>9. \A q \in Paths : byPath'[q] # 0 => byPath'[q] < nextIno' /\ byIno'[byPath'[q]] = q
  <2> SUFFICES ASSUME NEW q \in Paths, byPath'[q] # 0
               PROVE  byPath'[q] < nextIno' /\ byIno'[byPath'[q]] = q
    OBVIOUS
  <2>1. CASE n = 0
    BY <1>2, <1>4, <2>1
  <2>2. CASE n # 0 /\ q = p
    <3>1. byPath'[p] = n
      BY <1>1, <1>4, <2>2
    <3> QED
      BY <1>1, <1>4, <2>2, <3>1
  <2>3. CASE n # 0 /\ q # p
    <3>1. q # s /\ byPath'[q] = byPath[q] /\ byPath[q] \in Inos
      BY <1>1, <1>4, <2>3
    <3>2. byPath[q] < nextIno /\ byIno[byPath[q]] = q /\ byPath[q] # n
      BY <1>2, <1>4, <2>3, <3>1
    <3> QED
      BY <1>1, <1>4, <2>3, <3>1, <3>2
  <2> QED
    BY <2>1, <2>2, <2>3
<1>10. \A i \in Inos : i >= nextIno' => byIno'[i] = NoPath /\ meant'[i] = NoPath
  <2> SUFFICES ASSUME NEW i \in Inos, i >= nextIno
               PROVE  byIno'[i] = NoPath /\ meant'[i] = NoPath
    BY <1>4
  <2>1. byIno[i] = NoPath /\ meant[i] = NoPath
    BY <1>2
  <2>2. i \notin At(p) \cup At(s) \cup Under(s)
    BY <1>5, <2>1, Outside
  <2>3. n # 0 => i # n
    BY <1>1, <1>4 DEF Inos
  <2> QED
    BY <1>1, <1>4, <1>6, <2>1, <2>2, <2>3
<1>11. ASSUME NEW i \in Inos, i \notin strayed', meant'[i] # NoPath
       PROVE  /\ meant'[i] \in Paths => byPath'[meant'[i]] = i
              /\ byIno'[i] = IF meant'[i] = Gone THEN NoPath ELSE meant'[i]
  <2>1. i \notin strayed /\ i \notin Under(s) /\ i \notin At(p)
    BY <1>11
  <2>2. CASE i \in At(s)
    <3>1. n = i /\ n # 0 /\ meant'[i] = p
      BY <1>3, <1>5, <1>6, <2>1, <2>2 DEF n, Inos
    <3>2. byPath'[p] = i /\ byIno'[i] = p
      BY <1>1, <1>4, <3>1
    <3> QED
      BY <3>1, <3>2, Outside
  <2>3. CASE i \notin At(s)
    <3>1. meant'[i] = meant[i] /\ meant[i] # s /\ meant[i] # p
      BY <1>5, <1>6, <2>1, <2>3
    <3>2. byIno[i] = IF meant[i] = Gone THEN NoPath ELSE meant[i]
      BY <1>3, <1>11, <2>1, <3>1
    <3>3. byIno[i] # s
      BY <3>1, <3>2, Outside
    <3>4. byIno'[i] = byIno[i]
      BY <1>1, <1>4, <3>3
    <3>5. meant[i] \in Paths => byPath'[meant[i]] = byPath[meant[i]]
      BY <1>1, <1>4, <3>1
    <3>6. meant[i] \in Paths => byPath[meant[i]] = i
      BY <1>3, <2>1
    <3> QED
      BY <3>1, <3>2, <3>4, <3>5, <3>6
  <2> QED
    BY <2>2, <2>3
<1> QED
  BY <1>1, <1>4, <1>7, <1>8, <1>9, <1>10, <1>11, Outside DEF Named

\* RecordingFuse::new, and the end of the process
LEMMA NewTable ==
    ASSUME byPath' = [p \in Paths |-> 0], nextIno' = 2, strayed' = {},
           NEW r \in {Root, NoPath},
           byIno' = [i \in Inos |-> IF i = RootIno THEN r ELSE NoPath],
           meant' = [i \in Inos |-> IF i = RootIno THEN r ELSE NoPath]
    PROVE  Named'
<1>1. \A i \in Inos : i >= 2 => i # RootIno
  BY DEF RootIno
<1>2. 2 \in 2..(MaxIno + 1)
  BY Outside
<1> QED
  BY <1>1, <1>2, Outside DEF Named

-----------------------------------------------------------------------------
(* What steps have in common. *)

\* No event is at hand as long as there is none.
LEMMA EventFacts ==
    /\ NoEvent \notin Events
    /\ \A e \in Events : e.path \in Paths /\ e.source \in Paths
<1>1. NoEvent.op = "none"
  BY DEF NoEvent, Event
<1> QED
  BY <1>1 DEF Events

\* The last version is one of the versions.
LEMMA VersionFacts ==
    ASSUME Working
    PROVE  /\ Len(journal) \in Nat /\ Version \in Trees \cup {NoTree} /\ NoTree \notin Trees
           /\ Version # NoTree => Version \in Trees /\ IsTree(Version)
           /\ \A k \in 1..(Len(journal) + 1) :
                /\ redone[k] \in Trees \cup {NoTree}
                /\ redone[k] # NoTree => redone[k] \in Trees /\ IsTree(redone[k])
<1>1. Len(journal) \in Nat /\ Len(redone) = Len(journal) + 1
  BY LenProperties DEF Working
<1>2. \A k \in 1..Len(redone) :
        /\ redone[k] \in Trees \cup {NoTree} /\ (redone[k] # NoTree => IsTree(redone[k]))
  BY ElementOfSeq DEF Working
<1>3. NoTree \notin Trees
  BY FuseAssumptions
<1> QED
  BY <1>1, <1>2, <1>3 DEF Version

\* Between two handlers the last version looks like the workspace.
LEMMA Current ==
    ASSUME FuseInv, ~Applying
    PROVE  /\ tree \in Workspaces /\ IsTree(Walked(tree)) /\ Walked(tree) \in Trees
           /\ Seeing => Version \in Trees /\ IsTree(Version) /\ Like(Walked(tree), Version)
BY VersionFacts, WalkedFacts DEF FuseInv, Working, Tracking

\* A change that is not recorded leaves the events before it.
LEMMA LosesFacts ==
    ASSUME FuseInv, Loses
    PROVE  /\ sound' \in 0..AllSound /\ sound' <= Len(journal) /\ Lost'
           /\ \A k \in 0..Len(journal) : k <= sound' => k <= sound
<1>1. Len(journal) \in 0..MaxOps /\ sound \in 0..AllSound
  BY VersionFacts, FuseAssumptions DEF FuseInv, Working, Counting
<1>2. /\ sound' \in 0..AllSound /\ sound' # AllSound /\ sound' <= Len(journal)
      /\ \A k \in 0..Len(journal) : k <= sound' => k <= sound
  <2>1. CASE Lost
    BY <1>1, <2>1 DEF Loses, Lost, FuseInv, Versioned
  <2>2. CASE ~Lost
    BY <1>1, <2>2, FuseAssumptions DEF Loses, Lost, AllSound
  <2> QED
    BY <2>1, <2>2
<1> QED
  BY <1>2 DEF Lost, AllSound

\* A step that records nothing leaves the versions, and what the last one says
\* of the workspace if it leaves that, too, or loses a change.
LEMMA KeptStep ==
    ASSUME FuseInv, replay.pc = "idle", UNCHANGED <<journal, jbase, redone, replay, collected>>,
           sound' = sound \/ Loses, \A c \in 1..Len(ckpts) : ckpts'[c] = ckpts[c],
           stage' \notin {"down", "mount"} => stage \notin {"down", "mount"} /\ rbase' = rbase
    PROVE  /\ Versioned' /\ Replaying' /\ sound' \in 0..AllSound /\ Version' = Version
           /\ sound' = sound => (Seeing' <=> Seeing)
           /\ Loses => Tracking'
           /\ /\ sound' = sound /\ tree' = tree /\ (Applying' <=> Applying)
              /\ Applying => pending' = pending
              => Tracking'
<1>1. /\ sound' \in 0..AllSound /\ (Lost' => sound' <= Len(journal))
      /\ \A k \in 0..Len(journal) : k <= sound' => k <= sound
      /\ Loses => Lost'
  BY LosesFacts DEF FuseInv, Counting, Versioned, Lost
<1>2. Versioned'
  <2>1. Len(ckpts) \in Nat
    BY LenProperties DEF FuseInv, Storing
  <2>2. journal # <<>> => jbase # 0 /\ ckpts'[jbase] = redone[1]
    BY <2>1 DEF FuseInv, Storing, Versioned
  <2>3. stage' \notin {"down", "mount"} =>
          rbase' # 0 /\ (journal = <<>> => ckpts'[rbase'] = redone[1])
    BY <2>1 DEF FuseInv, Storing, Versioned
  <2>4. \A k : Blinded(k)' <=> Blinded(k)
    BY DEF Blinded
  <2> QED
    BY <1>1, <2>2, <2>3, <2>4 DEF FuseInv, Versioned
<1>3. Replaying'
  BY DEF FuseInv, Replaying, ReplayFailsOnly
<1>4. Version' = Version
  BY DEF Version
<1>5. sound' = sound => (Seeing' <=> Seeing)
  BY DEF Seeing, Lost, Blinded
<1>6. Loses => Tracking'
  BY <1>1 DEF Tracking, Seeing
<1>7. /\ sound' = sound /\ tree' = tree /\ (Applying' <=> Applying)
      /\ Applying => pending' = pending
      => Tracking'
  BY <1>4, <1>5 DEF FuseInv, Tracking
<1> QED
  BY <1>1, <1>2, <1>3, <1>4, <1>5, <1>6, <1>7

\* Nothing is taken from the store, and what is in hand now was, or is there.
LEMMA StoreKeeps ==
    ASSUME Stored, collected' = collected, objects \cup torn \subseteq objects' \cup torn',
           WritesOf(journal)' \subseteq InHand,
           stage' = "record" => Payload' \subseteq InHand \cup objects' \cup torn',
           stage' = "mount" => ContentsOf(Seen(tree))' \subseteq InHand \cup objects' \cup torn',
           Referenced' \subseteq Referenced \cup InHand \cup objects' \cup torn'
    PROVE  Stored'
<1>1. CASE collected
  BY <1>1 DEF Stored
<1>2. CASE ~collected
  <2>1. InHand \subseteq objects' \cup torn' /\ Referenced \subseteq objects' \cup torn'
    BY <1>2 DEF Stored
  <2>2. InHand' \subseteq objects' \cup torn'
    BY <2>1 DEF InHand
  <2> QED
    BY <2>1, <2>2 DEF Stored
<1> QED
  BY <1>1, <1>2

\* Nothing happens to the store but that something comes in.
LEMMA StoreStays ==
    ASSUME Stored, UNCHANGED <<journal, ckpts, collected>>,
           objects \subseteq objects', torn \subseteq torn',
           stage' = "record" => \/ Payload' = {} \/ Payload' \subseteq objects' \cup torn'
                                \/ stage = "record" /\ pending' = pending,
           stage' = "mount" => \/ ContentsOf(Seen(tree))' \subseteq objects' \cup torn'
                               \/ stage = "mount" /\ tree' = tree
    PROVE  Stored'
<1>1. WritesOf(journal)' \subseteq InHand
  BY DEF InHand, WritesOf
<1>2. Referenced' = Referenced
  BY DEF Referenced
<1>3. stage' = "record" => Payload' \subseteq InHand \cup objects' \cup torn'
  BY DEF InHand, Payload
<1>4. stage' = "mount" => ContentsOf(Seen(tree))' \subseteq InHand \cup objects' \cup torn'
  BY DEF InHand
<1> QED
  BY <1>1, <1>2, <1>3, <1>4, StoreKeeps

-----------------------------------------------------------------------------
(* Handlers: the change of the workspace. *)

\* What a handler does outside of the table: the workspace is t now, and the
\* event e would take the last version there, unless the change is lost.
LEMMA AppliedStep ==
    ASSUME FuseInv, replay.pc = "idle", stage \in {"idle", "mode"},
           NEW t \in Workspaces, IsTree(Walked(t)), NEW e \in Events, Applied(t, e),
           mode' \in {"keep", "ro", "rw"},
           Loses \/ (sound' = sound /\ (Seeing /\ ~Blind(e) => Repeats(Walked(t), Version, e)))
    PROVE  Working' /\ Storing' /\ Counting' /\ Versioned' /\ Stored' /\ Tracking' /\ Replaying'
<1>1. /\ tree' = t /\ pending' = e /\ ops' = ops + 1 /\ ops < MaxOps
      /\ stage' = IF e.op = "write" THEN "store" ELSE "record"
      /\ UNCHANGED <<rbase, journal, jbase, compacted, tail, redone, ckpts, objects, torn, head,
                     replay, collected, mounts, upsets>>
  BY DEF Applied, log, store
<1>2. Working'
  <2>1. ops' \in 0..MaxOps /\ Len(journal) <= ops' /\ Len(journal) < ops'
    BY <1>1, VersionFacts, FuseAssumptions DEF FuseInv, Working
  <2> QED
    BY <1>1, <2>1, EventFacts DEF FuseInv, Working
<1>3. /\ Versioned' /\ Replaying' /\ sound' \in 0..AllSound /\ Version' = Version
      /\ sound' = sound => (Seeing' <=> Seeing)
      /\ Loses => Tracking'
  BY <1>1, KeptStep
<1>4. Storing' /\ Counting'
  BY <1>1, <1>3 DEF FuseInv, Storing, Counting
<1>5. Stored'
  <2>1. stage' = "record" => Payload' = {}
    BY <1>1 DEF Payload
  <2> QED
    BY <1>1, <2>1, StoreStays DEF FuseInv
<1>6. Tracking'
  <2>1. CASE Loses
    BY <1>3, <2>1
  <2>2. CASE sound' = sound /\ (Seeing /\ ~Blind(e) => Repeats(Walked(t), Version, e))
    <3>1. Seeing => Version \in Trees
      BY DEF FuseInv, Tracking
    <3>2. Applying' /\ Walked(tree)' = Walked(t)
      BY <1>1 DEF Applying, Walked
    <3> QED
      BY <1>1, <1>3, <2>2, <3>1, <3>2 DEF Tracking
  <2> QED
    BY <2>1, <2>2
<1> QED
  BY <1>2, <1>3, <1>4, <1>5, <1>6

\* A handler that neither renames nor removes.
LEMMA HandlerStep ==
    ASSUME FuseInv, replay.pc = "idle", stage \in {"idle", "mode"},
           NEW t \in Workspaces, IsTree(Walked(t)), NEW e \in Events, Applied(t, e),
           mode' \in {"keep", "ro", "rw"}, UNCHANGED <<table, clients>>,
           e.op \in {"create", "mkdir"} => Room(e.path),
           Loses \/ (sound' = sound /\ (Seeing /\ ~Blind(e) => Repeats(Walked(t), Version, e)))
    PROVE  FuseInv'
<1>1. Working' /\ Storing' /\ Counting' /\ Versioned' /\ Stored' /\ Tracking' /\ Replaying'
  BY AppliedStep
<1>2. pending' = e /\ UNCHANGED <<byIno, byPath, nextIno, meant, strayed>>
  BY DEF Applied, table, clients
<1>3. Named'
  BY <1>2 DEF FuseInv, Named
<1>4. Alive'
  BY <1>2 DEF Alive, Room
<1> QED
  BY <1>1, <1>3, <1>4 DEF FuseInv

\* What events are made of.
LEMMA MadeEvents ==
    ASSUME NEW p \in Paths
    PROVE  /\ \A o \in {"create", "mkdir", "delete", "fsync"} :
                Event(o, p) \in Events /\ Event(o, p).op = o /\ Event(o, p).path = p
           /\ \A off \in Nat, b \in Seq(Bytes) :
                WriteEvent(p, off, b) \in Events /\ WriteEvent(p, off, b).op = "write"
           /\ \A n \in Nat : TruncateEvent(p, n) \in Events /\ TruncateEvent(p, n).op = "truncate"
           /\ \A s \in Paths : /\ RenameEvent(s, p) \in Events /\ RenameEvent(s, p).op = "rename"
                               /\ RenameEvent(s, p).source = s
           /\ \A r \in BOOLEAN : /\ ChmodEvent(p, r) \in Events /\ ChmodEvent(p, r).op = "chmod"
                                 /\ ChmodEvent(p, r).path = p
<1>1. <<>> \in Seq(Bytes) /\ 0 \in Nat /\ FALSE \in BOOLEAN
  BY EmptySeq
<1>2. ASSUME NEW o \in {"create", "mkdir", "delete", "fsync"}
      PROVE  Event(o, p) \in Events /\ Event(o, p).op = o /\ Event(o, p).path = p
  BY <1>1, <1>2 DEF Event, Events
<1>3. ASSUME NEW off \in Nat, NEW b \in Seq(Bytes)
      PROVE  WriteEvent(p, off, b) \in Events /\ WriteEvent(p, off, b).op = "write"
  BY <1>1, <1>3 DEF Event, Events, WriteEvent
<1>4. ASSUME NEW n \in Nat
      PROVE  TruncateEvent(p, n) \in Events /\ TruncateEvent(p, n).op = "truncate"
  BY <1>1, <1>4 DEF Event, Events, TruncateEvent
<1>5. ASSUME NEW s \in Paths
      PROVE  /\ RenameEvent(s, p) \in Events /\ RenameEvent(s, p).op = "rename"
             /\ RenameEvent(s, p).source = s
  BY <1>1, <1>5 DEF Event, Events, RenameEvent
<1>6. ASSUME NEW r \in BOOLEAN
      PROVE  /\ ChmodEvent(p, r) \in Events /\ ChmodEvent(p, r).op = "chmod"
             /\ ChmodEvent(p, r).path = p
  BY <1>1, <1>6 DEF Event, Events, ChmodEvent
<1> QED
  BY <1>2, <1>3, <1>4, <1>5, <1>6

\* create
LEMMA CreateFileStep ==
    ASSUME FuseInv, replay.pc = "idle", NEW p \in Paths, CreateFile(p)
    PROVE  FuseInv'
<1> DEFINE q == Real(tree, p)
           w == Walked(tree)
<1>1. /\ stage = "idle" /\ Room(p) /\ CanCreate(tree, q) /\ UNCHANGED <<table, mode, clients>>
      /\ Applied(Create(tree, q), Event("create", p)) /\ Noted(p, q)
      /\ q \in Paths /\ (Len(q) > 1 => tree[Front(q)].kind # "link")
  BY DEF CreateFile, Reaches
<1> HIDE DEF q
<1>2. /\ tree \in Workspaces /\ IsTree(w) /\ w \in Trees
      /\ Seeing => Version \in Trees /\ IsTree(Version) /\ Like(w, Version)
  BY <1>1, Current DEF Applying
<1>3. /\ CanCreate(w, q) /\ Create(tree, q) \in Workspaces
      /\ Walked(Create(tree, q)) = Create(w, q)
  <2>1. Len(q) = 2 => tree[Front(q)].kind # "link"
    BY <1>1
  <2> QED
    BY <1>1, <1>2, <2>1, WalkedMade
<1> HIDE DEF w
<1>4. IsTree(Create(w, q))
  BY <1>1, <1>2, <1>3, MadeTree
<1>5. q = p /\ Seeing => Repeats(Create(w, q), Version, Event("create", p))
  BY <1>1, <1>2, <1>3, RepeatCreateEvent
<1>6. Event("create", p) \in Events /\ Event("create", p).path = p
  BY MadeEvents
<1>7. mode' \in {"keep", "ro", "rw"} /\ UNCHANGED <<table, clients>> /\ ((sound' = sound /\ q = p) \/ Loses)
  BY <1>1 DEF FuseInv, Working, Noted
<1> QED
  BY <1>1, <1>3, <1>4, <1>5, <1>6, <1>7, HandlerStep

\* mkdir
LEMMA MkdirStep ==
    ASSUME FuseInv, replay.pc = "idle", NEW p \in Paths, Mkdir(p)
    PROVE  FuseInv'
<1> DEFINE q == Real(tree, p)
           w == Walked(tree)
<1>1. /\ stage = "idle" /\ Room(p) /\ CanMakeDir(tree, q) /\ UNCHANGED <<table, mode, clients>>
      /\ Applied(MakeDir(tree, q), Event("mkdir", p)) /\ Noted(p, q)
      /\ q \in Paths /\ (Len(q) > 1 => tree[Front(q)].kind # "link")
  BY DEF Mkdir, Reaches
<1> HIDE DEF q
<1>2. /\ tree \in Workspaces /\ IsTree(w) /\ w \in Trees
      /\ Seeing => Version \in Trees /\ IsTree(Version) /\ Like(w, Version)
  BY <1>1, Current DEF Applying
<1>3. /\ CanMakeDir(w, q) /\ MakeDir(tree, q) \in Workspaces
      /\ Walked(MakeDir(tree, q)) = MakeDir(w, q)
  <2>1. Len(q) = 2 => tree[Front(q)].kind # "link"
    BY <1>1
  <2> QED
    BY <1>1, <1>2, <2>1, WalkedMade
<1> HIDE DEF w
<1>4. IsTree(MakeDir(w, q))
  BY <1>1, <1>2, <1>3, MadeTree
<1>5. q = p /\ Seeing => Repeats(MakeDir(w, q), Version, Event("mkdir", p))
  BY <1>1, <1>2, <1>3, RepeatMkdirEvent
<1>6. Event("mkdir", p) \in Events /\ Event("mkdir", p).path = p
  BY MadeEvents
<1>7. mode' \in {"keep", "ro", "rw"} /\ UNCHANGED <<table, clients>> /\ ((sound' = sound /\ q = p) \/ Loses)
  BY <1>1 DEF FuseInv, Working, Noted
<1> QED
  BY <1>1, <1>3, <1>4, <1>5, <1>6, <1>7, HandlerStep

\* write
LEMMA WriteStep ==
    ASSUME FuseInv, replay.pc = "idle", NEW p \in Paths, NEW off \in Offsets, NEW b \in Bytes,
           Write(p, off, <<b>>)
    PROVE  FuseInv'
<1> DEFINE q == Real(tree, p)
           w == Walked(tree)
           e == WriteEvent(p, off, <<b>>)
           t == [tree EXCEPT ![q].data = WriteAt(@, off, <<b>>)]
<1>1. /\ stage = "idle" /\ CanOpen(tree, q) /\ q \in Paths /\ Applied(t, e)
      /\ UNCHANGED <<table, mode, clients>> /\ Noted(p, q)
  BY DEF Write, Reaches
<1> HIDE DEF q
<1>2. /\ tree \in Workspaces /\ IsTree(w) /\ w \in Trees
      /\ Seeing => Version \in Trees /\ IsTree(Version) /\ Like(w, Version)
  BY <1>1, Current DEF Applying
<1>3. off \in Nat /\ <<b>> \in Seq(Bytes)
  BY FuseAssumptions
<1>4. /\ CanOpen(w, q) /\ w[q] = tree[q] /\ w[q].kind = "file"
      /\ \A d \in Seq(Bytes \cup {Zero}) :
            /\ [tree EXCEPT ![q].data = d] \in Workspaces
            /\ Walked([tree EXCEPT ![q].data = d]) = [w EXCEPT ![q].data = d]
  BY <1>1, <1>2, WalkedChanged DEF CanOpen
<1>5. /\ w[q].data \in Seq(Bytes \cup {Zero})
      /\ WriteAt(w[q].data, off, <<b>>) \in Seq(Bytes \cup {Zero})
  <2>1. w[q].data \in Seq(Bytes \cup {Zero})
    BY <1>1, <1>2, <1>4, NodeFacts
  <2> QED
    BY <1>3, <2>1, WrittenFile
<1>6. t = [tree EXCEPT ![q].data = WriteAt(w[q].data, off, <<b>>)]
  BY <1>4
<1>7. /\ t \in Workspaces /\ Walked(t) = [w EXCEPT ![q].data = WriteAt(@, off, <<b>>)]
      /\ Walked(t) = [w EXCEPT ![q].data = WriteAt(w[q].data, off, <<b>>)]
  BY <1>4, <1>5, <1>6
<1> HIDE DEF t, w
<1>8. IsTree(Walked(t))
  <2> DEFINE d == WriteAt(w[q].data, off, <<b>>)
  <2>1. d \in Seq(Bytes \cup {Zero}) /\ Walked(t) = [w EXCEPT ![q].data = d]
    BY <1>5, <1>7
  <2> HIDE DEF d
  <2>2. IsTree([w EXCEPT ![q].data = d])
    BY <1>1, <1>2, <1>4, <2>1, ChangedTree
  <2> QED
    BY <2>1, <2>2
<1>9. q = p /\ Seeing => Repeats(Walked(t), Version, e)
  <2> SUFFICES ASSUME q = p, Seeing PROVE Repeats(Walked(t), Version, e)
    OBVIOUS
  <2>1. Repeats([w EXCEPT ![p].data = WriteAt(@, off, <<b>>)], Version, e)
    BY <1>2, <1>3, <1>4, RepeatWriteEvent
  <2> QED
    BY <1>7, <2>1
<1>10. e \in Events /\ e.op = "write"
  <2>1. \A o \in Nat, c \in Seq(Bytes) :
          WriteEvent(p, o, c) \in Events /\ WriteEvent(p, o, c).op = "write"
    BY MadeEvents
  <2> QED
    BY <1>3, <2>1 DEF e
<1>11. mode' \in {"keep", "ro", "rw"} /\ UNCHANGED <<table, clients>> /\ ((sound' = sound /\ q = p) \/ Loses)
  BY <1>1 DEF FuseInv, Working, Noted
<1> HIDE DEF e
<1> QED
  BY <1>1, <1>7, <1>8, <1>9, <1>10, <1>11, HandlerStep

\* The size setattr sets, whether or not a mode follows.
LEMMA SetSizeStep ==
    ASSUME FuseInv, replay.pc = "idle", NEW p \in Paths, NEW n \in Sizes,
           NEW m \in {"keep", "ro", "rw"}, SetSize(p, n, m)
    PROVE  FuseInv'
<1> DEFINE q == Real(tree, p)
           w == Walked(tree)
           e == TruncateEvent(p, n)
           t == [tree EXCEPT ![q].data = SetLen(@, n)]
<1>1. /\ stage = "idle" /\ CanOpen(tree, q) /\ q \in Paths /\ Applied(t, e)
      /\ mode' = m /\ UNCHANGED <<table, clients>> /\ Noted(p, q)
  BY DEF SetSize, Reaches
<1> HIDE DEF q
<1>2. /\ tree \in Workspaces /\ IsTree(w) /\ w \in Trees
      /\ Seeing => Version \in Trees /\ IsTree(Version) /\ Like(w, Version)
  BY <1>1, Current DEF Applying
<1>3. n \in Nat
  BY FuseAssumptions
<1>4. /\ CanOpen(w, q) /\ w[q] = tree[q] /\ w[q].kind = "file"
      /\ \A d \in Seq(Bytes \cup {Zero}) :
            /\ [tree EXCEPT ![q].data = d] \in Workspaces
            /\ Walked([tree EXCEPT ![q].data = d]) = [w EXCEPT ![q].data = d]
  BY <1>1, <1>2, WalkedChanged DEF CanOpen
<1>5. /\ w[q].data \in Seq(Bytes \cup {Zero})
      /\ SetLen(w[q].data, n) \in Seq(Bytes \cup {Zero})
  <2>1. w[q].data \in Seq(Bytes \cup {Zero})
    BY <1>1, <1>2, <1>4, NodeFacts
  <2> QED
    BY <1>3, <2>1, SizedFile
<1>6. t = [tree EXCEPT ![q].data = SetLen(w[q].data, n)]
  BY <1>4
<1>7. /\ t \in Workspaces /\ Walked(t) = [w EXCEPT ![q].data = SetLen(@, n)]
      /\ Walked(t) = [w EXCEPT ![q].data = SetLen(w[q].data, n)]
  BY <1>4, <1>5, <1>6
<1> HIDE DEF t, w
<1>8. IsTree(Walked(t))
  <2> DEFINE d == SetLen(w[q].data, n)
  <2>1. d \in Seq(Bytes \cup {Zero}) /\ Walked(t) = [w EXCEPT ![q].data = d]
    BY <1>5, <1>7
  <2> HIDE DEF d
  <2>2. IsTree([w EXCEPT ![q].data = d])
    BY <1>1, <1>2, <1>4, <2>1, ChangedTree
  <2> QED
    BY <2>1, <2>2
<1>9. q = p /\ Seeing => Repeats(Walked(t), Version, e)
  <2> SUFFICES ASSUME q = p, Seeing PROVE Repeats(Walked(t), Version, e)
    OBVIOUS
  <2>1. Repeats([w EXCEPT ![p].data = SetLen(@, n)], Version, e)
    BY <1>2, <1>3, <1>4, RepeatTruncateEvent
  <2> QED
    BY <1>7, <2>1
<1>10. e \in Events /\ e.op = "truncate"
  BY <1>3, MadeEvents
<1>11. mode' \in {"keep", "ro", "rw"} /\ ((sound' = sound /\ q = p) \/ Loses)
  BY <1>1 DEF Noted
<1> HIDE DEF e
<1> QED
  BY <1>1, <1>7, <1>8, <1>9, <1>10, <1>11, HandlerStep

\* The mode setattr sets, with or without a size before it.
LEMMA ChmodStep ==
    ASSUME FuseInv, replay.pc = "idle", stage \in {"idle", "mode"}, NEW p \in Paths, NEW m, Chmod(p, m)
    PROVE  FuseInv'
<1> DEFINE q == Real(tree, p)
           w == Walked(tree)
           r == m = "ro"
           e == ChmodEvent(p, r)
           t == [tree EXCEPT ![q].ro = r]
<1>1. /\ q \in Paths /\ tree[q].kind \in {"dir", "file"} /\ Applied(t, e)
      /\ mode' = "keep" /\ UNCHANGED <<table, clients>> /\ Noted(p, q)
  BY DEF Chmod, Exists, Reaches
<1> HIDE DEF q
<1>2. /\ tree \in Workspaces /\ IsTree(w) /\ w \in Trees
      /\ Seeing => Version \in Trees /\ IsTree(Version) /\ Like(w, Version)
  BY Current DEF Applying
<1>3. r \in BOOLEAN
  OBVIOUS
<1> HIDE DEF r
<1>4. w[q] # None /\ t \in Workspaces /\ Walked(t) = [w EXCEPT ![q].ro = r]
  BY <1>1, <1>2, <1>3, WalkedChanged
<1> HIDE DEF t, w
<1>5. IsTree(Walked(t))
  <2>1. IsTree([w EXCEPT ![q].ro = r])
    BY <1>1, <1>2, <1>3, <1>4, ChangedTree
  <2> QED
    BY <1>4, <2>1
<1>6. e \in Events /\ e.op = "chmod" /\ e.path = p
  BY <1>3, MadeEvents
<1>7. q = p /\ Seeing /\ ~Blind(e) => Repeats(Walked(t), Version, e)
  <2>1. ~Blind(e) => ~Hidden(p)
    BY <1>6 DEF Blind
  <2> QED
    BY <1>1, <1>2, <1>3, <1>4, <2>1, RepeatChmodEvent
<1>8. mode' \in {"keep", "ro", "rw"} /\ ((sound' = sound /\ q = p) \/ Loses)
  BY <1>1 DEF Noted
<1> HIDE DEF e
<1> QED
  BY <1>1, <1>4, <1>5, <1>6, <1>7, <1>8, HandlerStep

\* fsync, which changes nothing and is recorded all the same.
LEMMA FsyncStep ==
    ASSUME FuseInv, replay.pc = "idle", NEW p \in Paths, Fsync(p)
    PROVE  FuseInv'
<1>1. /\ stage = "idle" /\ Applied(tree, Event("fsync", p)) /\ UNCHANGED <<table, mode, clients, sound>>
  BY DEF Fsync
<1>2. /\ tree \in Workspaces /\ IsTree(Walked(tree)) /\ Walked(tree) \in Trees
      /\ Seeing => Version \in Trees /\ IsTree(Version) /\ Like(Walked(tree), Version)
  BY <1>1, Current DEF Applying
<1>3. Seeing => Repeats(Walked(tree), Version, Event("fsync", p))
  BY <1>2, RepeatFsyncEvent
<1>4. Event("fsync", p) \in Events /\ Event("fsync", p).op = "fsync"
  BY MadeEvents
<1>5. mode' \in {"keep", "ro", "rw"} /\ UNCHANGED <<table, clients>> /\ sound' = sound
  BY <1>1 DEF FuseInv, Working
<1> QED
  BY <1>1, <1>2, <1>3, <1>4, <1>5, HandlerStep

\* unlink and rmdir
LEMMA RemovedStep ==
    ASSUME FuseInv, replay.pc = "idle", stage = "idle", NEW p \in Paths, NEW q \in Paths,
           CanRemove(tree, q), Removed(p, q), Forget(p)
    PROVE  FuseInv'
<1> DEFINE w == Walked(tree)
           t == RemoveTree(tree, q)
           e == Event("delete", p)
<1>1. /\ Applied(t, e) /\ mode' = mode /\ Noted(p, q)
      /\ strayed' = strayed \cup Under(p) \cup Beside(p, q)
      /\ meant' = [i \in Inos |-> IF i \in At(p) \cup Under(p) THEN Gone ELSE meant[i]]
  BY DEF Removed
<1>2. /\ tree \in Workspaces /\ IsTree(w) /\ w \in Trees
      /\ Seeing => Version \in Trees /\ IsTree(Version) /\ Like(w, Version)
  BY Current DEF Applying
<1>3. /\ t \in Workspaces /\ Walked(t) = RemoveTree(w, q)
      /\ w[q] = None \/ CanRemove(w, q)
  BY <1>2, WalkedRemove
<1> HIDE DEF t, w
<1>4. IsTree(Walked(t))
  BY <1>2, <1>3, RemovedTree
<1>5. q = p /\ Seeing => Repeats(Walked(t), Version, e)
  BY <1>2, <1>3, RepeatDeleteEvent
<1>6. e \in Events /\ e.op = "delete"
  BY MadeEvents
<1>7. mode' \in {"keep", "ro", "rw"} /\ ((sound' = sound /\ q = p) \/ Loses)
  BY <1>1 DEF FuseInv, Working, Noted
<1>8. strayed \cup Under(p) \subseteq strayed' /\ strayed' \subseteq Inos
  BY <1>1 DEF FuseInv, Named, Under, Beside, At
<1>9. Named'
  BY <1>1, <1>8, ForgetStep DEF FuseInv
<1>10. Alive'
  BY <1>1, <1>6 DEF Alive, Applied
<1> HIDE DEF e
<1>11. Working' /\ Storing' /\ Counting' /\ Versioned' /\ Stored' /\ Tracking' /\ Replaying'
  BY <1>1, <1>3, <1>4, <1>5, <1>6, <1>7, AppliedStep
<1> QED
  BY <1>9, <1>10, <1>11 DEF FuseInv

\* rename takes the entry along, and the names of what is below it.
LEMMA RenameStep ==
    ASSUME FuseInv, replay.pc = "idle", NEW s \in Paths, NEW p \in Paths, Rename(s, p)
    PROVE  FuseInv'
<1> DEFINE a == Entry(tree, s)
           b == Entry(tree, p)
           w == Walked(tree)
           u == MakeParent(tree, b)
           t == Move(u, a, b)
           e == RenameEvent(s, p)
<1>1. /\ stage = "idle" /\ s # p /\ NamesFit(s, p) /\ a \in Paths /\ b \in Paths
      /\ Len(b) > 1 => tree[Front(b)].kind # "link"
      /\ CanMakeParent(tree, b) /\ CanMove(u, a, b)
      /\ Applied(t, e) /\ MovePath(s, p) /\ mode' = mode
      /\ IF tree[a].kind = "link" THEN Loses ELSE Noted(<<s, p>>, <<a, b>>)
      /\ strayed' = strayed \cup At(p) \cup Under(s) \cup Beside(s, a) \cup Beside(p, b)
      /\ meant' = [i \in Inos |-> IF i \in At(p) THEN Gone
                                  ELSE IF i \in At(s) \cup Under(s) THEN Moved(s, p, meant[i])
                                  ELSE meant[i]]
  BY DEF Rename, Reaches
<1> HIDE DEF a, b
<1>2. /\ tree \in Workspaces /\ IsTree(w) /\ w \in Trees
      /\ Seeing => Version \in Trees /\ IsTree(Version) /\ Like(w, Version)
  BY <1>1, Current DEF Applying
<1>3. /\ u \in Workspaces /\ Walked(u) = MakeParent(w, b) /\ CanMakeParent(w, b)
      /\ \A r \in Paths : ~(Len(b) = 2 /\ r = Front(b)) => u[r] = tree[r]
  BY <1>1, <1>2, PathShape, WalkedParent
<1> HIDE DEF w
<1>4. IsTree(Walked(u))
  BY <1>1, <1>2, <1>3, ParentFacts
<1>5. tree[a].kind # "link" => u[a].kind # "link"
  <2>1. CASE u[a] = tree[a]
    BY <2>1
  <2>2. CASE u[a] # tree[a]
    <3>1. u[a] = Dir
      BY <1>1, <1>2, <2>2 DEF MakeParent, Workspaces
    <3> QED
      BY <3>1, MadeNodes
  <2> QED
    BY <2>1, <2>2
<1> HIDE DEF u
<1>6. /\ t \in Workspaces /\ Walked(t) = Move(MakeParent(w, b), a, b) /\ IsTree(Walked(t))
      /\ tree[a].kind # "link" => CanMove(MakeParent(w, b), a, b)
  BY <1>1, <1>3, <1>4, <1>5, WalkedMove
<1> HIDE DEF t
<1>7. e \in Events /\ e.op = "rename" /\ e.source = s
  BY MadeEvents
<1>8. a = s /\ b = p /\ tree[a].kind # "link" /\ Seeing /\ ~Blind(e) => Repeats(Walked(t), Version, e)
  <2>1. ~Blind(e) => ~Hidden(s)
    BY <1>7 DEF Blind
  <2> QED
    BY <1>1, <1>2, <1>3, <1>6, <2>1, RepeatRenameEvent
<1>9. mode' \in {"keep", "ro", "rw"} /\ ((sound' = sound /\ a = s /\ b = p /\ tree[a].kind # "link") \/ Loses)
  BY <1>1 DEF FuseInv, Working, Noted
<1>10. \A i \in Under(s) : Moved(s, p, meant[i]) \in Paths
  BY <1>1 DEF NamesFit
<1>11. strayed \cup At(p) \cup Under(s) \subseteq strayed' /\ strayed' \subseteq Inos
  BY <1>1 DEF FuseInv, Named, Under, Beside, At
<1>12. Named'
  BY <1>1, <1>10, <1>11, MovePathStep DEF FuseInv
<1>13. Alive'
  BY <1>1, <1>7 DEF Alive, Applied
<1> HIDE DEF e
<1>14. Working' /\ Storing' /\ Counting' /\ Versioned' /\ Stored' /\ Tracking' /\ Replaying'
  BY <1>1, <1>6, <1>7, <1>8, <1>9, AppliedStep
<1> QED
  BY <1>12, <1>13, <1>14 DEF FuseInv

-----------------------------------------------------------------------------
(* Sessions, lookups, and changes that are not recorded. *)

\* The end of the process.
LEMMA EndsStep ==
    ASSUME Ends
    PROVE  /\ Named' /\ Alive' /\ ~Applying' /\ stage' = "down" /\ pending' = NoEvent /\ mode' = "keep"
           /\ rbase' = 0
<1>1. /\ stage' = "down" /\ pending' = NoEvent /\ mode' = "keep" /\ rbase' = 0
      /\ byPath' = [p \in Paths |-> 0] /\ nextIno' = 2 /\ strayed' = {}
      /\ byIno' = [i \in Inos |-> NoPath] /\ meant' = [i \in Inos |-> NoPath]
  BY DEF Ends
<1>2. [i \in Inos |-> NoPath] = [i \in Inos |-> IF i = RootIno THEN NoPath ELSE NoPath]
  OBVIOUS
<1>3. Named'
  BY <1>1, <1>2, NewTable
<1>4. ~Applying'
  BY <1>1 DEF Applying
<1> QED
  BY <1>1, <1>3, <1>4 DEF Alive

\* lookup and readdir only add to the table.
LEMMA LookupStep ==
    ASSUME FuseInv, replay.pc = "idle", NEW p \in Paths, Lookup(p) \/ Readdir(Front(p), p)
    PROVE  FuseInv'
<1>1. /\ stage = "idle" /\ Room(p) /\ Remember(p) /\ (HandOut(p) \/ UNCHANGED clients)
      /\ UNCHANGED <<backing, call, log, store, replay, history>>
  BY DEF Lookup, Readdir, Room
<1>2. Named'
  BY <1>1, RememberStep DEF FuseInv
<1>3. UNCHANGED <<tree, stage, pending, mode, rbase, journal, jbase, compacted, tail, redone,
                  ckpts, objects, torn, head, replay, sound, collected, mounts, ops, upsets>>
  BY <1>1 DEF backing, call, log, store, history
<1>4. Alive'
  BY <1>1, <1>3 DEF Alive, Applying
<1>5. Working'
  BY <1>3 DEF FuseInv, Working
<1>6. Storing' /\ Counting'
  BY <1>3 DEF FuseInv, Storing, Counting
<1>7. Applying' <=> Applying
  BY <1>3 DEF Applying
<1>8. Versioned' /\ Tracking' /\ Replaying'
  BY <1>1, <1>3, <1>7, KeptStep
<1>9. Stored'
  BY <1>1, <1>3, StoreStays DEF FuseInv
<1> QED
  BY <1>2, <1>4, <1>5, <1>6, <1>8, <1>9 DEF FuseInv

\* What a checkpoint has of the workspace.
LEMMA SeenFacts ==
    ASSUME Working
    PROVE  /\ Seen(tree) \in Trees /\ IsTree(Seen(tree)) /\ Like(Walked(tree), Seen(tree))
           /\ Seen(tree) # NoTree
           /\ ContentsOf(Seen(tree)) \subseteq Seq(Bytes \cup {Zero})
<1>1. Seen(tree) \in Trees /\ IsTree(Seen(tree)) /\ Like(Walked(tree), Seen(tree))
  BY WalkedSeen DEF Working
<1>2. ContentsOf(Seen(tree)) \subseteq Seq(Bytes \cup {Zero})
  BY <1>1, NodeFacts DEF ContentsOf
<1> QED
  BY <1>1, <1>2, FuseAssumptions

\* The files of a checkpoint are stored, unless something has their names.
LEMMA StoredFiles ==
    ASSUME Working, Storing, StoreFiles
    PROVE  /\ objects' \subseteq Seq(Bytes \cup {Zero}) /\ objects \subseteq objects'
           /\ objects' \cap torn = {} /\ ContentsOf(Seen(tree)) \subseteq objects' \cup torn
BY SeenFacts DEF StoreFiles, Storing

\* A checkpoint more.
LEMMA CheckpointFacts ==
    ASSUME Working, Storing, ckpts' = Append(ckpts, Seen(tree))
    PROVE  /\ ckpts' \in Seq(Trees) /\ Len(ckpts') = Len(ckpts) + 1 /\ Len(ckpts) \in Nat
           /\ ckpts'[Len(ckpts) + 1] = Seen(tree)
           /\ \A c \in 1..Len(ckpts) : ckpts'[c] = ckpts[c]
           /\ \A c \in 1..Len(ckpts') : IsTree(ckpts'[c])
           /\ Referenced' \subseteq Referenced \cup ContentsOf(Seen(tree))
<1>1. Seen(tree) \in Trees /\ IsTree(Seen(tree))
  BY SeenFacts
<1>2. ckpts \in Seq(Trees) /\ Len(ckpts) \in Nat
  BY LenProperties DEF Storing
<1>3. /\ ckpts' \in Seq(Trees) /\ Len(ckpts') = Len(ckpts) + 1
      /\ ckpts'[Len(ckpts) + 1] = Seen(tree)
      /\ \A c \in 1..Len(ckpts) : ckpts'[c] = ckpts[c]
  BY <1>1, <1>2, AppendProperties
<1>4. ASSUME NEW c \in 1..Len(ckpts')
      PROVE  c = Len(ckpts) + 1 \/ c \in 1..Len(ckpts)
  BY <1>2, <1>3
<1>5. \A c \in 1..Len(ckpts') : IsTree(ckpts'[c])
  BY <1>1, <1>3, <1>4 DEF Storing
<1>6. Referenced' \subseteq Referenced \cup ContentsOf(Seen(tree))
  <2>1. DOMAIN ckpts = 1..Len(ckpts) /\ DOMAIN ckpts' = 1..Len(ckpts')
    BY <1>2, <1>3, LenProperties
  <2>2. ASSUME NEW c \in DOMAIN ckpts'
        PROVE  ContentsOf(ckpts'[c]) \subseteq Referenced \cup ContentsOf(Seen(tree))
    <3>1. CASE c = Len(ckpts) + 1
      BY <1>3, <3>1
    <3>2. CASE c \in 1..Len(ckpts)
      BY <1>3, <2>1, <3>2 DEF Referenced
    <3> QED
      BY <1>4, <2>1, <2>2, <3>1, <3>2
  <2>3. Referenced' = UNION {ContentsOf(ckpts'[c]) : c \in DOMAIN ckpts'}
    BY DEF Referenced
  <2> QED
    BY <2>2, <2>3
<1> QED
  BY <1>2, <1>3, <1>5, <1>6

\* A session begins with the objects of its base checkpoint,
LEMMA MountStep ==
    ASSUME FuseInv, replay.pc = "idle", Mount
    PROVE  FuseInv'
<1>1. /\ stage = "down" /\ stage' = "mount" /\ mounts' = mounts + 1 /\ mounts < MaxMounts /\ StoreFiles
      /\ UNCHANGED <<tree, byIno, byPath, nextIno, pending, mode, rbase, journal, jbase, compacted,
                     tail, redone, ckpts, torn, head, replay, meant, strayed, sound, collected, ops, upsets>>
  BY DEF Mount, backing, table, log, clients
<1>2. Working'
  BY <1>1 DEF FuseInv, Working
<1>3. /\ objects' \subseteq Seq(Bytes \cup {Zero}) /\ objects \subseteq objects'
      /\ objects' \cap torn = {} /\ ContentsOf(Seen(tree)) \subseteq objects' \cup torn
  BY <1>1, StoredFiles DEF FuseInv
<1>4. Storing'
  BY <1>1, <1>3 DEF FuseInv, Storing
<1>5. Counting'
  BY <1>1, FuseAssumptions DEF FuseInv, Counting
<1>6. Named'
  BY <1>1 DEF FuseInv, Named
<1>7. ~Applying /\ ~Applying'
  BY <1>1 DEF Applying
<1>8. Alive'
  BY <1>7 DEF Alive
<1>9. Versioned' /\ Tracking' /\ Replaying'
  BY <1>1, <1>7, KeptStep
<1>10. Stored'
  <2>1. ContentsOf(Seen(tree))' = ContentsOf(Seen(tree))
    BY <1>1
  <2> QED
    BY <1>1, <1>3, <2>1, StoreStays DEF FuseInv
<1> QED
  BY <1>2, <1>4, <1>5, <1>6, <1>8, <1>9, <1>10 DEF FuseInv

\* then its manifest and a new table.
LEMMA MountedStep ==
    ASSUME FuseInv, replay.pc = "idle", Mounted
    PROVE  FuseInv'
<1>1. /\ stage = "mount" /\ stage' = "idle" /\ rbase' = Len(ckpts) + 1
      /\ ckpts' = Append(ckpts, Seen(tree))
      /\ redone' = IF journal = <<>> THEN <<Seen(tree)>> ELSE redone
      /\ sound' = IF journal = <<>> THEN AllSound ELSE sound
      /\ UNCHANGED <<tree, pending, mode, journal, jbase, compacted, tail, objects, torn, head, replay,
                     collected, mounts, ops, upsets>>
  BY DEF Mounted, backing
<1>2. Seen(tree) \in Trees /\ IsTree(Seen(tree)) /\ Like(Walked(tree), Seen(tree)) /\ Seen(tree) # NoTree
  BY SeenFacts DEF FuseInv
<1>3. /\ ckpts' \in Seq(Trees) /\ Len(ckpts') = Len(ckpts) + 1 /\ Len(ckpts) \in Nat
      /\ ckpts'[Len(ckpts) + 1] = Seen(tree)
      /\ \A c \in 1..Len(ckpts) : ckpts'[c] = ckpts[c]
      /\ \A c \in 1..Len(ckpts') : IsTree(ckpts'[c])
      /\ Referenced' \subseteq Referenced \cup ContentsOf(Seen(tree))
  BY <1>1, CheckpointFacts DEF FuseInv
<1>4. journal = <<>> => Len(journal) = 0
  BY EmptySeq
<1>5. /\ journal = <<>> => redone'[1] = Seen(tree) /\ Len(redone') = 1
      /\ redone' \in Seq(Trees \cup {NoTree}) /\ Len(redone') = Len(journal) + 1
      /\ \A k \in 1..Len(redone') : redone'[k] # NoTree => IsTree(redone'[k])
  BY <1>1, <1>2, <1>4 DEF FuseInv, Working
<1>6. Working'
  BY <1>1, <1>5 DEF FuseInv, Working
<1>7. Storing'
  BY <1>1, <1>3 DEF FuseInv, Storing
<1>8. Counting'
  <2>1. AllSound \in 0..AllSound
    BY FuseAssumptions DEF AllSound
  <2> QED
    BY <1>1, <2>1 DEF FuseInv, Counting, AllSound
<1>9. Named'
  BY NewTable DEF Mounted
<1>10. ~Applying /\ ~Applying'
  BY <1>1 DEF Applying
<1>11. Alive'
  BY <1>10 DEF Alive
<1>12. Stored'
  <2>1. WritesOf(journal)' \subseteq InHand /\ ContentsOf(Seen(tree)) \subseteq InHand
    BY <1>1 DEF InHand, WritesOf
  <2> QED
    BY <1>1, <1>3, <2>1, StoreKeeps DEF FuseInv
<1>13. ASSUME journal = <<>> PROVE Versioned' /\ Tracking'
  <2>1. \A n \in 0..0 : ~Blinded(n)' /\ ~Blinded(n)
    BY DEF Blinded
  <2>2. ~Lost'
    BY <1>1, <1>13 DEF Lost, AllSound
  <2>3. rbase' # 0 /\ ckpts'[rbase'] = redone'[1]
    BY <1>1, <1>3, <1>5, <1>13
  <2>4. journal' = <<>> /\ Len(journal') = 0
    BY <1>1, <1>4, <1>13
  <2>5. Versioned'
    BY <1>2, <1>5, <1>13, <2>1, <2>2, <2>3, <2>4 DEF Versioned
  <2>6. Version' = Seen(tree)
    BY <1>5, <1>13, <2>4 DEF Version
  <2>7. Tracking'
    BY <1>1, <1>2, <1>10, <2>6 DEF Tracking
  <2> QED
    BY <2>5, <2>7
<1>14. ASSUME journal # <<>> PROVE Versioned' /\ Tracking'
  <2>1. redone' = redone /\ sound' = sound /\ journal' = journal
    BY <1>1, <1>14
  <2>2. jbase \in 1..Len(ckpts)
    BY <1>3, <1>14 DEF FuseInv, Storing, Versioned
  <2>3. rbase' # 0 /\ ckpts'[jbase] = redone[1]
    BY <1>1, <1>3, <1>14, <2>2 DEF FuseInv, Versioned
  <2>4. Versioned'
    BY <1>1, <1>14, <2>1, <2>3 DEF FuseInv, Versioned, Blinded, Lost
  <2>5. Tracking'
    BY <1>1, <1>10, <2>1 DEF FuseInv, Tracking, Seeing, Blinded, Lost, Version
  <2> QED
    BY <2>4, <2>5
<1>15. Replaying'
  BY <1>1 DEF FuseInv, Replaying, ReplayFailsOnly
<1> QED
  BY <1>6, <1>7, <1>8, <1>9, <1>11, <1>12, <1>13, <1>14, <1>15 DEF FuseInv

\* It ends with another, and perhaps with the commit of it.
LEMMA UnmountStep ==
    ASSUME FuseInv, replay.pc = "idle", Unmount
    PROVE  FuseInv'
<1>1. /\ stage = "idle" /\ Ends /\ StoreFiles /\ ckpts' = Append(ckpts, Seen(tree))
      /\ \/ head' = Len(ckpts) + 1 /\ compacted' = TRUE /\ tail # "none"
         \/ head' = head /\ compacted' = compacted
      /\ UNCHANGED <<tree, journal, jbase, tail, redone, torn, replay, sound, collected, mounts, ops, upsets>>
  BY DEF Unmount, Checkpoint, backing, history
<1>2. Named' /\ Alive' /\ ~Applying' /\ stage' = "down" /\ pending' = NoEvent /\ mode' = "keep" /\ rbase' = 0
  BY <1>1, EndsStep
<1>3. /\ objects' \subseteq Seq(Bytes \cup {Zero}) /\ objects \subseteq objects'
      /\ objects' \cap torn = {} /\ ContentsOf(Seen(tree)) \subseteq objects' \cup torn
  BY <1>1, StoredFiles DEF FuseInv
<1>4. /\ ckpts' \in Seq(Trees) /\ Len(ckpts') = Len(ckpts) + 1 /\ Len(ckpts) \in Nat
      /\ \A c \in 1..Len(ckpts) : ckpts'[c] = ckpts[c]
      /\ \A c \in 1..Len(ckpts') : IsTree(ckpts'[c])
      /\ Referenced' \subseteq Referenced \cup ContentsOf(Seen(tree))
  BY <1>1, CheckpointFacts DEF FuseInv
<1>5. Working' /\ Counting'
  BY <1>1, <1>2 DEF FuseInv, Working, Counting
<1>6. Storing'
  <2>1. compacted' \in BOOLEAN /\ (compacted' => tail # "none")
    <3>1. CASE compacted' = TRUE /\ tail # "none"
      BY <3>1, Zenon
    <3>2. CASE compacted' = compacted
      BY <3>2, Zenon DEF FuseInv, Storing
    <3> QED
      BY <1>1, <3>1, <3>2
  <2>2. head' \in 0..Len(ckpts') /\ rbase' \in 0..Len(ckpts') /\ jbase \in 0..Len(ckpts')
    BY <1>1, <1>2, <1>4 DEF FuseInv, Storing
  <2>3. tail \in {"none", "line", "open", "torn"} /\ (journal # <<>> => tail # "none")
        /\ torn \subseteq Seq(Bytes \cup {Zero})
    BY DEF FuseInv, Storing
  <2> QED
    BY <1>1, <1>3, <1>4, <2>1, <2>2, <2>3 DEF Storing
<1>7. ~Applying
  BY <1>1 DEF Applying
<1>8. Versioned' /\ Tracking' /\ Replaying'
  BY <1>1, <1>2, <1>4, <1>7, KeptStep
<1>9. Stored'
  <2>1. WritesOf(journal)' \subseteq InHand
    BY <1>1 DEF InHand, WritesOf
  <2> QED
    BY <1>1, <1>2, <1>3, <1>4, <2>1, StoreKeeps DEF FuseInv
<1> QED
  BY <1>2, <1>5, <1>6, <1>8, <1>9 DEF FuseInv

\* A checkpoint that is never finished leaves objects, one perhaps in part.
LEMMA CheckpointFailsStep ==
    ASSUME FuseInv, replay.pc = "idle", CheckpointFails
    PROVE  FuseInv'
<1>1. /\ stage \in {"down", "idle"} /\ Ends /\ upsets < MaxUpsets /\ upsets' = upsets + 1
      /\ UNCHANGED <<tree, journal, jbase, compacted, tail, redone, ckpts, head, replay, sound, collected,
                     mounts, ops>>
  BY DEF CheckpointFails, backing
<1>2. Named' /\ Alive' /\ ~Applying' /\ stage' = "down" /\ pending' = NoEvent /\ mode' = "keep" /\ rbase' = 0
  BY <1>1, EndsStep
<1>3. /\ objects \subseteq objects' /\ torn \subseteq torn'
      /\ objects' \subseteq Seq(Bytes \cup {Zero}) /\ torn' \subseteq Seq(Bytes \cup {Zero})
      /\ objects' \cap torn' = {}
  <2>1. ContentsOf(Seen(tree)) \subseteq Seq(Bytes \cup {Zero})
    BY SeenFacts DEF FuseInv
  <2> DEFINE new == ContentsOf(Seen(tree)) \ (objects \cup torn)
  <2>2. PICK some \in SUBSET new :
          /\ objects' = objects \cup some
          /\ torn' \in {torn} \cup {torn \cup {c} : c \in new \ (some \cup {<<>>})}
    BY DEF CheckpointFails
  <2>3. CASE torn' = torn
    BY <2>1, <2>2, <2>3 DEF FuseInv, Storing
  <2>4. ASSUME NEW c \in new \ (some \cup {<<>>}), torn' = torn \cup {c}
        PROVE  /\ objects \subseteq objects' /\ torn \subseteq torn'
               /\ objects' \subseteq Seq(Bytes \cup {Zero}) /\ torn' \subseteq Seq(Bytes \cup {Zero})
               /\ objects' \cap torn' = {}
    BY <2>1, <2>2, <2>4 DEF FuseInv, Storing
  <2> QED
    BY <2>2, <2>3, <2>4
<1>4. Working'
  BY <1>1, <1>2 DEF FuseInv, Working
<1>5. Storing'
  BY <1>1, <1>2, <1>3, LenProperties DEF FuseInv, Storing
<1>6. Counting'
  BY <1>1, FuseAssumptions DEF FuseInv, Counting
<1>7. ~Applying
  BY <1>1 DEF Applying
<1>8. Versioned' /\ Tracking' /\ Replaying'
  BY <1>1, <1>2, <1>7, KeptStep
<1>9. Stored'
  BY <1>1, <1>2, <1>3, StoreStays DEF FuseInv
<1> QED
  BY <1>2, <1>4, <1>5, <1>6, <1>8, <1>9 DEF FuseInv

\* A rename that fails has made a directory that no event tells of.
LEMMA RenameFailsStep ==
    ASSUME FuseInv, replay.pc = "idle", NEW s \in Paths, NEW p \in Paths, RenameFails(s, p)
    PROVE  FuseInv'
<1>1. /\ stage = "idle" /\ tree' = MakeParent(tree, p) /\ MakeParent(tree, p) # tree /\ Loses
      /\ UNCHANGED <<byIno, byPath, nextIno, stage, pending, mode, rbase, journal, jbase, compacted,
                     tail, redone, ckpts, objects, torn, head, replay, meant, strayed, collected, mounts,
                     ops, upsets>>
  BY DEF RenameFails, table, call, log, store, clients
<1>2. tree \in Workspaces /\ IsTree(Walked(tree)) /\ Walked(tree) \in Trees
  BY WalkedFacts DEF FuseInv, Working
<1>3. Len(p) > 1 /\ tree[Front(p)] = None
  BY <1>1 DEF MakeParent
<1>4. CanMakeParent(tree, p) /\ (Len(p) = 2 => tree[Front(p)].kind # "link")
  BY <1>3, MadeNodes DEF CanMakeParent
<1>5. tree' \in Workspaces /\ IsTree(Walked(tree'))
  <2>1. /\ MakeParent(tree, p) \in Workspaces
        /\ Walked(MakeParent(tree, p)) = MakeParent(Walked(tree), p) /\ CanMakeParent(Walked(tree), p)
    BY <1>2, <1>4, WalkedParent
  <2>2. IsTree(MakeParent(Walked(tree), p))
    BY <1>2, <2>1, ParentFacts
  <2> QED
    BY <1>1, <2>1, <2>2
<1>6. Versioned' /\ Tracking' /\ Replaying' /\ sound' \in 0..AllSound
  BY <1>1, KeptStep
<1>7. Working'
  BY <1>1, <1>5 DEF FuseInv, Working
<1>8. Storing' /\ Counting' /\ Named'
  BY <1>1, <1>6 DEF FuseInv, Storing, Counting, Named
<1>9. Alive'
  BY <1>1 DEF Alive, Applying
<1>10. Stored'
  BY <1>1, StoreStays DEF FuseInv
<1> QED
  BY <1>6, <1>7, <1>8, <1>9, <1>10 DEF FuseInv

\* The payload of an event is bytes.
LEMMA PayloadBytes ==
    ASSUME Working, Applying
    PROVE  Payload \subseteq Seq(Bytes \cup {Zero}) /\ pending \in Events
<1>1. pending \in Events
  BY DEF Working, Applying
<1>2. pending.data \in Seq(Bytes)
  BY <1>1 DEF Events
<1>3. pending.data \in Seq(Bytes \cup {Zero})
  BY <1>2, SeqMonotonic
<1> QED
  BY <1>1, <1>3 DEF Payload

\* The payload of a write is stored.
LEMMA StoreBytesStep ==
    ASSUME FuseInv, replay.pc = "idle", StoreBytes
    PROVE  FuseInv'
<1>1. /\ stage = "store" /\ stage' = "record" /\ objects' = objects \cup (Payload \ torn)
      /\ UNCHANGED <<tree, byIno, byPath, nextIno, pending, mode, rbase, journal, jbase, compacted, tail,
                     redone, ckpts, torn, head, replay, meant, strayed, sound, collected, mounts, ops, upsets>>
  BY DEF StoreBytes, backing, table, log, clients, history
<1>2. Applying /\ Applying'
  BY <1>1 DEF Applying
<1>3. Payload \subseteq Seq(Bytes \cup {Zero}) /\ Payload' = Payload
  BY <1>1, <1>2, PayloadBytes DEF FuseInv, Payload
<1>4. Working'
  BY <1>1 DEF FuseInv, Working
<1>5. Storing'
  BY <1>1, <1>3 DEF FuseInv, Storing
<1>6. Counting' /\ Named'
  BY <1>1 DEF FuseInv, Counting, Named
<1>7. Alive'
  BY <1>1, <1>2 DEF FuseInv, Alive, Room
<1>8. Versioned' /\ Tracking' /\ Replaying'
  BY <1>1, <1>2, KeptStep
<1>9. Stored'
  BY <1>1, <1>3, StoreStays DEF FuseInv
<1> QED
  BY <1>4, <1>5, <1>6, <1>7, <1>8, <1>9 DEF FuseInv

-----------------------------------------------------------------------------
(* The journal. *)

\* What a version and an event make is a tree or nothing.
LEMMA RedoTree ==
    ASSUME NEW d \in Trees \cup {NoTree}, d # NoTree => IsTree(d), NEW e \in Events
    PROVE  /\ Redo(d, e) \in Trees \cup {NoTree}
           /\ Redo(d, e) # NoTree => /\ d \in Trees /\ CanApply(d, e, {e.data})
                                     /\ Redo(d, e) = Apply(d, e) /\ IsTree(Redo(d, e))
           /\ d # NoTree /\ CanApply(d, e, {e.data}) => Redo(d, e) = Apply(d, e) /\ Redo(d, e) \in Trees
<1>1. CASE d # NoTree /\ CanApply(d, e, {e.data})
  <2>1. d \in Trees /\ Redo(d, e) = Apply(d, e)
    BY <1>1 DEF Redo
  <2>2. Apply(d, e) \in Trees /\ IsTree(Apply(d, e))
    BY <1>1, <2>1, AppliedTree
  <2> QED
    BY <1>1, <2>1, <2>2
<1>2. CASE ~(d # NoTree /\ CanApply(d, e, {e.data}))
  BY <1>2 DEF Redo
<1> QED
  BY <1>1, <1>2

\* The sequences an event is recorded in.
LEMMA RecordedFacts ==
    ASSUME FuseInv, Applying, journal' = Append(journal, pending),
           redone' = Append(redone, Redo(Last(redone), pending))
    PROVE  LET n == Len(journal) IN
           /\ pending \in Events /\ n \in Nat
           /\ journal' \in Seq(Events) /\ Len(journal') = n + 1 /\ journal' # <<>>
           /\ \A k \in 1..n : journal'[k] = journal[k]
           /\ journal'[n + 1] = pending
           /\ redone' \in Seq(Trees \cup {NoTree}) /\ Len(redone') = n + 2
           /\ \A k \in 1..(n + 1) : redone'[k] = redone[k]
           /\ redone'[n + 2] = Redo(Version, pending)
           /\ \A k \in 1..(n + 2) : redone'[k] # NoTree => IsTree(redone'[k])
           /\ \A k \in 0..n : Blinded(k)' <=> Blinded(k)
           /\ (\E j \in 1..(n + 1) : Blind(journal'[j])) <=> Blinded(n) \/ Blind(pending)
<1> DEFINE n == Len(journal)
           r == Redo(Version, pending)
<1>1. pending \in Events /\ n \in Nat /\ journal \in Seq(Events)
  BY VersionFacts, PayloadBytes DEF FuseInv, Working
<1>2. redone \in Seq(Trees \cup {NoTree}) /\ Len(redone) = n + 1 /\ Last(redone) = Version
  BY DEF FuseInv, Working, Last, Version
<1>3. r \in Trees \cup {NoTree} /\ (r # NoTree => IsTree(r))
  BY <1>1, VersionFacts, RedoTree DEF FuseInv
<1>4. /\ journal' \in Seq(Events) /\ Len(journal') = n + 1
      /\ \A k \in 1..n : journal'[k] = journal[k]
      /\ journal'[n + 1] = pending
  BY <1>1, AppendProperties
<1>5. journal' # <<>>
  BY <1>1, <1>4, EmptySeq
<1>6. redone' = Append(redone, r)
  BY <1>2
<1> HIDE DEF r
<1>7. /\ redone' \in Seq(Trees \cup {NoTree}) /\ Len(redone') = n + 2
      /\ \A k \in 1..(n + 1) : redone'[k] = redone[k]
      /\ redone'[n + 2] = r
  BY <1>1, <1>2, <1>3, <1>6, AppendProperties
<1> HIDE DEF n
<1>8. ASSUME NEW k \in 1..(n + 2), redone'[k] # NoTree PROVE IsTree(redone'[k])
  <2>1. CASE k = n + 2
    <3>1. redone'[k] = r
      BY <1>7, <2>1
    <3> QED
      BY <1>3, <1>8, <3>1
  <2>2. CASE k \in 1..(n + 1)
    <3>1. redone[k] # NoTree => IsTree(redone[k])
      BY <1>2, <2>2 DEF FuseInv, Working
    <3>2. redone'[k] = redone[k]
      BY <1>7, <2>2
    <3> QED
      BY <1>8, <3>1, <3>2
  <2>3. k = n + 2 \/ k \in 1..(n + 1)
    BY <1>1
  <2> QED
    BY <2>1, <2>2, <2>3
<1>9. \A k \in 0..n : Blinded(k)' <=> Blinded(k)
  <2> TAKE k \in 0..n
  <2>1. \A j \in 1..k : journal'[j] = journal[j]
    BY <1>1, <1>4
  <2> QED
    BY <2>1 DEF Blinded
<1>10. (\E j \in 1..(n + 1) : Blind(journal'[j])) <=> Blinded(n) \/ Blind(pending)
  <2>1. 1..(n + 1) = 1..n \cup {n + 1}
    BY <1>1
  <2>2. (\E j \in 1..n : Blind(journal'[j])) <=> Blinded(n)
    BY <1>4 DEF Blinded
  <2> QED
    BY <1>4, <2>1, <2>2
<1> QED
  BY <1>1, <1>4, <1>5, <1>7, <1>8, <1>9, <1>10 DEF n, r

\* An event that can be read back: the version it makes looks like the workspace.
LEMMA LoggedStep ==
    ASSUME FuseInv, replay.pc = "idle", stage = "record", Recordable, Logged,
           UNCHANGED <<tree, compacted, ckpts, objects, torn, head, replay, sound, collected, ops>>,
           tail' \in {"line", "open"}, mode' \in {"keep", "ro", "rw"},
           \/ stage' = "idle" /\ pending' = NoEvent /\ rbase' = rbase
           \/ stage' = "mode" /\ pending' = pending /\ rbase' = rbase
           \/ stage' = "down" /\ pending' = NoEvent /\ rbase' = 0
    PROVE  Working' /\ Storing' /\ Versioned' /\ Stored' /\ Tracking' /\ Replaying'
<1> DEFINE n == Len(journal)
<1>1. /\ ~compacted /\ (journal = <<>> \/ jbase = rbase)
      /\ journal' = Append(journal, pending) /\ jbase' = rbase
      /\ redone' = Append(redone, Redo(Last(redone), pending))
  BY DEF Logged, Recordable
<1>2. /\ pending \in Events /\ n \in Nat
      /\ journal' \in Seq(Events) /\ Len(journal') = n + 1 /\ journal' # <<>>
      /\ \A k \in 1..n : journal'[k] = journal[k]
      /\ journal'[n + 1] = pending
      /\ redone' \in Seq(Trees \cup {NoTree}) /\ Len(redone') = n + 2
      /\ \A k \in 1..(n + 1) : redone'[k] = redone[k]
      /\ redone'[n + 2] = Redo(Version, pending)
      /\ \A k \in 1..(n + 2) : redone'[k] # NoTree => IsTree(redone'[k])
      /\ \A k \in 0..n : Blinded(k)' <=> Blinded(k)
      /\ (\E j \in 1..(n + 1) : Blind(journal'[j])) <=> Blinded(n) \/ Blind(pending)
  BY <1>1, RecordedFacts DEF Applying
<1>3. rbase # 0 /\ (journal = <<>> => ckpts[rbase] = redone[1])
  BY DEF FuseInv, Versioned
<1>4. Working'
  <2>1. ops' = ops /\ n + 1 <= ops
    BY <1>2, FuseAssumptions DEF FuseInv, Working
  <2>2. pending # NoEvent
    BY <1>2, EventFacts
  <2> HIDE DEF n
  <2> QED
    BY <1>1, <1>2, <2>1, <2>2 DEF FuseInv, Working
<1>5. Storing'
  <2>1. rbase' \in 0..Len(ckpts) /\ jbase' \in 0..Len(ckpts)
    BY <1>1, LenProperties DEF FuseInv, Storing
  <2> QED
    BY <1>1, <1>2, <2>1 DEF FuseInv, Storing
<1>6. ~Applying' /\ Applying
  BY DEF Applying
<1>7. Seeing' => /\ ~Lost /\ ~Blinded(n) /\ ~Blind(pending) /\ Seeing
                 /\ Version \in Trees /\ Repeats(Walked(tree), Version, pending)
  <2>1. Blinded(Len(journal))' <=> \E j \in 1..(n + 1) : Blind(journal'[j])
    BY <1>2 DEF Blinded
  <2>2. Seeing' => ~Lost /\ ~Blinded(n) /\ ~Blind(pending)
    BY <1>1, <1>2, <2>1 DEF Seeing, Lost
  <2> QED
    BY <1>1, <1>6, <2>2 DEF FuseInv, Tracking, Seeing
<1>8. Seeing' => /\ redone'[n + 2] = Apply(Version, pending) /\ redone'[n + 2] \in Trees
                 /\ Like(Walked(tree), redone'[n + 2])
  <2>1. ASSUME Version \in Trees, Repeats(Walked(tree), Version, pending)
        PROVE  /\ redone'[n + 2] = Apply(Version, pending) /\ redone'[n + 2] \in Trees
               /\ Like(Walked(tree), redone'[n + 2])
    <3>1. Version # NoTree /\ IsTree(Version)
      BY <2>1, VersionFacts DEF FuseInv
    <3>2. Redo(Version, pending) = Apply(Version, pending) /\ Redo(Version, pending) \in Trees
      BY <1>2, <2>1, <3>1, RedoTree DEF Repeats
    <3> QED
      BY <1>2, <2>1, <3>2 DEF Repeats
  <2> QED
    BY <1>7, <2>1
<1>9. Tracking'
  <2>1. Version' = redone'[n + 2]
    <3>1. (n + 1) + 1 = n + 2
      BY <1>2
    <3> QED
      BY <1>2, <3>1 DEF Version
  <2> QED
    BY <1>6, <1>8, <2>1 DEF Tracking
<1>10. Versioned'
  <2>1. ASSUME NEW k \in 0..(n + 1), ~Blinded(k)', k <= sound
        PROVE  redone'[k + 1] # NoTree
    <3>1. CASE k \in 0..n
      <4>1. redone[k + 1] # NoTree
        BY <1>2, <2>1, <3>1 DEF FuseInv, Versioned
      <4>2. k + 1 \in 1..(n + 1)
        BY <1>2, <3>1
      <4> QED
        BY <1>2, <4>1, <4>2
    <3>2. CASE k = n + 1
      <4>1. ~Lost
        <5>1. Lost => sound <= n
          BY DEF FuseInv, Versioned
        <5>2. sound \in Nat
          BY DEF FuseInv, Counting
        <5> QED
          BY <1>2, <2>1, <3>2, <5>1, <5>2
      <4>2. ~Blinded(Len(journal))'
        BY <1>2, <2>1, <3>2
      <4>3. Seeing'
        BY <1>1, <4>1, <4>2 DEF Seeing, Lost
      <4>4. redone'[n + 2] \in Trees
        BY <1>8, <4>3
      <4>5. k + 1 = n + 2
        BY <1>2, <3>2
      <4> QED
        BY <4>4, <4>5, FuseAssumptions
    <3> QED
      BY <1>2, <3>1, <3>2
  <2>2. ASSUME NEW k \in 1..(n + 1)
        PROVE  redone'[k + 1] = Redo(redone'[k], journal'[k])
    <3>1. CASE k \in 1..n
      <4>1. k + 1 \in 1..(n + 1) /\ k \in 1..(n + 1)
        BY <1>2, <3>1
      <4>2. redone[k + 1] = Redo(redone[k], journal[k])
        BY <3>1 DEF FuseInv, Versioned
      <4> QED
        BY <1>2, <3>1, <4>1, <4>2
    <3>2. CASE k = n + 1
      <4>1. k + 1 = n + 2 /\ n + 1 \in 1..(n + 1)
        BY <1>2, <3>2
      <4>2. redone'[n + 1] = Version
        BY <1>2, <4>1 DEF Version
      <4> QED
        BY <1>2, <3>2, <4>1, <4>2
    <3> QED
      BY <1>2, <3>1, <3>2
  <2>3. jbase' # 0 /\ ckpts'[jbase'] = redone'[1] /\ (stage' \notin {"down", "mount"} => rbase' # 0)
    <3>1. 1 \in 1..(n + 1)
      BY <1>2
    <3>2. ckpts[rbase] = redone[1]
      BY <1>1, <1>3 DEF FuseInv, Versioned
    <3> QED
      BY <1>1, <1>2, <1>3, <3>1, <3>2
  <2>4. Lost' => sound' <= Len(journal')
    <3>1. Lost' <=> Lost
      BY <1>1 DEF Lost
    <3>2. sound \in Nat
      BY DEF FuseInv, Counting
    <3> QED
      BY <1>1, <1>2, <3>1, <3>2 DEF FuseInv, Versioned
  <2>5. Len(journal') = n + 1 /\ journal' # <<>> /\ sound' = sound
    BY <1>1, <1>2
  <2> HIDE DEF n
  <2> QED
    BY <2>1, <2>2, <2>3, <2>4, <2>5 DEF Versioned
<1>11. Stored'
  <2>1. WritesOf(journal)' \subseteq InHand
    <3> SUFFICES ASSUME NEW k \in DOMAIN journal', journal'[k].op = "write"
                 PROVE  journal'[k].data \in InHand
      BY DEF WritesOf
    <3>1. DOMAIN journal = 1..n /\ k \in 1..(n + 1)
      BY <1>2, LenProperties DEF FuseInv, Working
    <3>2. CASE k \in 1..n
      BY <1>2, <3>1, <3>2 DEF InHand, WritesOf
    <3>3. CASE k = n + 1
      BY <1>2, <3>3 DEF InHand, Payload
    <3> QED
      BY <1>2, <3>1, <3>2, <3>3
  <2>2. Referenced' = Referenced
    BY DEF Referenced
  <2> QED
    BY <2>1, <2>2, StoreKeeps DEF FuseInv
<1>12. Replaying'
  BY DEF FuseInv, Replaying, ReplayFailsOnly
<1> QED
  BY <1>4, <1>5, <1>9, <1>10, <1>11, <1>12

\* The reply, which puts a new file in the table.
LEMMA RepliedStep ==
    ASSUME FuseInv, Applying, Replied
    PROVE  /\ Named' /\ Alive' /\ mode' \in {"keep", "ro", "rw"}
           /\ \/ stage' = "idle" /\ pending' = NoEvent
              \/ stage' = "mode" /\ pending' = pending
<1>1. /\ mode' \in {"keep", "ro", "rw"}
      /\ \/ stage' = "idle" /\ pending' = NoEvent
         \/ stage' = "mode" /\ pending' = pending
  BY DEF Replied, Answer, FuseInv, Working
<1>2. Named'
  <2>1. CASE pending.op \in {"create", "mkdir"}
    <3> DEFINE p == pending.path
    <3>1. p \in Paths /\ Room(p) /\ Remember(p) /\ HandOut(p)
      BY <2>1, EventFacts, PayloadBytes DEF FuseInv, Alive, Replied
    <3> HIDE DEF p
    <3> QED
      BY <3>1, RememberStep DEF FuseInv
  <2>2. CASE pending.op \notin {"create", "mkdir"}
    <3>1. UNCHANGED <<byIno, byPath, nextIno, meant, strayed>>
      BY <2>2 DEF Replied, table, clients
    <3> QED
      BY <3>1 DEF FuseInv, Named
  <2> QED
    BY <2>1, <2>2
<1>3. Alive'
  BY <1>1 DEF Alive, Applying
<1> QED
  BY <1>1, <1>2, <1>3

\* An event is recorded.
LEMMA RecordStep ==
    ASSUME FuseInv, replay.pc = "idle", Record
    PROVE  FuseInv'
<1>1. /\ stage = "record" /\ Recordable /\ Logged /\ tail' = "line" /\ Replied
      /\ UNCHANGED <<tree, rbase, compacted, ckpts, objects, torn, head, replay, sound, collected, mounts, ops,
                     upsets>>
  BY DEF Record, backing, store, history
<1>2. /\ Named' /\ Alive' /\ mode' \in {"keep", "ro", "rw"}
      /\ \/ stage' = "idle" /\ pending' = NoEvent
         \/ stage' = "mode" /\ pending' = pending
  BY <1>1, RepliedStep DEF Applying
<1>3. Working' /\ Storing' /\ Versioned' /\ Stored' /\ Tracking' /\ Replaying'
  BY <1>1, <1>2, LoggedStep
<1>4. Counting'
  BY <1>1 DEF FuseInv, Counting
<1> QED
  BY <1>2, <1>3, <1>4 DEF FuseInv

\* An event that is not recorded, after which the handler ends.
LEMMA MissedStep ==
    ASSUME FuseInv, replay.pc = "idle", Applying, Loses,
           UNCHANGED <<tree, journal, jbase, redone, compacted, ckpts, objects, head, replay, collected, ops>>,
           \/ tail' = tail \/ tail' = "torn" \/ (tail = "none" /\ tail' = "line"),
           torn' = torn \/ torn' = torn \cup (Payload \ objects),
           mode' \in {"keep", "ro", "rw"},
           \/ stage' = "idle" /\ pending' = NoEvent /\ rbase' = rbase
           \/ stage' = "mode" /\ pending' = pending /\ rbase' = rbase
           \/ stage' = "down" /\ pending' = NoEvent /\ rbase' = 0
    PROVE  /\ Working' /\ Storing' /\ Versioned' /\ Stored' /\ Tracking' /\ Replaying'
           /\ sound' \in 0..AllSound
<1>1. Versioned' /\ Tracking' /\ Replaying' /\ sound' \in 0..AllSound
  <2>1. stage \notin {"down", "mount"}
    BY DEF Applying
  <2> QED
    BY <2>1, KeptStep
<1>2. Working'
  <2>1. pending # NoEvent
    BY PayloadBytes, EventFacts DEF FuseInv
  <2> QED
    BY <2>1 DEF FuseInv, Working
<1>3. Storing'
  <2>1. rbase' \in 0..Len(ckpts)
    BY LenProperties DEF FuseInv, Storing
  <2>2. torn' \subseteq Seq(Bytes \cup {Zero}) /\ objects \cap torn' = {}
    BY PayloadBytes DEF FuseInv, Storing
  <2>3. tail' \in {"none", "line", "open", "torn"} /\ (tail # "none" => tail' # "none")
    BY DEF FuseInv, Storing
  <2> QED
    BY <2>1, <2>2, <2>3 DEF FuseInv, Storing
<1>4. Stored'
  <2>1. stage' # "record" /\ stage' # "mount" /\ torn \subseteq torn'
    OBVIOUS
  <2> QED
    BY <2>1, StoreStays DEF FuseInv
<1> QED
  BY <1>1, <1>2, <1>3, <1>4

\* The event is put behind one without a newline, and neither can be read.
LEMMA RecordGluedStep ==
    ASSUME FuseInv, replay.pc = "idle", RecordGlued
    PROVE  FuseInv'
<1>1. /\ stage = "record" /\ tail' = "torn" /\ Loses /\ Replied
      /\ UNCHANGED <<tree, rbase, journal, jbase, redone, compacted, ckpts, objects, torn, head, replay,
                     collected, mounts, ops, upsets>>
  BY DEF RecordGlued, backing, store
<1>2. Applying
  BY <1>1 DEF Applying
<1>3. /\ Named' /\ Alive' /\ mode' \in {"keep", "ro", "rw"}
      /\ \/ stage' = "idle" /\ pending' = NoEvent
         \/ stage' = "mode" /\ pending' = pending
  BY <1>1, <1>2, RepliedStep
<1>4. /\ Working' /\ Storing' /\ Versioned' /\ Stored' /\ Tracking' /\ Replaying'
      /\ sound' \in 0..AllSound
  BY <1>1, <1>2, <1>3, MissedStep
<1>5. Counting'
  BY <1>1, <1>4 DEF FuseInv, Counting
<1> QED
  BY <1>3, <1>4, <1>5 DEF FuseInv

\* What is left of an event that an error or a death has cut short.
LEMMA InterruptedStep ==
    ASSUME FuseInv, replay.pc = "idle", Interrupted,
           UNCHANGED <<tree, compacted, ckpts, objects, head, replay, collected, ops>>,
           mode' = "keep", pending' = NoEvent,
           \/ stage' = "idle" /\ rbase' = rbase
           \/ stage' = "down" /\ rbase' = 0
    PROVE  /\ Working' /\ Storing' /\ Versioned' /\ Stored' /\ Tracking' /\ Replaying'
           /\ sound' \in 0..AllSound
<1>1. CASE /\ stage = "store" /\ Loses /\ torn' \in {torn, torn \cup (Payload \ objects)}
           /\ UNCHANGED <<journal, jbase, tail, redone>>
  BY <1>1, MissedStep DEF Applying
<1>2. CASE /\ stage = "record" /\ Loses
           /\ tail' \in {tail} \cup
                (IF Recordable THEN {"torn", IF tail = "none" THEN "line" ELSE tail} ELSE {})
           /\ UNCHANGED <<journal, jbase, redone, torn>>
  <2>1. tail' = tail \/ tail' = "torn" \/ (tail = "none" /\ tail' = "line")
    BY <1>2
  <2> QED
    BY <1>2, <2>1, MissedStep DEF Applying
<1>3. CASE stage = "record" /\ Recordable /\ Logged /\ tail' = "open" /\ UNCHANGED <<torn, sound>>
  <2>1. sound' \in 0..AllSound
    BY <1>3 DEF FuseInv, Counting
  <2> QED
    BY <1>3, <2>1, LoggedStep
<1> QED
  BY <1>1, <1>2, <1>3 DEF Interrupted

\* A change whose event meets an I/O error.
LEMMA RecordFailsStep ==
    ASSUME FuseInv, replay.pc = "idle", RecordFails
    PROVE  FuseInv'
<1>1. /\ stage \in {"store", "record"} /\ Interrupted
      /\ stage' = "idle" /\ pending' = NoEvent /\ mode' = "keep"
      /\ upsets < MaxUpsets /\ upsets' = upsets + 1
      /\ UNCHANGED <<tree, byIno, byPath, nextIno, rbase, compacted, ckpts, objects, head, replay,
                     meant, strayed, collected, mounts, ops>>
  BY DEF RecordFails, Answer, backing, table, clients
<1>2. /\ Working' /\ Storing' /\ Versioned' /\ Stored' /\ Tracking' /\ Replaying'
      /\ sound' \in 0..AllSound
  BY <1>1, InterruptedStep
<1>3. Counting'
  BY <1>1, <1>2, FuseAssumptions DEF FuseInv, Counting
<1>4. Named' /\ Alive'
  BY <1>1 DEF FuseInv, Named, Alive, Applying
<1> QED
  BY <1>2, <1>3, <1>4 DEF FuseInv

\* A change whose event is refused.
LEMMA RecordRefusedStep ==
    ASSUME FuseInv, replay.pc = "idle", RecordRefused
    PROVE  FuseInv'
<1>1. /\ stage = "record" /\ Loses /\ stage' = "idle" /\ pending' = NoEvent /\ mode' = "keep"
      /\ UNCHANGED <<tree, byIno, byPath, nextIno, rbase, journal, jbase, compacted, tail, redone, ckpts,
                     objects, torn, head, replay, meant, strayed, collected, mounts, ops, upsets>>
  BY DEF RecordRefused, Answer, backing, table, log, store, clients
<1>2. /\ Working' /\ Storing' /\ Versioned' /\ Stored' /\ Tracking' /\ Replaying'
      /\ sound' \in 0..AllSound
  BY <1>1, MissedStep DEF Applying
<1>3. Counting'
  BY <1>1, <1>2 DEF FuseInv, Counting
<1>4. Named' /\ Alive'
  BY <1>1 DEF FuseInv, Named, Alive, Applying
<1> QED
  BY <1>2, <1>3, <1>4 DEF FuseInv

\* An adapter that dies may leave a change without its event.
LEMMA DieStep ==
    ASSUME FuseInv, replay.pc = "idle", Die
    PROVE  FuseInv'
<1>1. /\ stage # "down" /\ Ends /\ upsets < MaxUpsets /\ upsets' = upsets + 1
      /\ IF stage \in {"store", "record"} THEN Interrupted
         ELSE UNCHANGED <<journal, jbase, tail, redone, torn, sound>>
      /\ UNCHANGED <<tree, compacted, ckpts, objects, head, replay, collected, mounts, ops>>
  BY DEF Die, backing
<1>2. Named' /\ Alive' /\ ~Applying' /\ stage' = "down" /\ pending' = NoEvent /\ mode' = "keep" /\ rbase' = 0
  BY <1>1, EndsStep
<1>3. /\ Working' /\ Storing' /\ Versioned' /\ Stored' /\ Tracking' /\ Replaying'
      /\ sound' \in 0..AllSound
  <2>1. CASE stage \in {"store", "record"}
    BY <1>1, <1>2, <2>1, InterruptedStep
  <2>2. CASE stage \notin {"store", "record"}
    <3>1. UNCHANGED <<journal, jbase, tail, redone, torn, sound>> /\ ~Applying
      BY <1>1, <2>2 DEF Applying
    <3>2. Versioned' /\ Tracking' /\ Replaying' /\ sound' \in 0..AllSound
      BY <1>1, <1>2, <3>1, KeptStep
    <3>3. Working'
      BY <1>1, <1>2, <3>1 DEF FuseInv, Working
    <3>4. Storing'
      BY <1>1, <1>2, <3>1, LenProperties DEF FuseInv, Storing
    <3>5. Stored'
      BY <1>1, <1>2, <3>1, StoreStays DEF FuseInv
    <3> QED
      BY <3>2, <3>3, <3>4, <3>5
  <2> QED
    BY <2>1, <2>2
<1>4. Counting'
  BY <1>1, <1>3, FuseAssumptions DEF FuseInv, Counting
<1> QED
  BY <1>2, <1>3, <1>4 DEF FuseInv

-----------------------------------------------------------------------------
(* Other processes. *)

\* A commit closes the journal and leaves its events.
LEMMA CommitStep ==
    ASSUME FuseInv, replay.pc = "idle", NEW c \in DOMAIN ckpts, Commit(c)
    PROVE  FuseInv'
<1>1. /\ head' = c /\ compacted' = (compacted \/ tail # "none")
      /\ upsets' = upsets + 1 /\ upsets < MaxUpsets
      /\ UNCHANGED <<tree, byIno, byPath, nextIno, stage, pending, mode, rbase, journal, jbase, tail,
                     redone, ckpts, objects, torn, replay, meant, strayed, sound, collected, mounts, ops>>
  BY DEF Commit, backing, table, call, clients
<1>2. c \in 1..Len(ckpts)
  BY LenProperties DEF FuseInv, Storing
<1>3. Working' /\ Named' /\ Alive'
  BY <1>1 DEF FuseInv, Working, Named, Alive, Room, Applying
<1>4. Storing'
  <2>1. compacted' \in BOOLEAN /\ (compacted' => tail # "none")
    BY <1>1 DEF FuseInv, Storing
  <2>2. head' \in 0..Len(ckpts')
    BY <1>1, <1>2
  <2> QED
    BY <1>1, <2>1, <2>2 DEF FuseInv, Storing
<1>5. Counting'
  BY <1>1, FuseAssumptions DEF FuseInv, Counting
<1>6. Applying' <=> Applying
  BY <1>1 DEF Applying
<1>7. Versioned' /\ Tracking' /\ Replaying'
  BY <1>1, <1>6, KeptStep
<1>8. Stored'
  BY <1>1, StoreStays DEF FuseInv
<1> QED
  BY <1>3, <1>4, <1>5, <1>7, <1>8 DEF FuseInv

\* The base of a journal that has events is a checkpoint.
LEMMA BaseFacts ==
    ASSUME FuseInv, journal # <<>>
    PROVE  /\ jbase \in DOMAIN ckpts /\ ckpts[jbase] = redone[1] /\ redone[1] \in Trees
           /\ ContentsOf(ckpts[jbase]) \subseteq Referenced
<1>1. jbase \in 1..Len(ckpts) /\ DOMAIN ckpts = 1..Len(ckpts) /\ ckpts[jbase] = redone[1]
  <2>1. Len(ckpts) \in Nat /\ DOMAIN ckpts = 1..Len(ckpts)
    BY LenProperties DEF FuseInv, Storing
  <2> QED
    BY <2>1 DEF FuseInv, Storing, Versioned
<1>2. ckpts[jbase] \in Trees
  BY <1>1, ElementOfSeq DEF FuseInv, Storing
<1> QED
  BY <1>1, <1>2 DEF Referenced

\* The writes of a prefix are writes of the journal.
LEMMA PrefixWrites ==
    ASSUME FuseInv, NEW n \in 0..Len(journal)
    PROVE  /\ SubSeq(journal, 1, n) \in Seq(Events) /\ Len(SubSeq(journal, 1, n)) = n
           /\ \A i \in 1..n : SubSeq(journal, 1, n)[i] = journal[i]
           /\ WritesOf(SubSeq(journal, 1, n)) \subseteq WritesOf(journal)
           /\ \A i \in 1..n : journal[i].op = "write" =>
                journal[i].data \in WritesOf(SubSeq(journal, 1, n))
<1>1. journal \in Seq(Events) /\ Len(journal) \in Nat /\ DOMAIN journal = 1..Len(journal)
  BY LenProperties DEF FuseInv, Working
<1>2. \A i \in 1..n : journal[i] \in Events
  BY <1>1, ElementOfSeq
<1>3. SubSeq(journal, 1, n) \in Seq(Events) /\ Len(SubSeq(journal, 1, n)) = n
  <2>1. CASE n = 0
    BY <1>1, <1>2, <2>1, SubSeqProperties
  <2>2. CASE n # 0
    BY <1>1, <1>2, <2>2, SubSeqProperties
  <2> QED
    BY <2>1, <2>2
<1>4. \A i \in 1..n : SubSeq(journal, 1, n)[i] = journal[i]
  BY <1>1, <1>2, <1>3, SubSeqProperties
<1>5. DOMAIN SubSeq(journal, 1, n) = 1..n
  BY <1>3, LenProperties
<1> DEFINE a == SubSeq(journal, 1, n)
<1> HIDE DEF a
<1>6. WritesOf(a) \subseteq WritesOf(journal)
  <2>1. ASSUME NEW i \in DOMAIN a, a[i].op = "write" PROVE a[i].data \in WritesOf(journal)
    <3>1. i \in DOMAIN journal /\ a[i] = journal[i]
      BY <1>1, <1>4, <1>5 DEF a
    <3> QED
      BY <2>1, <3>1 DEF WritesOf
  <2> QED
    BY <2>1 DEF WritesOf
<1>7. \A i \in 1..n : journal[i].op = "write" => journal[i].data \in WritesOf(a)
  <2> TAKE i \in 1..n
  <2>1. i \in DOMAIN a /\ a[i] = journal[i]
    BY <1>4, <1>5 DEF a
  <2> QED
    BY <2>1 DEF WritesOf
<1> QED
  BY <1>3, <1>4, <1>6, <1>7 DEF a

\* A collection takes what is in hand, or is remembered.
LEMMA GcStep ==
    ASSUME FuseInv, Gc
    PROVE  FuseInv'
<1>1. /\ objects' = objects \cap Referenced /\ torn' = torn \cap Referenced
      /\ collected' = (collected \/ ~(InHand \subseteq Referenced))
      /\ upsets' = upsets + 1 /\ upsets < MaxUpsets
      /\ UNCHANGED <<tree, byIno, byPath, nextIno, stage, pending, mode, rbase, journal, jbase,
                     compacted, tail, redone, ckpts, head, replay, meant, strayed, sound, mounts, ops>>
  BY DEF Gc, backing, table, call, log, clients
<1>2. Working' /\ Named' /\ Alive'
  BY <1>1 DEF FuseInv, Working, Named, Alive, Room, Applying
<1>3. Storing'
  BY <1>1 DEF FuseInv, Storing
<1>4. Counting'
  <2>1. collected' \in BOOLEAN
    BY <1>1
  <2> QED
    BY <1>1, <2>1, FuseAssumptions DEF FuseInv, Counting
<1>5. /\ collected => collected'
      /\ ~collected' => InHand \subseteq Referenced /\ InHand \cup Referenced \subseteq objects \cup torn
  BY <1>1 DEF FuseInv, Stored
<1>6. InHand' = InHand /\ Referenced' = Referenced
  BY <1>1 DEF InHand, Referenced, Payload
<1>7. Stored'
  BY <1>1, <1>5, <1>6 DEF Stored
<1>8. Versioned' /\ Tracking'
  BY <1>1 DEF FuseInv, Versioned, Tracking, Seeing, Blinded, Lost, Version, Applying
<1>9. BaseTorn' <=> BaseTorn
  <2>1. journal # <<>> => ContentsOf(ckpts[jbase]) \subseteq Referenced
    BY BaseFacts
  <2> QED
    BY <1>1, <2>1 DEF BaseTorn
<1>10. replay.pc = "failed" /\ PayloadTorn(replay.upto) => collected' \/ PayloadTorn(replay.upto)'
  <2> SUFFICES ASSUME replay.pc = "failed", PayloadTorn(replay.upto), ~collected'
               PROVE  PayloadTorn(replay.upto)'
    OBVIOUS
  <2>1. replay.upto \in 0..Len(journal)
    BY DEF FuseInv, Replaying
  <2>2. WritesOf(SubSeq(journal, 1, replay.upto)) \subseteq WritesOf(journal)
    BY <2>1, PrefixWrites
  <2>3. WritesOf(journal) \subseteq Referenced
    BY <1>5 DEF InHand
  <2> QED
    BY <1>1, <2>2, <2>3 DEF PayloadTorn
<1>11. Replaying'
  <2>1. ReplayFailsOnly'
    BY <1>1, <1>5, <1>10 DEF FuseInv, Replaying, ReplayFailsOnly, Blinded
  <2> QED
    BY <1>1, <1>9, <2>1 DEF FuseInv, Replaying
<1> QED
  BY <1>2, <1>3, <1>4, <1>7, <1>8, <1>11 DEF FuseInv

-----------------------------------------------------------------------------
(* Replays. *)

\* A replay changes nothing but itself.
LEMMA ReplayFrame ==
    ASSUME FuseInv, UNCHANGED <<backing, table, call, log, store, clients, history>>, Replaying'
    PROVE  FuseInv'
<1>1. UNCHANGED <<tree, byIno, byPath, nextIno, stage, pending, mode, rbase, journal, jbase,
                  compacted, tail, redone, ckpts, objects, torn, head, meant, strayed, sound, collected,
                  mounts, ops, upsets>>
  BY DEF backing, table, call, log, store, clients, history
<1>2. Working' /\ Named' /\ Alive'
  BY <1>1 DEF FuseInv, Working, Named, Alive, Room, Applying
<1>3. Storing' /\ Counting'
  BY <1>1 DEF FuseInv, Storing, Counting
<1>4. Versioned' /\ Tracking'
  BY <1>1 DEF FuseInv, Versioned, Tracking, Seeing, Blinded, Lost, Version, Applying
<1>5. Stored'
  BY <1>1, StoreStays DEF FuseInv
<1> QED
  BY <1>2, <1>3, <1>4, <1>5 DEF FuseInv

\* materialize gives the nodes of the checkpoint, with their contents if none of
\* them is torn.
LEMMA MaterializedFacts ==
    ASSUME NEW c \in DOMAIN ckpts, ckpts[c] \in Trees
    PROVE  /\ Materialized(c) \in Trees /\ Shaped(ckpts[c], Materialized(c))
           /\ ContentsOf(ckpts[c]) \cap torn = {} => Materialized(c) = ckpts[c]
<1> DEFINE t == ckpts[c]
           m == Materialized(c)
<1>1. <<>> \in Seq(Bytes \cup {Zero})
  BY EmptySeq
<1>2. \A p \in Paths : m[p] = IF t[p].kind = "file" /\ t[p].data \in torn
                              THEN File(<<>>, t[p].ro) ELSE t[p]
  BY DEF Materialized
<1>3. m = [p \in Paths |-> m[p]]
  BY DEF Materialized
<1>4. ContentsOf(t) \cap torn = {} => \A p \in Paths : ~(t[p].kind = "file" /\ t[p].data \in torn)
  BY DEF ContentsOf
<1> HIDE DEF m, t
<1>5. t \in Trees
  BY DEF t
<1>6. ASSUME NEW p \in Paths
      PROVE  m[p] \in Nodes /\ m[p].kind = t[p].kind /\ m[p].ro = t[p].ro
  <2>1. t[p] \in Nodes /\ t[p].ro \in BOOLEAN
    BY <1>5, NodeFacts
  <2>2. /\ File(<<>>, t[p].ro) \in Nodes /\ File(<<>>, t[p].ro).kind = "file"
        /\ File(<<>>, t[p].ro).ro = t[p].ro
    BY <1>1, <2>1, MadeNodes
  <2> QED
    BY <1>2, <2>1, <2>2
<1>7. m \in Trees
  BY <1>3, <1>6 DEF Trees
<1>8. Shaped(t, m)
  BY <1>6 DEF Shaped
<1>9. ContentsOf(t) \cap torn = {} => m = t
  <2>1. t = [p \in Paths |-> t[p]]
    BY <1>5 DEF Trees
  <2> QED
    BY <1>2, <1>3, <1>4, <2>1
<1> QED
  BY <1>7, <1>8, <1>9 DEF m, t

\* A replay begins at the first version, or what is left of it, unless the journal
\* cannot be read or gc has taken an object of its base.
LEMMA ReplayStartFacts ==
    ASSUME FuseInv, NEW n, ReplayStart(n)
    PROVE  /\ n \in 0..Len(journal)
           /\ \/ /\ replay' = [pc |-> "apply", upto |-> n, todo |-> SubSeq(journal, 1, n),
                               dest |-> Materialized(jbase)]
                 /\ journal # <<>> /\ redone[1] \in Trees /\ Materialized(jbase) \in Trees
                 /\ Shaped(redone[1], Materialized(jbase))
                 /\ ~BaseTorn => Materialized(jbase) = redone[1]
              \/ /\ replay' = [NoReplay EXCEPT !.pc = "failed", !.upto = n]
                 /\ tail = "torn" \/ collected
<1>1. /\ n \in 0..Len(journal) /\ (journal # <<>> \/ tail = "torn")
      /\ replay' = IF tail # "torn" /\ ContentsOf(ckpts[jbase]) \subseteq objects \cup torn
                   THEN [pc |-> "apply", upto |-> n, todo |-> SubSeq(journal, 1, n),
                         dest |-> Materialized(jbase)]
                   ELSE [NoReplay EXCEPT !.pc = "failed", !.upto = n]
  BY DEF ReplayStart
<1>2. CASE tail = "torn"
  BY <1>1, <1>2
<1>3. CASE tail # "torn"
  <2>1. journal # <<>>
    BY <1>1, <1>3
  <2>2. /\ jbase \in DOMAIN ckpts /\ ckpts[jbase] = redone[1] /\ redone[1] \in Trees
        /\ ContentsOf(ckpts[jbase]) \subseteq Referenced
    BY <2>1, BaseFacts
  <2>3. /\ Materialized(jbase) \in Trees /\ Shaped(redone[1], Materialized(jbase))
        /\ ~BaseTorn => Materialized(jbase) = redone[1]
    BY <2>1, <2>2, MaterializedFacts DEF BaseTorn
  <2>4. ~(ContentsOf(ckpts[jbase]) \subseteq objects \cup torn) => collected
    BY <2>2 DEF FuseInv, Stored
  <2> QED
    BY <1>1, <1>3, <2>1, <2>2, <2>3, <2>4
<1> QED
  BY <1>2, <1>3

\* The records of a replay.
LEMMA ReplayRecords ==
    /\ NoReplay \in [pc : {"idle", "apply", "failed"}, upto : Nat, todo : Seq(Events),
                     dest : Trees \cup {NoTree}]
    /\ NoReplay.pc = "idle"
<1>1. <<>> \in Seq(Events)
  BY EmptySeq
<1> QED
  BY <1>1 DEF NoReplay

\* A replay begins.
LEMMA ReplayStartStep ==
    ASSUME FuseInv, NEW n, ReplayStart(n)
    PROVE  FuseInv'
<1> DEFINE R == [pc : {"idle", "apply", "failed"}, upto : Nat, todo : Seq(Events),
                 dest : Trees \cup {NoTree}]
<1>1. /\ n \in 0..Len(journal)
      /\ \/ /\ replay' = [pc |-> "apply", upto |-> n, todo |-> SubSeq(journal, 1, n),
                          dest |-> Materialized(jbase)]
            /\ journal # <<>> /\ redone[1] \in Trees /\ Materialized(jbase) \in Trees
            /\ Shaped(redone[1], Materialized(jbase))
            /\ ~BaseTorn => Materialized(jbase) = redone[1]
         \/ /\ replay' = [NoReplay EXCEPT !.pc = "failed", !.upto = n]
            /\ tail = "torn" \/ collected
  BY ReplayStartFacts
<1>2. UNCHANGED <<backing, table, call, log, store, clients, history>>
  BY DEF ReplayStart
<1>3. /\ journal' = journal /\ redone' = redone /\ tail' = tail /\ collected' = collected
      /\ Len(journal) \in Nat /\ n \in Nat /\ (BaseTorn' <=> BaseTorn)
  BY <1>1, <1>2, VersionFacts DEF log, history, store, FuseInv, BaseTorn
<1>4. SubSeq(journal, 1, n) \in Seq(Events) /\ Len(SubSeq(journal, 1, n)) = n
  BY <1>1, PrefixWrites
<1>5. CASE /\ replay' = [pc |-> "apply", upto |-> n, todo |-> SubSeq(journal, 1, n),
                         dest |-> Materialized(jbase)]
           /\ journal # <<>> /\ redone[1] \in Trees /\ Materialized(jbase) \in Trees
           /\ Shaped(redone[1], Materialized(jbase))
           /\ ~BaseTorn => Materialized(jbase) = redone[1]
  <2>1. replay' \in R
    BY <1>3, <1>4, <1>5
  <2>2. /\ replay'.pc = "apply" /\ replay'.upto = n /\ replay'.todo = SubSeq(journal, 1, n)
        /\ Len(replay'.todo) = n /\ replay'.dest = Materialized(jbase) /\ n - n + 1 = 1
    BY <1>3, <1>4, <1>5
  <2>3. /\ replay'.upto - Len(replay'.todo) + 1 = 1
        /\ replay'.todo = SubSeq(journal', 1, replay'.upto) /\ Len(replay'.todo) <= replay'.upto
        /\ replay'.upto \in 0..Len(journal')
    BY <1>1, <1>3, <2>2
  <2>4. /\ replay'.dest \in Trees /\ redone'[1] \in Trees /\ Shaped(redone'[1], replay'.dest)
        /\ ~BaseTorn' => replay'.dest = redone'[1]
    BY <1>3, <1>5, <2>2
  <2>5. Replaying'
    BY <1>3, <1>5, <2>1, <2>2, <2>3, <2>4 DEF Replaying, ReplayFailsOnly
  <2> QED
    BY <1>2, <2>5, ReplayFrame
<1>6. CASE /\ replay' = [NoReplay EXCEPT !.pc = "failed", !.upto = n]
           /\ tail = "torn" \/ collected
  <2>1. replay' \in R /\ replay'.pc = "failed" /\ replay'.upto = n
    BY <1>3, <1>6, ReplayRecords
  <2>2. Replaying'
    BY <1>1, <1>3, <1>6, <2>1 DEF Replaying, ReplayFailsOnly
  <2> QED
    BY <1>2, <2>2, ReplayFrame
<1> QED
  BY <1>1, <1>5, <1>6

\* The event a replay has come to, and those left behind it.
LEMMA ReplayPlace ==
    ASSUME FuseInv, replay.pc = "apply", replay.todo # <<>>
    PROVE  LET k == replay.upto - Len(replay.todo) + 1
               n == Len(replay.todo) IN
           /\ n \in Nat \ {0} /\ replay.upto \in Nat /\ k \in 1..Len(journal) /\ k <= replay.upto
           /\ replay.upto - n = k - 1 /\ replay.upto - (n - 1) = k
           /\ Head(replay.todo) = journal[k] /\ journal[k] \in Events
           /\ replay.dest \in Trees /\ redone[k] \in Trees /\ IsTree(redone[k])
           /\ Shaped(redone[k], replay.dest) /\ (~BaseTorn => replay.dest = redone[k])
           /\ Tail(replay.todo) = SubSeq(journal, k + 1, replay.upto)
           /\ Tail(replay.todo) \in Seq(Events) /\ Len(Tail(replay.todo)) = n - 1
<1> DEFINE n == Len(replay.todo)
           m == replay.upto
           k == m - n + 1
<1>1. /\ replay.todo \in Seq(Events) /\ m \in 0..Len(journal) /\ n <= m
      /\ replay.todo = SubSeq(journal, k, m)
      /\ replay.dest \in Trees /\ redone[k] \in Trees
      /\ Shaped(redone[k], replay.dest) /\ (~BaseTorn => replay.dest = redone[k])
  BY DEF FuseInv, Replaying
<1>2. journal \in Seq(Events) /\ Len(journal) \in Nat
  BY VersionFacts DEF FuseInv, Working
<1>3. n \in Nat \ {0} /\ m \in Nat
  BY <1>1, <1>2, EmptySeq, LenProperties
<1> HIDE DEF n
<1>4. /\ k \in 1..Len(journal) /\ k <= m /\ m - n = k - 1 /\ m - (n - 1) = k
      /\ m <= Len(journal) /\ n = m - k + 1
  BY <1>1, <1>2, <1>3
<1> HIDE DEF m, k
<1>5. journal[k] \in Events /\ \A i \in k..m : journal[i] \in Events
  <2>1. \A i \in 1..Len(journal) : journal[i] \in Events
    BY <1>2, ElementOfSeq
  <2>2. \A i \in k..m : i \in 1..Len(journal)
    BY <1>2, <1>3, <1>4
  <2> QED
    BY <1>4, <2>1, <2>2
<1>6. replay.todo[1] = journal[k]
  <2>1. SubSeq(journal, k, m)[1] = journal[k]
    BY <1>2, <1>3, <1>4, <1>5, SubSeqProperties
  <2> QED
    BY <1>1, <2>1
<1>7. Head(replay.todo) = journal[k]
  BY <1>1, <1>6, HeadTailProperties
<1>8. /\ Tail(replay.todo) \in Seq(Events) /\ Len(Tail(replay.todo)) = n - 1
      /\ \A i \in 1..(n - 1) : Tail(replay.todo)[i] = replay.todo[i + 1]
  BY <1>1, HeadTailProperties DEF n
<1>9. Tail(replay.todo) = SubSeq(journal, k + 1, m)
  <2>1. /\ SubSeq(journal, k + 1, m) \in Seq(Events) /\ Len(SubSeq(journal, k + 1, m)) = n - 1
        /\ \A i \in 1..(n - 1) : SubSeq(journal, k + 1, m)[i] = journal[k + i]
    <3>1. \A i \in (k + 1)..m : journal[i] \in Events
      BY <1>4, <1>5
    <3>2. SubSeq(journal, k + 1, m) \in Seq(Events) /\ Len(SubSeq(journal, k + 1, m)) = n - 1
      BY <1>2, <1>3, <1>4, <3>1, SubSeqProperties
    <3>3. \A i \in 1..(n - 1) : SubSeq(journal, k + 1, m)[i] = journal[k + i]
      BY <1>2, <1>3, <1>4, <3>1, <3>2, SubSeqProperties
    <3> QED
      BY <3>2, <3>3
  <2>2. \A i \in 1..n : SubSeq(journal, k, m)[i] = journal[k + i - 1]
    BY <1>2, <1>3, <1>4, <1>5, SubSeqProperties
  <2>3. \A i \in 1..(n - 1) : replay.todo[i + 1] = journal[k + i]
    <3> TAKE i \in 1..(n - 1)
    <3>1. i + 1 \in 1..n /\ k + (i + 1) - 1 = k + i
      BY <1>3, <1>4
    <3> QED
      BY <1>1, <2>2, <3>1
  <2>4. \A i \in 1..Len(Tail(replay.todo)) : Tail(replay.todo)[i] = SubSeq(journal, k + 1, m)[i]
    BY <1>8, <2>1, <2>3
  <2>5. Len(Tail(replay.todo)) = Len(SubSeq(journal, k + 1, m))
    BY <1>8, <2>1
  <2> QED
    BY <1>8, <2>1, <2>4, <2>5, SeqEqual
<1>10. IsTree(redone[k])
  <2>1. k \in 1..(Len(journal) + 1) /\ redone[k] # NoTree
    BY <1>1, <1>2, <1>4, FuseAssumptions
  <2> QED
    BY <2>1, VersionFacts DEF FuseInv
<1> QED
  BY <1>1, <1>3, <1>4, <1>5, <1>7, <1>8, <1>9, <1>10 DEF n, m, k

\* Trees of one shape can have the same events applied, with the same objects.
LEMMA ShapedRedo ==
    ASSUME NEW t \in Trees, IsTree(t), NEW d \in Trees, Shaped(t, d), NEW e \in Events
    PROVE  /\ IsTree(d)
           /\ CanApply(d, e, {e.data}) <=> CanApply(t, e, {e.data})
           /\ CanApply(t, e, {e.data}) =>
                /\ Shaped(Apply(t, e), Apply(d, e)) /\ Apply(d, e) \in Trees
                /\ Redo(t, e) = Apply(t, e) /\ Redo(t, e) \in Trees
<1>1. Shaped(d, t)
  BY DEF Shaped
<1>2. IsTree(d)
  BY ShapedFacts, PathShape, TreeFacts
<1>3. CanApply(d, e, {e.data}) <=> CanApply(t, e, {e.data})
  BY <1>1, ShapedApply
<1>4. ASSUME CanApply(t, e, {e.data})
      PROVE  /\ Shaped(Apply(t, e), Apply(d, e)) /\ Apply(d, e) \in Trees
             /\ Redo(t, e) = Apply(t, e) /\ Redo(t, e) \in Trees
  <2>1. Shaped(Apply(t, e), Apply(d, e))
    BY <1>4, ShapedApply
  <2>2. Apply(d, e) \in Trees
    BY <1>2, <1>3, <1>4, AppliedTree
  <2>3. t # NoTree
    BY FuseAssumptions
  <2> QED
    BY <1>4, <2>1, <2>2, <2>3, RedoTree
<1> QED
  BY <1>2, <1>3, <1>4

\* An event that is applied gives the next version, as far as the base was whole;
\* one that is not was recorded behind a change that was not, or blindly, or has
\* lost its payload or part of it.
LEMMA ReplayEventFacts ==
    ASSUME FuseInv, ReplayEvent
    PROVE  LET k == replay.upto - Len(replay.todo) + 1
               e == journal[k] IN
           \/ /\ replay' = [replay EXCEPT !.todo = Tail(@), !.dest = Apply(@, e)]
              /\ Apply(replay.dest, e) \in Trees /\ redone[k + 1] \in Trees
              /\ Shaped(redone[k + 1], Apply(replay.dest, e))
              /\ ~BaseTorn => Apply(replay.dest, e) = redone[k + 1]
           \/ /\ replay' = [replay EXCEPT !.pc = "failed", !.todo = <<>>]
              /\ \/ collected \/ PayloadTorn(replay.upto)
                 \/ Blinded(replay.upto) \/ sound < replay.upto
<1> DEFINE k == replay.upto - Len(replay.todo) + 1
           e == journal[k]
           d == replay.dest
           t == redone[k]
<1>1. /\ replay.pc = "apply" /\ replay.todo # <<>>
      /\ replay' = IF CanApply(d, Head(replay.todo), objects)
                   THEN [replay EXCEPT !.todo = Tail(@), !.dest = Apply(@, Head(replay.todo))]
                   ELSE [replay EXCEPT !.pc = "failed", !.todo = <<>>]
  BY DEF ReplayEvent
<1>2. /\ replay.upto \in Nat /\ k \in 1..Len(journal) /\ k <= replay.upto
      /\ Head(replay.todo) = e /\ e \in Events
      /\ t \in Trees /\ IsTree(t) /\ d \in Trees /\ Shaped(t, d) /\ (~BaseTorn => d = t)
  BY <1>1, ReplayPlace
<1>3. redone[k + 1] = Redo(t, e) /\ Len(journal) \in Nat /\ replay.upto \in 0..Len(journal)
  BY <1>1, <1>2, VersionFacts DEF FuseInv, Versioned, Replaying
<1>4. /\ CanApply(d, e, {e.data}) <=> CanApply(t, e, {e.data})
      /\ CanApply(t, e, {e.data}) =>
           /\ Shaped(Apply(t, e), Apply(d, e)) /\ Apply(d, e) \in Trees
           /\ Redo(t, e) = Apply(t, e) /\ Redo(t, e) \in Trees
  <2> HIDE DEF k, d, t, e
  <2> QED
    BY <1>2, ShapedRedo
<1>5. ASSUME CanApply(d, e, objects)
      PROVE  /\ Apply(d, e) \in Trees /\ redone[k + 1] \in Trees
             /\ Shaped(redone[k + 1], Apply(d, e)) /\ (~BaseTorn => Apply(d, e) = redone[k + 1])
  <2> HIDE DEF k, d, t, e
  <2>1. CanApply(d, e, {e.data})
    BY <1>2, <1>5, Payloads DEF CanApply
  <2> QED
    BY <1>2, <1>3, <1>4, <2>1
<1>6. ASSUME ~collected, ~PayloadTorn(replay.upto), ~Blinded(replay.upto), ~(sound < replay.upto)
      PROVE  CanApply(d, e, objects)
  <2> HIDE DEF k, d, t
  <2>1. ~Blinded(k) /\ k <= sound
    <3>1. sound \in Nat
      BY DEF FuseInv, Counting
    <3>2. \A j \in 1..k : j \in 1..replay.upto
      BY <1>2
    <3> QED
      BY <1>2, <1>6, <3>1, <3>2 DEF Blinded
  <2>2. k \in 0..Len(journal)
    BY <1>2, <1>3
  <2>3. redone[k + 1] # NoTree
    BY <2>1, <2>2 DEF FuseInv, Versioned
  <2>4. e.op = "write" => e.data \in objects
    <3>1. e.op = "write" => e.data \in WritesOf(SubSeq(journal, 1, replay.upto))
      BY <1>2, <1>3, PrefixWrites
    <3>2. WritesOf(SubSeq(journal, 1, replay.upto)) \subseteq InHand
      BY <1>3, PrefixWrites DEF InHand
    <3>3. InHand \subseteq objects \cup torn
      BY <1>6 DEF FuseInv, Stored
    <3> QED
      BY <1>6, <3>1, <3>2, <3>3 DEF PayloadTorn
  <2> HIDE DEF e
  <2>5. CanApply(d, e, {e.data})
    BY <1>2, <1>3, <1>4, <2>3, RedoTree
  <2> QED
    BY <2>4, <2>5, Payloads
<1> QED
  BY <1>1, <1>2, <1>5, <1>6 DEF k, d

\* Each event takes it to the next version, or ends it.
LEMMA ReplayEventStep ==
    ASSUME FuseInv, ReplayEvent
    PROVE  FuseInv'
<1> DEFINE n == Len(replay.todo)
           m == replay.upto
           k == m - n + 1
           d == Apply(replay.dest, journal[k])
           R == [pc : {"idle", "apply", "failed"}, upto : Nat, todo : Seq(Events),
                 dest : Trees \cup {NoTree}]
<1>1. replay.pc = "apply" /\ replay.todo # <<>>
      /\ UNCHANGED <<backing, table, call, log, store, clients, history>>
  BY DEF ReplayEvent
<1>2. /\ n \in Nat \ {0} /\ m \in Nat /\ k \in 1..Len(journal) /\ k <= m
      /\ m - (n - 1) = k
      /\ Tail(replay.todo) = SubSeq(journal, k + 1, m)
      /\ Tail(replay.todo) \in Seq(Events) /\ Len(Tail(replay.todo)) = n - 1
  BY <1>1, ReplayPlace
<1>3. replay \in R /\ m \in 0..Len(journal) /\ journal # <<>>
  BY <1>1 DEF FuseInv, Replaying
<1>4. /\ journal' = journal /\ redone' = redone /\ sound' = sound /\ collected' = collected
      /\ tail' = tail /\ torn' = torn /\ (BaseTorn' <=> BaseTorn)
  BY <1>1 DEF log, history, store, BaseTorn
<1>5. \/ /\ replay' = [replay EXCEPT !.todo = Tail(@), !.dest = Apply(@, journal[k])]
         /\ d \in Trees /\ redone[k + 1] \in Trees
         /\ Shaped(redone[k + 1], d) /\ (~BaseTorn => d = redone[k + 1])
      \/ /\ replay' = [replay EXCEPT !.pc = "failed", !.todo = <<>>]
         /\ collected \/ PayloadTorn(m) \/ Blinded(m) \/ sound < m
  BY ReplayEventFacts
<1> HIDE DEF k, n
<1>6. CASE /\ replay' = [replay EXCEPT !.todo = Tail(@), !.dest = Apply(@, journal[k])]
           /\ d \in Trees /\ redone[k + 1] \in Trees
           /\ Shaped(redone[k + 1], d) /\ (~BaseTorn => d = redone[k + 1])
  <2>1. replay' = [replay EXCEPT !.todo = Tail(replay.todo), !.dest = d]
    BY <1>3, <1>6
  <2> HIDE DEF d
  <2>2. /\ replay'.pc = "apply" /\ replay'.upto = m /\ replay'.todo = Tail(replay.todo)
        /\ replay'.dest = d /\ replay' \in R
    BY <1>1, <1>2, <1>3, <1>6, <2>1
  <2>3. Len(replay'.todo) = n - 1 /\ n - 1 <= m /\ m - (n - 1) + 1 = k + 1
    <3>1. n <= m
      BY <1>2 DEF k
    <3> QED
      BY <1>2, <2>2, <3>1
  <2>4. Replaying'
    BY <1>2, <1>3, <1>4, <1>6, <2>2, <2>3 DEF Replaying, ReplayFailsOnly
  <2> QED
    BY <1>1, <2>4, ReplayFrame
<1>7. CASE /\ replay' = [replay EXCEPT !.pc = "failed", !.todo = <<>>]
           /\ collected \/ PayloadTorn(m) \/ Blinded(m) \/ sound < m
  <2>1. <<>> \in Seq(Events)
    BY EmptySeq
  <2>2. replay'.pc = "failed" /\ replay'.upto = m /\ replay' \in R
    BY <1>3, <1>7, <2>1
  <2>3. /\ Blinded(m) => Blinded(replay.upto)'
        /\ PayloadTorn(m) => PayloadTorn(replay.upto)'
    BY <1>4, <2>2 DEF Blinded, PayloadTorn
  <2>4. Replaying'
    BY <1>3, <1>4, <1>7, <2>2, <2>3 DEF Replaying, ReplayFailsOnly
  <2> QED
    BY <1>1, <2>4, ReplayFrame
<1> QED
  BY <1>5, <1>6, <1>7

\* A replay that is over leaves the mount alone.
LEMMA ReplayEndStep ==
    ASSUME FuseInv, ReplayEnd
    PROVE  FuseInv'
<1>1. replay' = NoReplay /\ UNCHANGED <<backing, table, call, log, store, clients, history>>
  BY DEF ReplayEnd
<1>2. Replaying'
  BY <1>1, ReplayRecords DEF Replaying, ReplayFailsOnly
<1> QED
  BY <1>1, <1>2, ReplayFrame

-----------------------------------------------------------------------------
(* The invariant of the mount. *)

\* Before the first session nothing is known, recorded or lost.
LEMMA FuseInit == Init => FuseInv
<1> SUFFICES ASSUME Init PROVE FuseInv
  OBVIOUS
<1>1. /\ tree \in Start
      /\ byIno = [i \in Inos |-> NoPath] /\ byPath = [p \in Paths |-> 0] /\ nextIno = 2
      /\ stage = "down" /\ pending = NoEvent /\ mode = "keep"
      /\ rbase = 0 /\ journal = <<>> /\ jbase = 0 /\ compacted = FALSE /\ tail = "none"
      /\ redone = <<Seen(tree)>>
      /\ ckpts = <<>> /\ objects = {} /\ torn = {} /\ head = 0 /\ replay = NoReplay
      /\ meant = [i \in Inos |-> NoPath] /\ strayed = {}
      /\ sound = AllSound /\ collected = FALSE /\ mounts = 0 /\ ops = 0 /\ upsets = 0
  BY DEF Init
<1>2. tree \in Workspaces /\ IsTree(Walked(tree)) /\ Walked(tree) \in Trees
  <2>1. tree \in Workspaces /\ IsTree(tree)
    BY <1>1, FuseAssumptions
  <2>2. IsTree(Walked(tree))
    <3> SUFFICES ASSUME NEW p \in Paths, Walked(tree)[p] # None, Len(p) > 1
                 PROVE  Walked(tree)[Front(p)].kind = "dir"
      BY DEF IsTree
    <3>1. tree[p] # None /\ Front(p) \in Paths
      BY <2>1, WalkedFacts, PathShape
    <3>2. tree[Front(p)].kind = "dir"
      BY <2>1, <3>1 DEF IsTree
    <3> QED
      BY <2>1, <3>1, <3>2, WalkedFacts
  <2> QED
    BY <2>1, <2>2, WalkedFacts
<1>3. Seen(tree) \in Trees /\ IsTree(Seen(tree)) /\ Like(Walked(tree), Seen(tree)) /\ Seen(tree) # NoTree
  BY <1>2, WalkedSeen, FuseAssumptions
<1>4. Len(journal) = 0 /\ journal \in Seq(Events) /\ Len(ckpts) = 0 /\ ckpts \in Seq(Trees)
  BY <1>1, EmptySeq
<1>5. redone \in Seq(Trees \cup {NoTree}) /\ Len(redone) = 1 /\ redone[1] = Seen(tree)
  BY <1>1, <1>3
<1>6. Working
  BY <1>1, <1>2, <1>3, <1>4, <1>5, FuseAssumptions DEF Working
<1>7. Storing
  <2>1. compacted \in BOOLEAN /\ ~compacted
    BY <1>1
  <2>2. ckpts \in Seq(Trees) /\ \A c \in 1..Len(ckpts) : IsTree(ckpts[c])
    BY <1>4
  <2>3. /\ rbase \in 0..Len(ckpts) /\ jbase \in 0..Len(ckpts) /\ head \in 0..Len(ckpts)
        /\ objects \subseteq Seq(Bytes \cup {Zero}) /\ torn \subseteq Seq(Bytes \cup {Zero})
        /\ objects \cap torn = {}
    BY <1>1, <1>4
  <2> QED
    BY <1>1, <2>1, <2>2, <2>3 DEF Storing
<1>8. Counting
  <2>1. collected \in BOOLEAN
    BY <1>1
  <2>2. AllSound \in 0..AllSound /\ 0 \in 0..MaxMounts /\ 0 \in 0..MaxUpsets
    BY FuseAssumptions DEF AllSound
  <2> QED
    BY <1>1, <2>1, <2>2 DEF Counting
<1>9. Named
  <2>1. nextIno \in 2..(MaxIno + 1)
    BY <1>1, Outside
  <2> QED
    BY <1>1, <2>1, Outside DEF Named
<1>10. Alive /\ ~Applying
  BY <1>1 DEF Alive, Applying
<1>11. ~Lost /\ ~Blinded(0)
  BY <1>1 DEF Lost, Blinded
<1>12. Versioned
  BY <1>1, <1>3, <1>4, <1>5, <1>11 DEF Versioned
<1>13. Stored
  <2>1. Referenced = {}
    <3>1. DOMAIN ckpts = {}
      BY <1>1
    <3> QED
      BY <3>1 DEF Referenced
  <2>2. InHand = {}
    <3>1. DOMAIN journal = {}
      BY <1>1
    <3>2. WritesOf(journal) = {}
      BY <3>1 DEF WritesOf
    <3> QED
      BY <1>1, <3>2 DEF InHand
  <2> QED
    BY <2>1, <2>2 DEF Stored
<1>14. Tracking
  BY <1>3, <1>4, <1>5, <1>10 DEF Tracking, Version
<1>15. Replaying
  BY <1>1, ReplayRecords DEF Replaying, ReplayFailsOnly
<1> QED
  BY <1>6, <1>7, <1>8, <1>9, <1>10, <1>12, <1>13, <1>14, <1>15 DEF FuseInv

\* Every request and what follows from it keeps the invariant.
LEMMA HandlersKeep ==
    ASSUME FuseInv, replay.pc = "idle", Handler
    PROVE  FuseInv'
<1>1. CASE \E p \in Paths : Lookup(p) \/ Readdir(Front(p), p)
  BY <1>1, LookupStep
<1>2. CASE \E p \in Paths : CreateFile(p)
  BY <1>2, CreateFileStep
<1>3. CASE \E p \in Paths : Mkdir(p)
  BY <1>3, MkdirStep
<1>4. CASE \E p \in Paths : Unlink(p) \/ Rmdir(p)
  <2> PICK p \in Paths : Unlink(p) \/ Rmdir(p)
    BY <1>4
  <2> DEFINE q == Entry(tree, p)
  <2>1. stage = "idle" /\ q \in Paths /\ CanRemove(tree, q) /\ Removed(p, q) /\ Forget(p)
    BY DEF Unlink, Rmdir, Reaches
  <2> HIDE DEF q
  <2> QED
    BY <2>1, RemovedStep
<1>5. CASE \E p \in Paths : Fsync(p)
  BY <1>5, FsyncStep
<1>6. CASE \E p \in Paths : \E off \in Offsets, b \in Bytes : Write(p, off, <<b>>)
  BY <1>6, WriteStep
<1>7. CASE \E p \in Paths : \E n \in Sizes, m \in {"keep", "ro", "rw"} : SetSize(p, n, m)
  BY <1>7, SetSizeStep
<1>8. CASE \E p \in Paths : \E m \in {"ro", "rw"} : SetMode(p, m)
  <2> PICK p \in Paths, m \in {"ro", "rw"} : SetMode(p, m)
    BY <1>8
  <2>1. stage = "idle" /\ Chmod(p, m)
    BY DEF SetMode
  <2> QED
    BY <2>1, ChmodStep
<1>9. CASE \E p \in Paths : \E s \in Paths : Rename(s, p)
  BY <1>9, RenameStep
<1>10. CASE \E p \in Paths : \E s \in Paths : RenameFails(s, p)
  BY <1>10, RenameFailsStep
<1>11. CASE SetModeToo
  <2>1. stage = "mode" /\ Chmod(pending.path, mode)
    BY <1>11 DEF SetModeToo
  <2>2. pending.path \in Paths
    BY <2>1, EventFacts DEF FuseInv, Working
  <2> QED
    BY <2>1, <2>2, ChmodStep
<1>12. CASE StoreBytes
  BY <1>12, StoreBytesStep
<1>13. CASE Record \/ RecordGlued
  BY <1>13, RecordStep, RecordGluedStep
<1>14. CASE RecordFails \/ RecordRefused
  BY <1>14, RecordFailsStep, RecordRefusedStep
<1> QED
  BY <1>1, <1>2, <1>3, <1>4, <1>5, <1>6, <1>7, <1>8, <1>9, <1>10, <1>11, <1>12, <1>13, <1>14
     DEF Handler

\* So does whatever else happens.
LEMMA FuseStep == FuseInv /\ [Next]_vars => FuseInv'
<1> SUFFICES ASSUME FuseInv, [Next]_vars PROVE FuseInv'
  OBVIOUS
<1>1. CASE replay.pc = "idle" /\ (Mount \/ Mounted)
  BY <1>1, MountStep, MountedStep
<1>2. CASE replay.pc = "idle" /\ (Unmount \/ CheckpointFails)
  BY <1>2, UnmountStep, CheckpointFailsStep
<1>3. CASE replay.pc = "idle" /\ Die
  BY <1>3, DieStep
<1>4. CASE replay.pc = "idle" /\ Handler
  BY <1>4, HandlersKeep
<1>5. CASE replay.pc = "idle" /\ \E c \in DOMAIN ckpts : Commit(c)
  BY <1>5, CommitStep
<1>6. CASE replay.pc = "idle" /\ \E n \in 0..MaxOps : ReplayStart(n)
  BY <1>6, ReplayStartStep
<1>7. CASE Gc
  BY <1>7, GcStep
<1>8. CASE ReplayEvent
  BY <1>8, ReplayEventStep
<1>9. CASE ReplayEnd
  BY <1>9, ReplayEndStep
<1>10. CASE UNCHANGED vars
  <2>1. UNCHANGED <<backing, table, call, log, store, clients, history>> /\ replay' = replay
    BY <1>10 DEF vars
  <2>2. UNCHANGED <<journal, jbase, ckpts, torn, redone, tail, collected, sound>>
    BY <2>1 DEF log, store, history
  <2>3. Replaying'
    BY <2>1, <2>2 DEF FuseInv, Replaying, ReplayFailsOnly, Blinded, BaseTorn, PayloadTorn
  <2> QED
    BY <2>1, <2>3, ReplayFrame
<1> QED
  BY <1>1, <1>2, <1>3, <1>4, <1>5, <1>6, <1>7, <1>8, <1>9, <1>10 DEF Next

\* The invariant holds in every state of the mount.
LEMMA FuseInvariant == Spec => []FuseInv
<1>1. Init => FuseInv
  BY FuseInit
<1>2. FuseInv /\ [Next]_vars => FuseInv'
  BY FuseStep
<1> QED
  BY <1>1, <1>2, PTL DEF Spec

-----------------------------------------------------------------------------
(* What the runs check of the mount. *)

\* Every variable of the adapter, the journal, the store and a replay keeps its
\* type, the backing directory stays a tree, an object is never both whole and
\* torn, and the two maps of InodeTable stay inverse on the paths
\* (fuse_adapter.rs, remember_path to move_path).
THEOREM FuseTypeOK == Spec => []TypeOK
<1>1. ASSUME FuseInv PROVE TypeOK
  <2>1. /\ replay.pc \in {"idle", "apply", "failed"} /\ replay.todo \in Seq(Events)
        /\ replay.dest \in Trees \cup {NoTree}
    BY <1>1 DEF FuseInv, Replaying
  <2>2. /\ tree \in Workspaces /\ IsTree(Walked(tree))
        /\ stage \in {"down", "mount", "idle", "store", "record", "mode"}
        /\ mode \in {"keep", "ro", "rw"}
        /\ pending \in Events \cup {NoEvent}
        /\ stage \in {"store", "record", "mode"} <=> pending # NoEvent
        /\ journal \in Seq(Events) /\ Len(journal) <= ops
        /\ redone \in Seq(Trees \cup {NoTree}) /\ Len(redone) = Len(journal) + 1
        /\ ops \in 0..MaxOps
    BY <1>1 DEF FuseInv, Working
  <2>3. /\ ckpts \in Seq(Trees) /\ {rbase, jbase, head} \subseteq 0..Len(ckpts)
        /\ tail \in {"none", "line", "open", "torn"} /\ journal # <<>> => tail # "none"
        /\ compacted \in BOOLEAN /\ compacted => tail # "none"
        /\ objects \cup torn \subseteq Seq(Bytes \cup {Zero}) /\ objects \cap torn = {}
    BY <1>1 DEF FuseInv, Storing
  <2> QED
    BY <1>1, <2>1, <2>2, <2>3 DEF FuseInv, Named, Counting, TypeOK
<1> QED
  BY <1>1, FuseInvariant, PTL

\* An inode a client holds never leads to another file than the one it was
\* handed out for, except where move_path or forget_path left entries below a
\* moved directory, or of a replaced file, behind, or where the file is reached
\* by a symbolic link.
THEOREM FuseInodeIdentity == Spec => []InodeIdentity
<1>1. ASSUME FuseInv PROVE InodeIdentity
  BY <1>1 DEF FuseInv, Named, InodeIdentity
<1> QED
  BY <1>1, FuseInvariant, PTL

\* op-replay of any prefix of the journal fails only for a torn line, a collected
\* payload or base object, a payload of the prefix that a death left in part
\* (versioned_fs.rs:1434), an ignored name, or events recorded after a change
\* that has no event or one with the name of a link.
THEOREM FuseReplayFailsOnly == Spec => []ReplayFailsOnly
<1>1. ASSUME FuseInv PROVE ReplayFailsOnly
  BY <1>1 DEF FuseInv, Replaying
<1> QED
  BY <1>1, FuseInvariant, PTL

-----------------------------------------------------------------------------
(* The versions a journal promises. *)

\* There is a version for the base and for each event, and between two
\* handlers, as long as nothing was lost, the last is what a checkpoint of the
\* workspace would be.
LEMMA VersionList ==
    ASSUME FuseInv
    PROVE  LET n == Len(journal) IN
           /\ n \in Nat /\ Versions \in Seq(Trees \cup {NoTree}) /\ Len(Versions) = n + 1
           /\ DOMAIN Versions = 1..(n + 1)
           /\ \A k \in 1..(n + 1) :
                Versions[k] = IF redone[k] = NoTree THEN NoTree ELSE Seen(redone[k])
           /\ Last(Versions) = Versions[n + 1]
           /\ \A k \in 1..(n + 1) : redone[k] # NoTree => Versions[k] \in Trees
           /\ Seeing /\ ~Applying => Last(Versions) = Seen(tree)
<1> DEFINE n == Len(journal)
<1>1. /\ n \in Nat
      /\ \A k \in 1..(n + 1) : redone[k] # NoTree => redone[k] \in Trees /\ IsTree(redone[k])
  BY VersionFacts DEF FuseInv
<1>2. DOMAIN redone = 1..(n + 1)
  BY DEF FuseInv, Working
<1>3. \A k \in 1..(n + 1) : redone[k] # NoTree => Seen(redone[k]) \in Trees
  BY <1>1, SeenTree
<1>4. \A k \in 1..(n + 1) :
        Versions[k] = IF redone[k] = NoTree THEN NoTree ELSE Seen(redone[k])
  BY <1>2 DEF Versions
<1>5. Versions \in [1..(n + 1) -> Trees \cup {NoTree}]
  BY <1>2, <1>3 DEF Versions
<1>6. n + 1 \in Nat
  BY <1>1
<1> HIDE DEF n
<1>7. /\ Versions \in Seq(Trees \cup {NoTree}) /\ Len(Versions) = n + 1
      /\ DOMAIN Versions = 1..(n + 1)
  BY <1>5, <1>6, ListOf
<1>8. Last(Versions) = Versions[n + 1]
  BY <1>7 DEF Last
<1>9. Seeing /\ ~Applying => Last(Versions) = Seen(tree)
  <2> SUFFICES ASSUME Seeing, ~Applying PROVE Last(Versions) = Seen(tree)
    OBVIOUS
  <2>1. /\ Version \in Trees /\ Like(Walked(tree), Version)
        /\ tree \in Workspaces /\ IsTree(Walked(tree))
        /\ Version = redone[n + 1] /\ Version # NoTree
    BY Current, FuseAssumptions DEF Version, n
  <2>2. Versions[n + 1] = Seen(Version)
    BY <1>1, <1>4, <2>1
  <2> QED
    BY <1>8, <2>1, <2>2, WalkedSeen
<1> QED
  BY <1>1, <1>3, <1>4, <1>7, <1>8, <1>9 DEF n

\* No handler, and no process beside the adapter, makes a checkpoint.
LEMMA OnlySessions ==
    ASSUME [Next]_vars, ~Mounted, ~Unmount
    PROVE  ckpts' = ckpts
<1>1. CASE Handler
  <2>1. ASSUME NEW p \in Paths, NEW s \in Paths, Rename(s, p) \/ RenameFails(s, p)
        PROVE  ckpts' = ckpts
    BY <2>1 DEF Rename, RenameFails, Applied, store
  <2>2. ASSUME NEW p \in Paths, Lookup(p) \/ Readdir(Front(p), p) \/ CreateFile(p) \/ Mkdir(p)
        PROVE  ckpts' = ckpts
    BY <2>2 DEF Lookup, Readdir, CreateFile, Mkdir, Applied, store
  <2>3. ASSUME NEW p \in Paths, Unlink(p) \/ Rmdir(p) \/ Fsync(p)
        PROVE  ckpts' = ckpts
    BY <2>3 DEF Unlink, Rmdir, Removed, Fsync, Applied, store
  <2>4. ASSUME NEW p \in Paths, NEW off \in Offsets, NEW b \in Bytes, Write(p, off, <<b>>)
        PROVE  ckpts' = ckpts
    BY <2>4 DEF Write, Applied, store
  <2>5. ASSUME NEW p \in Paths, NEW m, NEW n, SetSize(p, n, m) \/ SetMode(p, m)
        PROVE  ckpts' = ckpts
    BY <2>5 DEF SetSize, SetMode, Chmod, Applied, store
  <2>6. SetModeToo \/ StoreBytes \/ Record \/ RecordGlued => ckpts' = ckpts
    BY DEF SetModeToo, Chmod, Applied, StoreBytes, Record, RecordGlued, store
  <2>7. RecordFails \/ RecordRefused => ckpts' = ckpts
    BY DEF RecordFails, RecordRefused, store
  <2> QED
    BY <1>1, <2>1, <2>2, <2>3, <2>4, <2>5, <2>6, <2>7 DEF Handler
<1>2. CASE Mount \/ CheckpointFails \/ Die \/ Gc \/ ReplayEvent \/ ReplayEnd \/ UNCHANGED vars
  BY <1>2 DEF Mount, CheckpointFails, Die, Gc, ReplayEvent, ReplayEnd, store, vars
<1>3. CASE (\E c \in DOMAIN ckpts : Commit(c)) \/ (\E n \in 0..MaxOps : ReplayStart(n))
  BY <1>3 DEF Commit, ReplayStart, store
<1> QED
  BY <1>1, <1>2, <1>3 DEF Next

\* A commit on unmount moves the head to the checkpoint a replay of the whole
\* journal rebuilds, and closes the journal, unless a change was not recorded, or
\* only under the name of a link, or an event changes an ignored file that a
\* replay does not have (destroy, fuse_adapter.rs, with finish, versioned_fs.rs).
THEOREM FuseCommitIsLastVersion == Spec => CommitIsLastVersion
<1> DEFINE Committed ==
      Len(ckpts') > Len(ckpts) /\ head' # head =>
          compacted' /\ (Lost \/ Blinded(Len(journal)) \/ ckpts'[head'] = Last(Versions))
<1>1. FuseInv /\ [Next]_vars => [Committed]_vars
  <2> SUFFICES ASSUME FuseInv, [Next]_vars PROVE Committed
    OBVIOUS
  <2>1. CASE Mounted
    BY <2>1 DEF Mounted
  <2>2. CASE Unmount
    <3>1. /\ stage = "idle" /\ ckpts' = Append(ckpts, Seen(tree))
          /\ head' # head => head' = Len(ckpts) + 1 /\ compacted' = TRUE
      BY <2>2 DEF Unmount, Checkpoint
    <3>2. ckpts'[Len(ckpts) + 1] = Seen(tree)
      BY <3>1, CheckpointFacts DEF FuseInv
    <3>3. Lost \/ Blinded(Len(journal)) \/ Last(Versions) = Seen(tree)
      BY <3>1, VersionList DEF Seeing, Applying
    <3> QED
      BY <3>1, <3>2, <3>3
  <2>3. CASE ~Mounted /\ ~Unmount
    <3>1. ckpts' = ckpts /\ Len(ckpts) \in Nat
      BY <2>3, OnlySessions, LenProperties DEF FuseInv, Storing
    <3> QED
      BY <3>1
  <2> QED
    BY <2>1, <2>2, <2>3
<1> QED
  BY <1>1, FuseInvariant, PTL DEF Spec, CommitIsLastVersion

-----------------------------------------------------------------------------
(* The mount implements RecordedWorkspace. *)

Tie ==
    IF Lost \/ Blinded(Len(journal)) THEN "lost"
    ELSE IF stage \in {"store", "record"} THEN "applied" ELSE "synced"
Outcome == IF ReplayDone /\ ~BaseTorn THEN Seen(replay.dest) ELSE NoTree
Promised == [Recorded!Next]_(Recorded!vars)

\* A step that changes none of what is promised.
LEMMA Unnoticed ==
    ASSUME Seen(tree)' = Seen(tree), Versions' = Versions, Tie' = Tie, Outcome' = Outcome
    PROVE  Promised
BY DEF Promised, Recorded!vars, Tie, Outcome

\* A checkpoint of the workspace is one of its states.
LEMMA SeenNext ==
    ASSUME FuseInv'
    PROVE  Seen(tree)' \in Trees
BY WalkedSeen DEF FuseInv, Working

\* An operation that changes the workspace.
LEMMA Changing ==
    ASSUME FuseInv', Versions' = Versions, Outcome' = Outcome, Tie = "synced", Tie' = "applied"
    PROVE  Promised
BY SeenNext DEF Promised, Recorded!Next, Recorded!Change, Tie, Outcome

\* An operation that becomes a version.
LEMMA Recording ==
    ASSUME Seen(tree)' = Seen(tree), Versions' = Append(Versions, Seen(tree)),
           Outcome' = Outcome, Tie = "applied", Tie' = "synced"
    PROVE  Promised
BY DEF Promised, Recorded!Next, Recorded!Record, Tie, Outcome

\* A change that has no version.
LEMMA Losing ==
    ASSUME FuseInv', Versions' = Versions, Outcome' = Outcome, Tie' = "lost"
    PROVE  Promised
BY SeenNext DEF Promised, Recorded!Next, Recorded!Lose, Recorded!Kept, Tie, Outcome

\* A version after such a change.
LEMMA LosingOn ==
    ASSUME FuseInv', NEW S, NEW v \in S, Versions \in Seq(S), Versions' = Append(Versions, v),
           Outcome' = Outcome, Tie' = "lost"
    PROVE  Promised
<1>1. Len(Versions') = Len(Versions) + 1 /\ Recorded!IsPrefix(Versions, Versions')
  <2> DEFINE n == Len(Versions)
  <2>1. /\ Versions' \in Seq(S) /\ Len(Versions') = n + 1 /\ n \in Nat
        /\ \A k \in 1..n : Versions'[k] = Versions[k]
    BY AppendProperties, LenProperties
  <2>2. SubSeq(Versions, 1, n) = SubSeq(Versions', 1, n)
    <3>1. \A k \in 1..n : Versions[k] \in S /\ Versions'[k] \in S
      BY <2>1, ElementOfSeq
    <3> QED
      BY <2>1, <3>1, SubSeqProperties, SeqEqual
  <2> QED
    BY <2>1, <2>2 DEF Recorded!IsPrefix
<1> QED
  BY <1>1, SeenNext DEF Promised, Recorded!Next, Recorded!Lose, Recorded!Kept, Tie, Outcome

\* A session that finds nothing recorded.
LEMMA Rebasing ==
    ASSUME Seen(tree)' = Seen(tree), Len(Versions) = 1, Versions' = <<Seen(tree)>>,
           Outcome' = Outcome, Tie' = "synced"
    PROVE  Promised
BY DEF Promised, Recorded!Next, Recorded!Rebase, Tie, Outcome

\* A replay that has come to its last event.
LEMMA Recovering ==
    ASSUME FuseInv, Seen(tree)' = Seen(tree), Versions' = Versions, Tie' = Tie,
           NEW n \in 1..(Len(journal) + 1), redone[n] \in Trees,
           Outcome' = Seen(redone[n])
    PROVE  Promised
<1>1. n \in DOMAIN Versions /\ Versions[n] = Seen(redone[n])
  BY VersionList, FuseAssumptions
<1>2. Seen(redone[n]) # NoTree
  BY VersionFacts, SeenTree, FuseAssumptions DEF FuseInv
<1> QED
  BY <1>1, <1>2 DEF Promised, Recorded!Next, Recorded!Recover, Tie, Outcome

\* A replay that is over.
LEMMA Forgetting ==
    ASSUME Seen(tree)' = Seen(tree), Versions' = Versions, Tie' = Tie, Outcome' = NoTree
    PROVE  Promised
BY DEF Promised, Recorded!Next, Recorded!Forget, Tie, Outcome

\* There is no outcome without a replay.
LEMMA NoOutcome ==
    ASSUME replay.pc = "idle", replay' = replay
    PROVE  Outcome = NoTree /\ Outcome' = NoTree
BY DEF Outcome, ReplayDone

\* A step outside of the workspace and the journal.
LEMMA Aside ==
    ASSUME UNCHANGED <<tree, redone, journal, sound>>, Applying' <=> Applying
    PROVE  Seen(tree)' = Seen(tree) /\ Versions' = Versions /\ Tie' = Tie
<1>1. Seen(tree)' = Seen(tree)
  BY DEF Seen
<1>2. Versions' = Versions
  BY DEF Versions, Seen
<1>3. Tie' = Tie
  BY DEF Tie, Lost, Blinded, Applying
<1> QED
  BY <1>1, <1>2, <1>3

\* One that is no step of a replay either.
LEMMA QuietStep ==
    ASSUME replay.pc = "idle", UNCHANGED <<tree, redone, journal, sound, replay>>,
           Applying' <=> Applying
    PROVE  Promised
BY Aside, NoOutcome, Unnoticed

\* The first half of a handler; the change may be lost as it is made.
LEMMA HandledStep ==
    ASSUME FuseInv, FuseInv', replay.pc = "idle", ~Applying, NEW t, NEW e, Applied(t, e),
           sound' = sound \/ Loses
    PROVE  Promised
<1>1. UNCHANGED <<redone, journal, replay>> /\ Applying'
  BY DEF Applied, log, Applying
<1>2. Versions' = Versions
  BY <1>1 DEF Versions, Seen
<1>3. Outcome' = Outcome
  BY <1>1, NoOutcome
<1>4. Lost' \/ sound' = sound
  BY LosesFacts
<1>5. \/ Tie = "synced" /\ Tie' = "applied"
      \/ Tie' = "lost"
  <2>1. CASE Lost'
    BY <2>1 DEF Tie
  <2>2. CASE ~Lost' /\ sound' = sound
    <3>1. (Lost \/ Blinded(Len(journal)))' <=> Lost \/ Blinded(Len(journal))
      BY <1>1, <2>2 DEF Lost, Blinded
    <3> QED
      BY <1>1, <3>1 DEF Tie, Applying
  <2> QED
    BY <1>4, <2>1, <2>2
<1> QED
  BY <1>2, <1>3, <1>5, Changing, Losing

\* A change is lost, with the handler or in it.
LEMMA LostStep ==
    ASSUME FuseInv, FuseInv', replay.pc = "idle", Loses, UNCHANGED <<redone, journal, replay>>
    PROVE  Promised
<1>1. Versions' = Versions
  BY DEF Versions, Seen
<1>2. Outcome' = Outcome
  BY NoOutcome
<1>3. Tie' = "lost"
  BY LosesFacts DEF Tie
<1> QED
  BY <1>1, <1>2, <1>3, Losing

\* The event's version joins the others.
LEMMA NextVersion ==
    ASSUME FuseInv, FuseInv', Applying, ~Applying', Logged, tree' = tree
    PROVE  LET v == Redo(Version, pending)
               w == IF v = NoTree THEN NoTree ELSE Seen(v) IN
           /\ Versions \in Seq(Trees \cup {NoTree}) /\ w \in Trees \cup {NoTree}
           /\ Versions' = Append(Versions, w)
           /\ Seeing' => w = Seen(tree)
<1> DEFINE n == Len(journal)
           v == Redo(Version, pending)
           w == IF v = NoTree THEN NoTree ELSE Seen(v)
<1>1. /\ journal' = Append(journal, pending)
      /\ redone' = Append(redone, Redo(Last(redone), pending))
  BY DEF Logged
<1>2. /\ n \in Nat /\ Len(journal') = n + 1 /\ Len(redone') = n + 2
      /\ redone' \in Seq(Trees \cup {NoTree})
      /\ \A k \in 1..(n + 1) : redone'[k] = redone[k]
      /\ redone'[n + 2] = v /\ pending \in Events
  BY <1>1, RecordedFacts
<1>3. /\ Versions \in Seq(Trees \cup {NoTree}) /\ Len(Versions) = n + 1
      /\ \A k \in 1..(n + 1) :
            Versions[k] = IF redone[k] = NoTree THEN NoTree ELSE Seen(redone[k])
  BY VersionList
<1>4. v \in Trees \cup {NoTree} /\ (v # NoTree => IsTree(v))
  BY <1>2, VersionFacts, RedoTree DEF FuseInv
<1>5. w \in Trees \cup {NoTree}
  BY <1>4, SeenTree
<1>6. Seeing' => w = Seen(tree)
  <2> SUFFICES ASSUME Seeing' PROVE w = Seen(tree)
    OBVIOUS
  <2>1. Version' = v
    BY <1>2 DEF Version
  <2>2. Version' \in Trees /\ Like(Walked(tree), Version')
    BY DEF FuseInv, Tracking
  <2>3. /\ v \in Trees /\ v # NoTree /\ Like(Walked(tree), v)
        /\ tree \in Workspaces /\ IsTree(Walked(tree))
    BY <2>1, <2>2, FuseAssumptions DEF FuseInv, Working
  <2> QED
    BY <2>3, WalkedSeen
<1> HIDE DEF n, v
<1>7. Versions' = [k \in 1..(n + 2) |->
                     IF redone'[k] = NoTree THEN NoTree ELSE Seen(redone'[k])]
  <2>1. DOMAIN redone' = 1..(n + 2)
    BY <1>2
  <2> QED
    BY <2>1 DEF Versions, Seen
<1>8. /\ \A k \in 1..(n + 1) : Versions'[k] = Versions[k]
      /\ Versions'[n + 2] = w
  <2>1. (\A k \in 1..(n + 1) : k \in 1..(n + 2)) /\ n + 2 \in 1..(n + 2)
    BY <1>2
  <2> QED
    BY <1>2, <1>3, <1>7, <2>1
<1> HIDE DEF w
<1>9. Append(Versions, w) = Versions'
  <2>1. /\ Append(Versions, w) \in Seq(Trees \cup {NoTree})
        /\ Len(Append(Versions, w)) = n + 2
        /\ \A k \in 1..(n + 1) : Append(Versions, w)[k] = Versions[k]
        /\ Append(Versions, w)[n + 2] = w
    BY <1>2, <1>3, <1>5, AppendProperties
  <2>2. \A k \in 1..(n + 2) : k \in 1..(n + 1) \/ k = n + 2
    BY <1>2
  <2>3. Versions' \in Seq(Trees \cup {NoTree}) /\ Len(Versions') = n + 2
    <3>1. \A k \in 1..(n + 2) : Versions'[k] \in Trees \cup {NoTree}
      <4>1. \A k \in 1..(n + 1) : Versions[k] \in Trees \cup {NoTree}
        BY <1>3, ElementOfSeq
      <4> QED
        BY <1>5, <1>8, <2>2, <4>1
    <3>2. Versions' \in [1..(n + 2) -> Trees \cup {NoTree}] /\ n + 2 \in Nat
      BY <1>2, <1>7, <3>1
    <3> QED
      BY <3>2, ListOf
  <2> QED
    BY <1>8, <2>1, <2>2, <2>3, SeqEqual
<1> QED
  BY <1>3, <1>5, <1>6, <1>9 DEF v, w

\* The event is read back from now on: a version of the workspace, or one
\* behind a change that has none.
LEMMA RecordedStep ==
    ASSUME FuseInv, FuseInv', replay.pc = "idle", Applying, ~Applying', Logged,
           UNCHANGED <<tree, replay, sound>>
    PROVE  Promised
<1> DEFINE v == Redo(Version, pending)
           w == IF v = NoTree THEN NoTree ELSE Seen(v)
<1>1. /\ Versions \in Seq(Trees \cup {NoTree}) /\ w \in Trees \cup {NoTree}
      /\ Versions' = Append(Versions, w)
      /\ Seeing' => w = Seen(tree)
  BY NextVersion
<1> HIDE DEF w
<1>2. /\ journal' = Append(journal, pending)
      /\ redone' = Append(redone, Redo(Last(redone), pending))
  BY DEF Logged
<1>3. Outcome' = Outcome
  BY NoOutcome
<1>4. CASE Seeing'
  <2>1. Seeing
    <3>1. \A j \in 1..Len(journal) : j \in 1..(Len(journal) + 1)
      BY VersionFacts DEF FuseInv
    <3>2. /\ Len(journal') = Len(journal) + 1
          /\ \A j \in 1..Len(journal) : journal'[j] = journal[j]
      BY <1>2, RecordedFacts
    <3> QED
      BY <1>4, <3>1, <3>2 DEF Seeing, Lost, Blinded
  <2>2. Tie = "applied" /\ Tie' = "synced"
    BY <1>4, <2>1 DEF Tie, Seeing, Applying
  <2>3. Seen(tree)' = Seen(tree)
    BY DEF Seen
  <2> QED
    BY <1>1, <1>3, <1>4, <2>2, <2>3, Recording
<1>5. CASE ~Seeing'
  <2>1. Tie' = "lost"
    BY <1>5 DEF Tie, Seeing
  <2> QED
    BY <1>1, <1>3, <2>1, LosingOn
<1> QED
  BY <1>4, <1>5

\* What is cut short either is an event or loses the change.
LEMMA InterruptedPromised ==
    ASSUME FuseInv, FuseInv', replay.pc = "idle", Interrupted, ~Applying', UNCHANGED <<tree, replay>>
    PROVE  Promised
<1>1. \/ Loses /\ UNCHANGED <<redone, journal>>
      \/ stage = "record" /\ Logged /\ sound' = sound
  BY DEF Interrupted
<1>2. CASE Loses /\ UNCHANGED <<redone, journal>>
  BY <1>2, LostStep
<1>3. CASE stage = "record" /\ Logged /\ sound' = sound
  <2>1. Applying
    BY <1>3 DEF Applying
  <2> QED
    BY <1>3, <2>1, RecordedStep
<1> QED
  BY <1>1, <1>2, <1>3

\* A session has its base: over from the workspace as it is, if nothing is recorded.
LEMMA MountedPromised ==
    ASSUME FuseInv, replay.pc = "idle", Mounted
    PROVE  Promised
<1>1. /\ ~Applying /\ ~Applying' /\ UNCHANGED <<tree, journal, replay>>
      /\ redone' = IF journal = <<>> THEN <<Seen(tree)>> ELSE redone
      /\ sound' = IF journal = <<>> THEN AllSound ELSE sound
  BY DEF Mounted, backing, Applying
<1>2. CASE journal # <<>>
  BY <1>1, <1>2, QuietStep
<1>3. CASE journal = <<>>
  <2>1. /\ Seen(tree) \in Trees /\ Seen(tree) # NoTree
        /\ Seen(Seen(tree)) = Seen(tree)
    BY WalkedSeen, FuseAssumptions DEF FuseInv, Working
  <2>2. Len(Versions) = 1
    BY <1>3, VersionList, EmptySeq
  <2>3. Versions' = <<Seen(tree)>>
    <3>1. redone' = <<Seen(tree)>>
      BY <1>1, <1>3
    <3>2. DOMAIN redone' = 1..1 /\ redone'[1] = Seen(tree)
      BY <3>1
    <3>3. Versions' = [n \in 1..1 |-> Seen(tree)]
      BY <2>1, <3>2 DEF Versions, Seen
    <3> QED
      BY <3>3
  <2>4. Tie' = "synced"
    <3>1. Len(journal') = 0 /\ ~Lost'
      BY <1>1, <1>3, EmptySeq DEF Lost, AllSound
    <3> QED
      BY <1>1, <3>1 DEF Tie, Blinded, Applying
  <2>5. Outcome' = Outcome /\ Seen(tree)' = Seen(tree)
    BY <1>1, NoOutcome DEF Seen
  <2> QED
    BY <2>2, <2>3, <2>4, <2>5, Rebasing
<1> QED
  BY <1>2, <1>3

\* What a replay leaves alone.
LEMMA ReplayAside ==
    ASSUME UNCHANGED <<backing, table, call, log, store, clients, history>>
    PROVE  /\ Seen(tree)' = Seen(tree) /\ Versions' = Versions /\ Tie' = Tie
           /\ BaseTorn' <=> BaseTorn
<1>1. UNCHANGED <<tree, redone, journal, sound, stage, jbase, ckpts, torn>>
  BY DEF backing, call, log, history, store
<1>2. Applying' <=> Applying
  BY <1>1 DEF Applying
<1>3. BaseTorn' <=> BaseTorn
  BY <1>1 DEF BaseTorn
<1> QED
  BY <1>1, <1>2, <1>3, Aside

\* A replay of no event at all recovers the base, if that is whole.
LEMMA StartedStep ==
    ASSUME FuseInv, NEW n, ReplayStart(n)
    PROVE  Promised
<1>1. /\ n \in 0..Len(journal)
      /\ \/ /\ replay' = [pc |-> "apply", upto |-> n, todo |-> SubSeq(journal, 1, n),
                          dest |-> Materialized(jbase)]
            /\ redone[1] \in Trees /\ (~BaseTorn => Materialized(jbase) = redone[1])
         \/ replay' = [NoReplay EXCEPT !.pc = "failed", !.upto = n]
  BY ReplayStartFacts
<1>2. /\ UNCHANGED <<backing, table, call, log, store, clients, history>>
      /\ replay.pc = "idle"
  BY DEF ReplayStart
<1>3. /\ Seen(tree)' = Seen(tree) /\ Versions' = Versions /\ Tie' = Tie
      /\ BaseTorn' <=> BaseTorn
  BY <1>2, ReplayAside
<1>4. Outcome = NoTree
  BY <1>2 DEF Outcome, ReplayDone
<1>5. CASE ReplayDone' /\ ~BaseTorn'
  <2>1. /\ replay' = [pc |-> "apply", upto |-> n, todo |-> SubSeq(journal, 1, n),
                      dest |-> Materialized(jbase)]
        /\ redone[1] \in Trees /\ Materialized(jbase) = redone[1]
    <3>1. [NoReplay EXCEPT !.pc = "failed", !.upto = n].pc # "apply"
      BY DEF NoReplay
    <3> QED
      BY <1>1, <1>3, <1>5, <3>1 DEF ReplayDone
  <2>2. 1 \in 1..(Len(journal) + 1)
    BY VersionFacts DEF FuseInv
  <2>3. Outcome' = Seen(redone[1])
    BY <1>5, <2>1 DEF Outcome, Seen
  <2> QED
    BY <1>3, <2>1, <2>2, <2>3, Recovering
<1>6. CASE ~(ReplayDone' /\ ~BaseTorn')
  BY <1>3, <1>4, <1>6, Unnoticed DEF Outcome
<1> QED
  BY <1>5, <1>6

\* The last event of a replay recovers the version it was asked for.
LEMMA ReplayedStep ==
    ASSUME FuseInv, ReplayEvent
    PROVE  Promised
<1> DEFINE k == replay.upto - Len(replay.todo) + 1
           d == Apply(replay.dest, journal[k])
<1>1. /\ UNCHANGED <<backing, table, call, log, store, clients, history>>
      /\ replay.pc = "apply" /\ replay.todo # <<>>
  BY DEF ReplayEvent
<1>2. /\ k \in 1..Len(journal)
      /\ replay \in [pc : {"idle", "apply", "failed"}, upto : Nat, todo : Seq(Events),
                     dest : Trees \cup {NoTree}]
  BY <1>1, ReplayPlace DEF FuseInv, Replaying
<1>3. \/ /\ replay' = [replay EXCEPT !.todo = Tail(@), !.dest = Apply(@, journal[k])]
         /\ redone[k + 1] \in Trees /\ (~BaseTorn => d = redone[k + 1])
      \/ replay' = [replay EXCEPT !.pc = "failed", !.todo = <<>>]
  BY ReplayEventFacts
<1>4. /\ Seen(tree)' = Seen(tree) /\ Versions' = Versions /\ Tie' = Tie
      /\ BaseTorn' <=> BaseTorn
  BY <1>1, ReplayAside
<1> HIDE DEF k
<1>5. Outcome = NoTree
  BY <1>1 DEF Outcome, ReplayDone
<1>6. CASE ReplayDone' /\ ~BaseTorn'
  <2>1. replay'.pc = "apply"
    BY <1>6 DEF ReplayDone
  <2>2. /\ replay' = [replay EXCEPT !.todo = Tail(@), !.dest = Apply(@, journal[k])]
        /\ redone[k + 1] \in Trees /\ d = redone[k + 1]
    BY <1>2, <1>3, <1>4, <1>6, <2>1
  <2>3. replay'.dest = redone[k + 1]
    BY <1>2, <2>2
  <2>4. k + 1 \in 1..(Len(journal) + 1)
    BY <1>2, VersionFacts DEF FuseInv
  <2>5. Outcome' = Seen(redone[k + 1])
    BY <1>6, <2>3 DEF Outcome, Seen
  <2> QED
    BY <1>4, <2>2, <2>4, <2>5, Recovering
<1>7. CASE ~(ReplayDone' /\ ~BaseTorn')
  BY <1>4, <1>5, <1>7, Unnoticed DEF Outcome
<1> QED
  BY <1>6, <1>7

\* A replay is over, or has failed.
LEMMA EndedStep ==
    ASSUME ReplayEnd
    PROVE  Promised
<1>1. /\ UNCHANGED <<backing, table, call, log, store, clients, history>>
      /\ replay' = NoReplay
  BY DEF ReplayEnd
<1>2. Outcome' = NoTree
  BY <1>1 DEF Outcome, ReplayDone, NoReplay
<1> QED
  BY <1>1, <1>2, ReplayAside, Forgetting

\* A collection takes nothing from the base of the journal.
LEMMA CollectedStep ==
    ASSUME FuseInv, Gc
    PROVE  Promised
<1>1. /\ UNCHANGED <<tree, redone, journal, sound, stage, jbase, ckpts, replay>>
      /\ torn' = torn \cap Referenced
  BY DEF Gc, backing, call, log
<1>2. BaseTorn' <=> BaseTorn
  <2>1. journal # <<>> => ContentsOf(ckpts[jbase]) \subseteq Referenced
    BY BaseFacts
  <2> QED
    BY <1>1, <2>1 DEF BaseTorn
<1>3. Outcome' = Outcome
  BY <1>1, <1>2 DEF Outcome, ReplayDone, Seen
<1>4. Applying' <=> Applying
  BY <1>1 DEF Applying
<1> QED
  BY <1>1, <1>3, <1>4, Aside, Unnoticed

\* Each request and each append is a step of what is promised, or none.
LEMMA HandlersPromised ==
    ASSUME FuseInv, FuseInv', replay.pc = "idle", Handler
    PROVE  Promised
<1>1. ASSUME NEW p \in Paths, Lookup(p) \/ Readdir(Front(p), p) PROVE Promised
  <2>1. UNCHANGED <<tree, redone, journal, sound, replay, stage>>
    BY <1>1 DEF Lookup, Readdir, backing, log, history, call
  <2> QED
    BY <2>1, QuietStep DEF Applying
<1>2. ASSUME NEW p \in Paths, CreateFile(p) \/ Mkdir(p) \/ Fsync(p) PROVE Promised
  <2>1. stage = "idle" /\ (\E t, e : Applied(t, e)) /\ (sound' = sound \/ Loses)
    BY <1>2 DEF CreateFile, Mkdir, Fsync, Noted
  <2> QED
    BY <2>1, HandledStep DEF Applying
<1>3. ASSUME NEW p \in Paths, Unlink(p) \/ Rmdir(p) PROVE Promised
  <2>1. stage = "idle" /\ (\E t, e : Applied(t, e)) /\ (sound' = sound \/ Loses)
    BY <1>3 DEF Unlink, Rmdir, Removed, Noted
  <2> QED
    BY <2>1, HandledStep DEF Applying
<1>4. ASSUME NEW p \in Paths, NEW off \in Offsets, NEW b \in Bytes, Write(p, off, <<b>>)
      PROVE  Promised
  <2>1. stage = "idle" /\ (\E t, e : Applied(t, e)) /\ (sound' = sound \/ Loses)
    BY <1>4 DEF Write, Noted
  <2> QED
    BY <2>1, HandledStep DEF Applying
<1>5. ASSUME NEW p \in Paths, NEW n, NEW m, SetSize(p, n, m) \/ SetMode(p, m) PROVE Promised
  <2>1. stage = "idle" /\ (\E t, e : Applied(t, e)) /\ (sound' = sound \/ Loses)
    BY <1>5 DEF SetSize, SetMode, Chmod, Noted
  <2> QED
    BY <2>1, HandledStep DEF Applying
<1>6. ASSUME NEW p \in Paths, NEW s \in Paths, Rename(s, p) PROVE Promised
  <2>1. stage = "idle" /\ (\E t, e : Applied(t, e)) /\ (sound' = sound \/ Loses)
    BY <1>6 DEF Rename, Noted
  <2> QED
    BY <2>1, HandledStep DEF Applying
<1>7. ASSUME NEW p \in Paths, NEW s \in Paths, RenameFails(s, p) PROVE Promised
  <2>1. Loses /\ UNCHANGED <<redone, journal, replay>>
    BY <1>7 DEF RenameFails, log
  <2> QED
    BY <2>1, LostStep
<1>8. CASE SetModeToo
  <2>1. stage = "mode" /\ (\E t, e : Applied(t, e)) /\ (sound' = sound \/ Loses)
    BY <1>8 DEF SetModeToo, Chmod, Noted
  <2> QED
    BY <2>1, HandledStep DEF Applying
<1>9. CASE StoreBytes
  <2>1. UNCHANGED <<tree, redone, journal, sound, replay>> /\ Applying /\ Applying'
    BY <1>9 DEF StoreBytes, backing, log, history, Applying
  <2> QED
    BY <2>1, QuietStep
<1>10. CASE Record
  <2>1. /\ Applying /\ ~Applying' /\ Logged /\ UNCHANGED <<tree, replay, sound>>
    BY <1>10 DEF Record, Replied, Answer, backing, history, Applying
  <2> QED
    BY <2>1, RecordedStep
<1>11. CASE RecordGlued \/ RecordRefused
  <2>1. Loses /\ UNCHANGED <<redone, journal, replay>>
    BY <1>11 DEF RecordGlued, RecordRefused, log
  <2> QED
    BY <2>1, LostStep
<1>12. CASE RecordFails
  <2>1. Interrupted /\ ~Applying' /\ UNCHANGED <<tree, replay>>
    BY <1>12 DEF RecordFails, Answer, backing, Applying
  <2> QED
    BY <2>1, InterruptedPromised
<1> QED
  BY <1>1, <1>2, <1>3, <1>4, <1>5, <1>6, <1>7, <1>8, <1>9, <1>10, <1>11, <1>12 DEF Handler

\* So is every other step.
LEMMA StepsPromised == FuseInv /\ FuseInv' /\ [Next]_vars => Promised
<1> SUFFICES ASSUME FuseInv, FuseInv', [Next]_vars PROVE Promised
  OBVIOUS
<1>1. CASE replay.pc = "idle" /\ Mounted
  BY <1>1, MountedPromised
<1>2. CASE replay.pc = "idle" /\ (Mount \/ Unmount \/ CheckpointFails)
  <2>1. UNCHANGED <<tree, redone, journal, sound, replay>> /\ ~Applying /\ ~Applying'
    BY <1>2 DEF Mount, Unmount, CheckpointFails, Ends, backing, log, history, Applying
  <2> QED
    BY <1>2, <2>1, QuietStep
<1>3. CASE replay.pc = "idle" /\ Die
  <2>1. tree' = tree /\ replay' = replay /\ ~Applying'
    BY <1>3 DEF Die, Ends, backing, Applying
  <2>2. CASE Applying
    <3>1. Interrupted
      BY <1>3, <2>2 DEF Die, Applying
    <3> QED
      BY <1>3, <2>1, <3>1, InterruptedPromised
  <2>3. CASE ~Applying
    <3>1. UNCHANGED <<redone, journal, sound>>
      BY <1>3, <2>3 DEF Die, Applying
    <3> QED
      BY <1>3, <2>1, <2>3, <3>1, QuietStep
  <2> QED
    BY <2>2, <2>3
<1>4. CASE replay.pc = "idle" /\ Handler
  BY <1>4, HandlersPromised
<1>5. CASE replay.pc = "idle" /\ \E c \in DOMAIN ckpts : Commit(c)
  <2>1. UNCHANGED <<tree, redone, journal, sound, replay, stage>>
    BY <1>5 DEF Commit, backing, call
  <2> QED
    BY <1>5, <2>1, QuietStep DEF Applying
<1>6. CASE \E n \in 0..MaxOps : ReplayStart(n)
  BY <1>6, StartedStep
<1>7. CASE Gc
  BY <1>7, CollectedStep
<1>8. CASE ReplayEvent
  BY <1>8, ReplayedStep
<1>9. CASE ReplayEnd
  BY <1>9, EndedStep
<1>10. CASE UNCHANGED vars
  <2>1. UNCHANGED <<backing, table, call, log, store, clients, history>> /\ replay' = replay
    BY <1>10 DEF vars
  <2>2. Outcome' = Outcome
    BY <2>1, ReplayAside DEF Outcome, ReplayDone, Seen
  <2> QED
    BY <2>1, <2>2, ReplayAside, Unnoticed
<1> QED
  BY <1>1, <1>2, <1>3, <1>4, <1>5, <1>6, <1>7, <1>8, <1>9, <1>10 DEF Next

\* The mount implements RecordedWorkspace: every operation whose event is put in
\* the journal under the name of what it changed becomes a version, no version
\* ever changes, and op-replay of a prefix of the journal, whatever the prefix and
\* whatever the mount, a commit or a collection has done since, rebuilds the
\* version at its end if it ends (versioned_fs.rs:827), unless an object of the
\* base checkpoint is torn.  The workspace is what a checkpoint has of it: without
\* its symbolic links and the modes of its directories.  The promise ends at the
\* first change that is not recorded, or whose event has no source in a replay.
THEOREM FuseRefines == Spec => RecordedSpec
<1>1. Init => Recorded!Init
  <2> SUFFICES ASSUME Init PROVE Recorded!Init
    OBVIOUS
  <2>1. FuseInv
    BY FuseInit
  <2>2. /\ Seen(tree) \in Trees /\ Seen(tree) # NoTree
        /\ Seen(Seen(tree)) = Seen(tree)
    BY <2>1, WalkedSeen, FuseAssumptions DEF FuseInv, Working
  <2>3. Versions = <<Seen(tree)>>
    <3>1. redone = <<Seen(tree)>>
      BY DEF Init
    <3>2. DOMAIN redone = 1..1 /\ redone[1] = Seen(tree)
      BY <3>1
    <3>3. Versions = [n \in 1..1 |-> Seen(tree)]
      BY <2>2, <3>2 DEF Versions
    <3> QED
      BY <3>3
  <2>4. Tie = "synced"
    <3>1. ~Lost /\ Len(journal) = 0 /\ stage = "down"
      BY EmptySeq DEF Init, Lost
    <3> QED
      BY <3>1 DEF Tie, Blinded
  <2>5. Outcome = NoTree
    BY DEF Init, Outcome, ReplayDone, NoReplay
  <2> QED
    BY <2>2, <2>3, <2>4, <2>5 DEF Recorded!Init, Tie, Outcome
<1>2. FuseInv /\ FuseInv' /\ [Next]_vars => [Recorded!Next]_(Recorded!vars)
  BY StepsPromised DEF Promised
<1> QED
  BY <1>1, <1>2, FuseInvariant, PTL DEF Spec, RecordedSpec, Recorded!Spec

=============================================================================
