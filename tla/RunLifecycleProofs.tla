------------------------- MODULE RunLifecycleProofs -------------------------
(* What a run of RunLifecycle guarantees with any number of processes,     *)
(* edits and bytes, under every policy and whatever call fails.            *)
EXTENDS RunLifecycle, TLAPS

\* The main thread has joined the other two; it has settled the workspace.
Joined == pc \in {"classify", "after", "settle", "diff", "report", "summary",
                  "create", "write", "done"}
Settled == pc \in {"diff", "report", "summary", "create", "write", "done"}
                \/ summary # "absent"

\* The command has not been spawned.
Early == pc \in {"start", "begin", "prepare", "degraded", "policy", "spawn"}

\* What the main thread knows of the command and the threads where it is.
Phases ==
    /\ Early => born = 0
    /\ Early \/ pc = "spawned" =>
           sampler = "none" /\ reader = "none"
    /\ pc = "join" \/ Joined => status # "none"
    /\ Joined => sampler = "ended" /\ reader = "ended"
    /\ reader = "ended" => inpipe = 0 /\ pipe = {}
    /\ summary # "absent" => pc \in {"write", "done", "failed"}

\* The workspace is half restored only when the run has failed, and the
\* checkpoints that are used have been made.
Checkpoints ==
    /\ pc # "failed" => ws # Mixed
    /\ pc \notin {"start", "begin", "failed"} => before # None
    /\ pc = "settle" \/ Settled => after # None

\* The head has moved only for a success in time.
HeadMoved ==
    head # None => /\ head = after /\ Succeeded
                   /\ pc \in {"diff", "report", "summary", "create", "write",
                              "done", "failed"}

\* What the report has so far is what happened.
Reported ==
    /\ Joined \/ summary # "absent" => report.bytes = seen + inpipe
    /\ Settled =>
        /\ report.committed <=> head # None
        /\ report.rolledBack /\ ~touched => ws = before
        /\ ~report.committed /\ ~report.rolledBack =>
               (Succeeded /\ ~Commit) \/ (~Succeeded /\ ~Rollback)
    /\ pc \in {"summary", "create", "write", "done"} \/ summary # "absent" =>
        found \ {"process.exit", "run.summary"} \subseteq report.findings

\* run.summary is emitted when only the main thread is left.
Silence ==
    /\ ~late
    /\ logged => pc \in {"create", "write", "done", "failed"}

\* What the command's tree was when the kill began is in the pids read so
\* far, then in the pids to kill or the group, then in the pids left to kill.
Hunted ==
    /\ tree # {} => pc \in {"sample", "group", "kill"}
    /\ pc = "sample" /\ tree # {} =>
        /\ tree = (Descendants(parent) \cup group) \cap alive
        /\ \A p \in Procs : 0 < p /\ p < scan =>
               ppids[p] = IF p \in alive THEN parent[p] ELSE NoProc
    /\ pc = "group" => tree \cap alive \subseteq victims \cup group
    /\ pc = "kill" => tree \cap alive \subseteq victims

\* The ruleset is on the command from its first step, or the trace says that
\* it is not.
Confined ==
    /\ pc \in {"start", "begin", "prepare"} => sandbox = "none"
    /\ pc \in {"degraded", "policy", "spawn"} => sandbox # "none"
    /\ sandbox = "off" => ~Landlocked
    /\ sandbox = "degraded" /\ pc \notin {"degraded", "failed"} => warned
    /\ born > 0 /\ Landlocked => sandbox = "enforced" \/ warned
    /\ born = 0 => ~written
    /\ UngrantedWritesWarned

RunInv == /\ TypeOK /\ Phases /\ Checkpoints /\ HeadMoved /\ Reported
          /\ Silence /\ Hunted /\ Confined

-----------------------------------------------------------------------------
\* Descendants are processes, and Root is one of them.
LEMMA DescendantsAreProcs == \A up : Descendants(up) \subseteq Procs
BY DEF Descendants

\* The types are kept by every step.
LEMMA TypeStep == ASSUME RunInv, [Next]_vars PROVE TypeOK'
<1> USE RunAssumptions DEF RunInv, TypeOK, ProcessTypes, StoreTypes, ThreadTypes,
        MainTypes,
        Phases, Early, Checkpoints, Settled, vars, procs, threads, killing, store,
        output, trace, history, Procs, Root, NoProc, None, Mixed, Ended
<1>1. ASSUME NEW p \in Procs, Fork(p) PROVE TypeOK'
  BY <1>1 DEF Fork
<1>2. ASSUME NEW p \in Procs, Setsid(p) PROVE TypeOK'
  BY <1>2 DEF Setsid
<1>3. ASSUME NEW p \in Procs, Redirect(p) PROVE TypeOK'
  BY <1>3 DEF Redirect
<1>4. ASSUME NEW p \in Procs, Write(p) PROVE TypeOK'
  BY <1>4 DEF Write
<1>5. ASSUME NEW p \in Procs, Edit(p) PROVE TypeOK'
  BY <1>5 DEF Edit, Change
<1>6. ASSUME NEW p \in Procs, NEW s \in {"ok", "bad"}, Exit(p, s) PROVE TypeOK'
  BY <1>6 DEF Exit, Die
<1>7. CASE SampleAgain
  BY <1>7 DEF SampleAgain
<1>8. CASE EmitSample
  BY <1>8 DEF EmitSample, Emitted
<1>9. CASE ReadChunk
  BY <1>9 DEF ReadChunk
<1>10. CASE EmitChunk
  BY <1>10 DEF EmitChunk, Emitted
<1>11. CASE ReadEnd
  BY <1>11 DEF ReadEnd
<1>12. CASE Start
  BY <1>12 DEF Start, Emit, Emitted
<1>13. CASE BeginRun
  BY <1>13 DEF BeginRun, Emit, Emitted
<1>14. CASE Spawn
  <2>1. ProcessTypes'
    <3>1. born = 0 /\ status = "none" /\ alive = {}
      BY <1>14 DEF Spawn
    <3>2. \A p \in Procs : parent[p] = NoProc
      BY <3>1
    <3>3. Root \in Procs /\ 1 \in 0..(MaxForks + 1)
      OBVIOUS
    <3>4. parent' \in [Procs -> alive' \cup {NoProc}] /\ parent'[Root] = NoProc
      BY <1>14, <3>2, <3>3 DEF Spawn
    <3> QED
      BY <1>14, <3>1, <3>3, <3>4 DEF Spawn
  <2>2. StoreTypes'
    BY <1>14 DEF Spawn
  <2>3. ThreadTypes'
    BY <1>14 DEF Spawn
  <2>4. MainTypes'
    BY <1>14 DEF Spawn, Restricted
  <2> QED
    BY <2>1, <2>2, <2>3, <2>4
<1>15. CASE StartThreads
  BY <1>15 DEF StartThreads, Emit, Emitted
<1>16. CASE Reap
  <2>1. ProcessTypes'
    BY <1>16 DEF Reap
  <2>2. StoreTypes'
    BY <1>16 DEF Reap
  <2>3. ThreadTypes'
    BY <1>16 DEF Reap
  <2>4. MainTypes'
    BY <1>16 DEF Reap
  <2> QED
    BY <2>1, <2>2, <2>3, <2>4
<1>17. CASE StillRunning
  BY <1>17 DEF StillRunning
<1>18. CASE Sleep
  BY <1>18 DEF Sleep
<1>19. CASE Deadline
  <2>1. ProcessTypes'
    BY <1>19 DEF Deadline
  <2>2. StoreTypes'
    BY <1>19 DEF Deadline
  <2>3. ThreadTypes'
    BY <1>19 DEF Deadline
  <2>4. MainTypes'
    <3>1. tree' \subseteq Procs
      BY <1>19 DEF Deadline
    <3>2. scan' \in 0..(MaxForks + 1)
      BY <1>19 DEF Deadline
    <3> QED
      BY <1>19, <3>1, <3>2 DEF Deadline
  <2> QED
    BY <2>1, <2>2, <2>3, <2>4
<1>20. CASE ReadStat
  <2>1. ProcessTypes'
    BY <1>20 DEF ReadStat
  <2>2. StoreTypes'
    BY <1>20 DEF ReadStat
  <2>3. ThreadTypes'
    BY <1>20 DEF ReadStat
  <2>4. MainTypes'
    <3>1. scan' \in 0..(MaxForks + 1)
      BY <1>20 DEF ReadStat
    <3>2. (IF scan \in alive THEN parent[scan] ELSE NoProc) \in Procs \cup {NoProc}
      BY <1>20 DEF ReadStat
    <3>3. ppids' \in [Procs -> Procs \cup {NoProc}]
      BY <1>20, <3>2 DEF ReadStat
    <3> QED
      BY <1>20, <3>1, <3>3 DEF ReadStat
  <2> QED
    BY <2>1, <2>2, <2>3, <2>4
<1>21. CASE SampleTree
  <2>1. ProcessTypes'
    BY <1>21 DEF SampleTree
  <2>2. StoreTypes'
    BY <1>21 DEF SampleTree
  <2>3. ThreadTypes'
    BY <1>21 DEF SampleTree
  <2>4. MainTypes'
    <3>1. victims' \subseteq Procs
      BY <1>21, DescendantsAreProcs DEF SampleTree
    <3> QED
      BY <1>21, <3>1 DEF SampleTree
  <2> QED
    BY <2>1, <2>2, <2>3, <2>4
<1>22. CASE KillGroup
  <2>1. ProcessTypes'
    <3>1. parent' \in [Procs -> alive' \cup {NoProc}] /\ parent'[Root] = NoProc
      BY <1>22 DEF KillGroup, Die
    <3>2. alive' \subseteq Procs /\ (\A p \in alive' : p < born') /\ group' \cup pipe' \subseteq alive'
      BY <1>22 DEF KillGroup, Die
    <3>3. status' # "none" <=> born' > 0 /\ Root \notin alive'
      BY <1>22 DEF KillGroup, Die
    <3> QED
      BY <1>22, <3>1, <3>2, <3>3 DEF KillGroup, Die
  <2>2. StoreTypes'
    BY <1>22 DEF KillGroup, Die
  <2>3. ThreadTypes'
    BY <1>22 DEF KillGroup, Die
  <2>4. MainTypes'
    BY <1>22 DEF KillGroup, Die
  <2> QED
    BY <2>1, <2>2, <2>3, <2>4
<1>23. CASE EmitTimeout
  BY <1>23 DEF EmitTimeout, Emit, Emitted
<1>24. CASE Join
  <2>1. ProcessTypes'
    BY <1>24 DEF Join
  <2>2. StoreTypes'
    BY <1>24 DEF Join
  <2>3. ThreadTypes'
    BY <1>24 DEF Join
  <2>4. MainTypes'
    BY <1>24 DEF Join
  <2> QED
    BY <2>1, <2>2, <2>3, <2>4
<1>25. CASE Classify
  BY <1>25 DEF Classify, Emit, Emitted
<1>26. CASE CheckpointAfter
  BY <1>26 DEF CheckpointAfter
<1>27. CASE Settle
  <2>1. ProcessTypes'
    BY <1>27 DEF Settle
  <2>2. StoreTypes'
    BY <1>27 DEF Settle
  <2>3. ThreadTypes'
    BY <1>27 DEF Settle
  <2>4. MainTypes'
    BY <1>27 DEF Settle
  <2> QED
    BY <2>1, <2>2, <2>3, <2>4
<1>28. CASE EmitDiff
  BY <1>28 DEF EmitDiff, Emit, Emitted
<1>29. CASE MakeReport
  <2>1. ProcessTypes'
    BY <1>29 DEF MakeReport, Emit, Emitted
  <2>2. StoreTypes'
    BY <1>29 DEF MakeReport, Emit, Emitted
  <2>3. ThreadTypes'
    BY <1>29 DEF MakeReport, Emit, Emitted
  <2>4. MainTypes'
    BY <1>29 DEF MakeReport, Emit, Emitted
  <2> QED
    BY <2>1, <2>2, <2>3, <2>4
<1>30. CASE EmitSummary
  BY <1>30 DEF EmitSummary, Emit, Emitted
<1>31. CASE CreateSummary
  BY <1>31 DEF CreateSummary
<1>32. CASE WriteSummary
  BY <1>32 DEF WriteSummary
<1>33. CASE Fail
  BY <1>33 DEF Fail
<1>34. ASSUME NEW p \in Procs, KillPid(p) PROVE TypeOK'
  BY <1>34 DEF KillPid, Die
<1>35. CASE Expire
  BY <1>35 DEF Expire
<1>36. CASE UNCHANGED vars
  BY <1>36
<1>37. ASSUME NEW p \in Procs, Chmod(p) PROVE TypeOK'
  BY <1>37 DEF Chmod, Change
<1>38. CASE Prepare
  BY <1>38 DEF Prepare, Preparable
<1>39. CASE EmitDegraded
  BY <1>39 DEF EmitDegraded, Emit, Emitted
<1>40. CASE EmitPolicy
  BY <1>40 DEF EmitPolicy, Emit, Emitted
<1> QED
  BY <1>1, <1>2, <1>3, <1>4, <1>5, <1>6, <1>7, <1>8, <1>9, <1>10, <1>11, <1>12,
    <1>13, <1>14, <1>15, <1>16, <1>17, <1>18, <1>19, <1>20, <1>21, <1>22, <1>23,
    <1>24, <1>25, <1>26, <1>27, <1>28, <1>29, <1>30, <1>31, <1>32, <1>33, <1>34,
    <1>35, <1>36, <1>37, <1>38, <1>39, <1>40
  DEF Next, Command, Sampler, Reader, Main

\* What the main thread knows of the command and the threads stays so.
LEMMA PhaseStep == ASSUME RunInv, [Next]_vars PROVE Phases'
<1> USE RunAssumptions DEF RunInv, TypeOK, ProcessTypes, MainTypes, Phases, Early, Joined,
        vars, procs, threads, killing, store, output, trace, history, Procs, Root,
        NoProc, None, Mixed, Ended
<1>1. CASE Command
  BY <1>1 DEF Command, Fork, Setsid, Redirect, Write, Edit, Chmod, Change, Exit, Die
<1>2. CASE Sampler \/ Reader
  BY <1>2 DEF Sampler, Reader, SampleAgain, EmitSample,
      ReadChunk, EmitChunk, ReadEnd, Emitted
<1>3. CASE Spawn
  BY <1>3 DEF Spawn
<1>4. CASE StartThreads
  BY <1>4 DEF StartThreads, Emit, Emitted
<1>5. CASE Reap
  BY <1>5 DEF Reap
<1>6. CASE Join
  BY <1>6 DEF Join
<1>7. CASE CreateSummary
  BY <1>7 DEF CreateSummary
<1>8. CASE WriteSummary
  BY <1>8 DEF WriteSummary
<1>9. CASE KillGroup
  BY <1>9 DEF KillGroup, Die
<1>10. ASSUME NEW p \in Procs, KillPid(p) PROVE Phases'
  BY <1>10 DEF KillPid, Die
<1>11. CASE \/ Start \/ BeginRun \/ Prepare \/ EmitDegraded \/ EmitPolicy
               \/ StillRunning \/ Sleep \/ Deadline
               \/ ReadStat \/ SampleTree \/ EmitTimeout \/ Classify
               \/ CheckpointAfter \/ Settle \/ EmitDiff \/ MakeReport
               \/ EmitSummary \/ Fail
  BY <1>11 DEF Start, BeginRun, Prepare, EmitDegraded, EmitPolicy,
      StillRunning, Sleep, Deadline, ReadStat,
      SampleTree, EmitTimeout, Classify, CheckpointAfter, Settle,
      EmitDiff, MakeReport, EmitSummary, Fail, Emit, Emitted
<1>12. CASE Expire \/ UNCHANGED vars
  BY <1>12 DEF Expire
<1> QED
  BY <1>1, <1>2, <1>3, <1>4, <1>5, <1>6, <1>7, <1>8, <1>9, <1>10, <1>11, <1>12 DEF
    Next, Main

\* A checkpoint, once made, stays; only a failing rollback mixes the workspace.
LEMMA CheckpointStep == ASSUME RunInv, [Next]_vars PROVE Checkpoints'
<1> USE RunAssumptions DEF RunInv, TypeOK, ProcessTypes, StoreTypes, Phases, Early,
        Checkpoints, Settled,
        vars, procs, threads, killing, store, output, trace, history, Procs, Root,
        NoProc, None, Mixed, Ended
<1>1. CASE Command
  BY <1>1 DEF Command, Fork, Setsid, Redirect, Write, Edit, Chmod, Change, Exit, Die
<1>2. CASE Sampler \/ Reader
  BY <1>2 DEF Sampler, Reader, SampleAgain, EmitSample,
      ReadChunk, EmitChunk, ReadEnd, Emitted
<1>3. CASE BeginRun
  BY <1>3 DEF BeginRun, Emit, Emitted
<1>4. CASE CheckpointAfter
  BY <1>4 DEF CheckpointAfter
<1>5. CASE Settle
  BY <1>5 DEF Settle
<1>6. CASE Fail
  BY <1>6 DEF Fail
<1>7. CASE \/ Start \/ Prepare \/ EmitDegraded \/ EmitPolicy \/ Spawn
              \/ StartThreads \/ Reap \/ StillRunning
              \/ Sleep \/ Deadline \/ ReadStat \/ SampleTree \/ KillGroup
              \/ EmitTimeout \/ Join \/ Classify \/ EmitDiff \/ MakeReport
              \/ EmitSummary \/ CreateSummary \/ WriteSummary
              \/ \E p \in Procs : KillPid(p)
  BY <1>7 DEF Start, Prepare, EmitDegraded, EmitPolicy, Spawn, StartThreads, Reap,
      StillRunning, Sleep,
      Deadline, ReadStat, SampleTree, KillGroup, EmitTimeout, Join,
      Classify, EmitDiff, MakeReport, EmitSummary, CreateSummary,
      WriteSummary, KillPid, Die, Emit, Emitted
<1>8. CASE Expire \/ UNCHANGED vars
  BY <1>8 DEF Expire
<1> QED
  BY <1>1, <1>2, <1>3, <1>4, <1>5, <1>6, <1>7, <1>8 DEF Next, Main

\* The head moves for a success in time, and it stays one.
LEMMA HeadStep == ASSUME RunInv, [Next]_vars PROVE HeadMoved'
<1> USE RunAssumptions DEF RunInv, TypeOK, ProcessTypes, Phases, Early, Joined,
        HeadMoved, Succeeded, Settled,
        vars, procs, threads, killing, store, output, trace, history, Procs, Root,
        NoProc, None, Mixed, Ended
<1>1. CASE Command
  BY <1>1 DEF Command, Fork, Setsid, Redirect, Write, Edit, Chmod, Change, Exit, Die
<1>2. CASE Sampler \/ Reader
  BY <1>2 DEF Sampler, Reader, SampleAgain, EmitSample,
      ReadChunk, EmitChunk, ReadEnd, Emitted
<1>3. CASE Deadline
  BY <1>3 DEF Deadline
<1>4. CASE CheckpointAfter
  BY <1>4 DEF CheckpointAfter
<1>5. CASE Settle
  BY <1>5 DEF Settle
<1>6. CASE KillGroup
  BY <1>6 DEF KillGroup, Die
<1>7. ASSUME NEW p \in Procs, KillPid(p) PROVE HeadMoved'
  BY <1>7 DEF KillPid, Die
<1>8. CASE Fail
  BY <1>8 DEF Fail
<1>9. CASE \/ Start \/ BeginRun \/ Prepare \/ EmitDegraded \/ EmitPolicy
              \/ Spawn \/ StartThreads \/ Reap
              \/ StillRunning \/ Sleep \/ ReadStat \/ SampleTree
              \/ EmitTimeout \/ Join \/ Classify \/ EmitDiff \/ MakeReport
              \/ EmitSummary \/ CreateSummary \/ WriteSummary
  BY <1>9 DEF Start, BeginRun, Prepare, EmitDegraded, EmitPolicy,
      Spawn, StartThreads, Reap, StillRunning,
      Sleep, ReadStat, SampleTree, EmitTimeout, Join, Classify,
      EmitDiff, MakeReport, EmitSummary, CreateSummary, WriteSummary,
      Emit, Emitted
<1>10. CASE Expire \/ UNCHANGED vars
  BY <1>10 DEF Expire
<1> QED
  BY <1>1, <1>2, <1>3, <1>4, <1>5, <1>6, <1>7, <1>8, <1>9, <1>10 DEF Next, Main

\* The report stays true while the main thread goes on.
LEMMA ReportStep == ASSUME RunInv, [Next]_vars PROVE Reported'
<1> USE RunAssumptions DEF RunInv, TypeOK, ProcessTypes, ThreadTypes, MainTypes,
        StoreTypes, Phases, Early, Joined,
        HeadMoved, Checkpoints, Succeeded, Settled, Reported,
        vars, procs, threads, killing, store, output, trace, history, Procs, Root,
        NoProc, None, Mixed, Ended
<1>1. CASE Command
  <2>1. ASSUME NEW p \in Procs, Fork(p) PROVE Reported'
    BY <2>1 DEF Fork
  <2>2. ASSUME NEW p \in Procs, Setsid(p) PROVE Reported'
    BY <2>2 DEF Setsid
  <2>3. ASSUME NEW p \in Procs, Redirect(p) PROVE Reported'
    BY <2>3 DEF Redirect
  <2>4. ASSUME NEW p \in Procs, Write(p) PROVE Reported'
    BY <2>4 DEF Write
  <2>5. ASSUME NEW p \in Procs, Edit(p) PROVE Reported'
    BY <2>5 DEF Edit, Change
  <2>6. ASSUME NEW p \in Procs, NEW s \in {"ok", "bad"}, Exit(p, s) PROVE Reported'
    BY <2>6 DEF Exit, Die
  <2>7. ASSUME NEW p \in Procs, Chmod(p) PROVE Reported'
    BY <2>7 DEF Chmod, Change
  <2> QED
    BY <1>1, <2>1, <2>2, <2>3, <2>4, <2>5, <2>6, <2>7 DEF Command
<1>2. CASE Sampler \/ Reader
  BY <1>2 DEF Sampler, Reader, SampleAgain, EmitSample,
      ReadChunk, EmitChunk, ReadEnd, Emitted
<1>3. CASE Deadline
  BY <1>3 DEF Deadline
<1>4. CASE Join
  BY <1>4 DEF Join
<1>5. CASE Settle
  BY <1>5 DEF Settle
<1>6. CASE EmitDiff
  BY <1>6 DEF EmitDiff, Emit, Emitted
<1>7. CASE MakeReport
  BY <1>7 DEF MakeReport, Emit, Emitted
<1>8. CASE EmitSummary
  BY <1>8 DEF EmitSummary, Emit, Emitted
<1>9. CASE CreateSummary
  BY <1>9 DEF CreateSummary
<1>10. CASE WriteSummary
  BY <1>10 DEF WriteSummary
<1>11. CASE KillGroup
  BY <1>11 DEF KillGroup, Die
<1>12. ASSUME NEW p \in Procs, KillPid(p) PROVE Reported'
  BY <1>12 DEF KillPid, Die
<1>13. CASE Fail
  BY <1>13 DEF Fail
<1>14. CASE \/ Start \/ BeginRun \/ Prepare \/ EmitDegraded \/ EmitPolicy
              \/ Spawn \/ StartThreads \/ Reap
               \/ StillRunning \/ Sleep \/ ReadStat \/ SampleTree
               \/ EmitTimeout \/ Classify \/ CheckpointAfter
  BY <1>14 DEF Start, BeginRun, Prepare, EmitDegraded, EmitPolicy,
      Spawn, StartThreads, Reap, StillRunning,
      Sleep, ReadStat, SampleTree, EmitTimeout, Classify,
      CheckpointAfter, Emit, Emitted
<1>15. CASE Expire \/ UNCHANGED vars
  BY <1>15 DEF Expire
<1> QED
  BY <1>1, <1>2, <1>3, <1>4, <1>5, <1>6, <1>7, <1>8, <1>9, <1>10, <1>11, <1>12,
    <1>13, <1>14, <1>15 DEF Next, Main

\* Nothing is emitted behind run.summary.
LEMMA SilenceStep == ASSUME RunInv, [Next]_vars PROVE Silence'
<1> USE RunAssumptions DEF RunInv, TypeOK, ThreadTypes, MainTypes, Phases, Early, Joined,
        Silence,
        vars, procs, threads, killing, store, output, trace, history, Procs, Root,
        NoProc, None, Mixed, Ended
<1>1. CASE Command
  BY <1>1 DEF Command, Fork, Setsid, Redirect, Write, Edit, Chmod, Change, Exit, Die
<1>2. CASE Sampler \/ Reader
  BY <1>2 DEF Sampler, Reader, SampleAgain, EmitSample,
      ReadChunk, EmitChunk, ReadEnd, Emitted
<1>3. CASE Start
  BY <1>3 DEF Start, Emit, Emitted
<1>4. CASE BeginRun
  BY <1>4 DEF BeginRun, Emit, Emitted
<1>5. CASE StartThreads
  BY <1>5 DEF StartThreads, Emit, Emitted
<1>6. CASE EmitTimeout
  BY <1>6 DEF EmitTimeout, Emit, Emitted
<1>7. CASE Classify
  BY <1>7 DEF Classify, Emit, Emitted
<1>8. CASE EmitDiff
  BY <1>8 DEF EmitDiff, Emit, Emitted
<1>9. CASE MakeReport
  BY <1>9 DEF MakeReport, Emit, Emitted
<1>10. CASE EmitSummary
  BY <1>10 DEF EmitSummary, Emit, Emitted
<1>13. CASE EmitDegraded \/ EmitPolicy
  BY <1>13 DEF EmitDegraded, EmitPolicy, Emit, Emitted
<1>11. CASE \/ Prepare \/ Spawn \/ Reap \/ StillRunning \/ Sleep \/ Deadline \/ ReadStat
               \/ SampleTree \/ KillGroup \/ Join \/ CheckpointAfter
               \/ Settle \/ CreateSummary \/ WriteSummary \/ Fail
               \/ \E p \in Procs : KillPid(p)
  BY <1>11 DEF Prepare, Spawn, Reap, StillRunning, Sleep, Deadline, ReadStat,
      SampleTree, KillGroup, Join, CheckpointAfter, Settle,
      CreateSummary, WriteSummary, Fail, KillPid, Die
<1>12. CASE Expire \/ UNCHANGED vars
  BY <1>12 DEF Expire
<1> QED
  BY <1>1, <1>2, <1>3, <1>4, <1>5, <1>6, <1>7, <1>8, <1>9, <1>10, <1>11, <1>12, <1>13 DEF
    Next, Main

\* The kill loses no process of a tree that stays as it is.
LEMMA HuntStep == ASSUME RunInv, [Next]_vars PROVE Hunted'
<1> USE RunAssumptions DEF RunInv, TypeOK, ProcessTypes, MainTypes, Hunted,
        vars, procs, threads, killing, store, output, trace, history, Procs, Root,
        NoProc, None, Mixed, Ended
<1>1. CASE Command
  <2>1. ASSUME NEW p \in Procs, Fork(p) \/ Setsid(p) PROVE Hunted'
    BY <2>1 DEF Fork, Setsid
  <2>2. ASSUME NEW p \in Procs, Redirect(p) \/ Write(p) PROVE Hunted'
    BY <2>2 DEF Redirect, Write
  <2>3. ASSUME NEW p \in Procs, Edit(p) \/ Chmod(p) PROVE Hunted'
    BY <2>3 DEF Edit, Chmod, Change
  <2>4. ASSUME NEW p \in Procs, NEW s \in {"ok", "bad"}, Exit(p, s) PROVE Hunted'
    BY <2>4 DEF Exit, Die
  <2> QED
    BY <1>1, <2>1, <2>2, <2>3, <2>4 DEF Command
<1>2. CASE Sampler \/ Reader
  <2>1. UNCHANGED <<procs, killing, history, pc>>
    BY <1>2 DEF Sampler, Reader, SampleAgain, EmitSample, ReadChunk, EmitChunk, ReadEnd
  <2> QED
    BY <2>1
<1>3. CASE Deadline
  BY <1>3 DEF Deadline
<1>4. CASE ReadStat
  BY <1>4 DEF ReadStat
<1>5. CASE SampleTree
  <2>1. ASSUME tree # {}, NEW q \in Descendants(parent) \cap alive
        PROVE  q \in Descendants(ppids)
    <3> SUFFICES ASSUME NEW S \in SUBSET Procs, Root \in S,
                        \A p \in Procs : ppids[p] \in S => p \in S
                 PROVE  q \in S
      BY <2>1 DEF Descendants
    <3> DEFINE T == S \cup (Procs \ alive)
    <3>1. ASSUME NEW p \in Procs, parent[p] \in T PROVE p \in T
      <4>1. CASE p \in alive /\ p # Root
        <5>1. 0 < p /\ p < scan
          BY <1>5, <4>1 DEF SampleTree
        <5>2. ppids[p] = parent[p]
          BY <1>5, <2>1, <4>1, <5>1 DEF SampleTree
        <5>3. parent[p] \in alive
          BY <3>1
        <5> QED
          BY <3>1, <5>2, <5>3
      <4> QED
        BY <4>1
    <3>2. T \subseteq Procs /\ Root \in T
      OBVIOUS
    <3> QED
      BY <2>1, <3>1, <3>2 DEF Descendants
  <2>2. pc = "sample" /\ pc' = "group" /\ victims' = Descendants(ppids)
    BY <1>5 DEF SampleTree
  <2>3. tree' = tree /\ alive' = alive /\ group' = group
    BY <1>5 DEF SampleTree
  <2> QED
    BY <2>1, <2>2, <2>3
<1>6. CASE KillGroup
  BY <1>6 DEF KillGroup, Die
<1>7. ASSUME NEW p \in Procs, KillPid(p) PROVE Hunted'
  BY <1>7 DEF KillPid, Die
<1>8. CASE EmitTimeout
  BY <1>8 DEF EmitTimeout, Emit, Emitted
<1>9. CASE \/ Start \/ BeginRun \/ Prepare \/ EmitDegraded \/ EmitPolicy
              \/ Spawn \/ StartThreads \/ Reap
              \/ StillRunning \/ Sleep \/ Join \/ Classify
              \/ CheckpointAfter \/ Settle \/ EmitDiff \/ MakeReport
              \/ EmitSummary \/ CreateSummary \/ WriteSummary \/ Fail
  BY <1>9 DEF Start, BeginRun, Prepare, EmitDegraded, EmitPolicy,
      Spawn, StartThreads, Reap, StillRunning,
      Sleep, Join, Classify, CheckpointAfter, Settle, EmitDiff,
      MakeReport, EmitSummary, CreateSummary, WriteSummary, Fail,
      Emit, Emitted
<1>10. CASE Expire \/ UNCHANGED vars
  BY <1>10 DEF Expire
<1> QED
  BY <1>1, <1>2, <1>3, <1>4, <1>5, <1>6, <1>7, <1>8, <1>9, <1>10 DEF Next, Main

\* The command is born restricted or after the warning.
LEMMA ConfinedStep == ASSUME RunInv, [Next]_vars PROVE Confined'
<1> USE RunAssumptions DEF RunInv, TypeOK, ProcessTypes, ThreadTypes, MainTypes,
        Phases, Early, Confined, UngrantedWritesWarned,
        vars, procs, threads, killing, store, output, trace, history, Procs, Root,
        NoProc, None, Mixed, Ended
<1>1. CASE Command
  <2>1. ASSUME NEW p \in Procs, Edit(p) PROVE Confined'
    <3>1. born > 0
      BY <2>1 DEF Edit, Change
    <3> QED
      BY <2>1, <3>1 DEF Edit, Change
  <2>2. ASSUME NEW p \in Procs, Chmod(p) PROVE Confined'
    BY <2>2 DEF Chmod, Change
  <2>3. ASSUME NEW p \in Procs, Fork(p) PROVE Confined'
    BY <2>3 DEF Fork
  <2>4. ASSUME NEW p \in Procs, NEW s \in {"ok", "bad"}, Exit(p, s) PROVE Confined'
    BY <2>4 DEF Exit, Die
  <2>5. ASSUME NEW p \in Procs, Setsid(p) \/ Redirect(p) \/ Write(p) PROVE Confined'
    BY <2>5 DEF Setsid, Redirect, Write
  <2> QED
    BY <1>1, <2>1, <2>2, <2>3, <2>4, <2>5 DEF Command
<1>2. CASE Sampler \/ Reader
  BY <1>2 DEF Sampler, Reader, SampleAgain, EmitSample,
      ReadChunk, EmitChunk, ReadEnd, Emitted
<1>3. CASE Start \/ BeginRun
  BY <1>3 DEF Start, BeginRun, Emit, Emitted
<1>4. CASE Prepare
  BY <1>4 DEF Prepare, Preparable
<1>5. CASE EmitDegraded
  BY <1>5 DEF EmitDegraded, Emit, Emitted
<1>6. CASE EmitPolicy
  BY <1>6 DEF EmitPolicy, Emit, Emitted
<1>7. CASE Spawn
  BY <1>7 DEF Spawn, Restricted
<1>8. CASE \/ StartThreads \/ EmitTimeout \/ Classify \/ EmitDiff
           \/ MakeReport \/ EmitSummary
  BY <1>8 DEF StartThreads, EmitTimeout, Classify, EmitDiff, MakeReport,
      EmitSummary, Emit, Emitted
<1>9. CASE KillGroup \/ \E p \in Procs : KillPid(p)
  BY <1>9 DEF KillGroup, KillPid, Die
<1>10. CASE \/ Reap \/ StillRunning \/ Sleep \/ Deadline \/ ReadStat
            \/ SampleTree \/ Join \/ CheckpointAfter \/ Settle
            \/ CreateSummary \/ WriteSummary \/ Fail
  BY <1>10 DEF Reap, StillRunning, Sleep, Deadline, ReadStat, SampleTree, Join,
      CheckpointAfter, Settle, CreateSummary, WriteSummary, Fail
<1>11. CASE Expire \/ UNCHANGED vars
  BY <1>11 DEF Expire
<1> QED
  BY <1>1, <1>2, <1>3, <1>4, <1>5, <1>6, <1>7, <1>8, <1>9, <1>10, <1>11 DEF Next, Main

-----------------------------------------------------------------------------
\* The initial state satisfies the invariant.
LEMMA RunInit == Init => RunInv
<1> SUFFICES ASSUME Init PROVE RunInv
  OBVIOUS
<1> USE RunAssumptions DEF Procs, Root, NoProc, None, Mixed
<1>1. ProcessTypes
  <2>1. /\ alive = {} /\ born = 0 /\ parent = [p \in Procs |-> NoProc]
        /\ group = {} /\ pipe = {} /\ status = "none"
    BY DEF Init
  <2> QED
    BY <2>1 DEF ProcessTypes
<1>2. StoreTypes
  <2>1. /\ ws = 0 /\ head = None /\ before = None /\ after = None
        /\ edits = 0 /\ touched \in BOOLEAN /\ written \in BOOLEAN
    BY DEF Init
  <2> QED
    BY <2>1 DEF StoreTypes
<1>3. ThreadTypes
  <2>1. /\ inpipe = 0 /\ seen = 0 /\ sampler = "none" /\ reader = "none"
        /\ found = {} /\ late \in BOOLEAN /\ logged \in BOOLEAN /\ warned \in BOOLEAN
    BY DEF Init
  <2> QED
    BY <2>1 DEF ThreadTypes
<1>4. MainTypes
  <2>1. /\ pc = "start" /\ expired \in BOOLEAN /\ timedOut \in BOOLEAN /\ stop \in BOOLEAN
        /\ scan = 0 /\ ppids = [p \in Procs |-> NoProc] /\ victims = {} /\ tree = {}
        /\ summary = "absent" /\ sandbox = "none"
    BY DEF Init
  <2>2. report = [bytes |-> 0, findings |-> {}, committed |-> FALSE, rolledBack |-> FALSE]
    BY DEF Init
  <2>3. report \in [bytes : Nat, findings : SUBSET found,
                    committed : BOOLEAN, rolledBack : BOOLEAN]
    BY <2>2
  <2> QED
    BY <2>1, <2>3 DEF MainTypes
<1>5. Phases /\ Checkpoints
  BY DEF Init, Phases, Early, Joined, Checkpoints, Settled
<1>7. Confined
  BY DEF Init, Confined, UngrantedWritesWarned
<1>6. HeadMoved /\ Reported /\ Silence /\ Hunted
  BY DEF Init, HeadMoved, Joined, Reported, Settled, Silence, Hunted
<1> QED
  BY <1>1, <1>2, <1>3, <1>4, <1>5, <1>6, <1>7 DEF RunInv, TypeOK

\* It holds at every moment of a run.
LEMMA RunInvariant == Spec => []RunInv
<1>1. RunInv /\ [Next]_vars => RunInv'
  BY TypeStep, PhaseStep, CheckpointStep, HeadStep, ReportStep, SilenceStep, HuntStep,
    ConfinedStep
  DEF RunInv
<1> QED
  BY RunInit, <1>1, PTL DEF Spec

\* Every variable has its type, for any number of processes, edits and bytes,
\* wherever the run fails.
THEOREM RunTypeCorrect == Spec => []TypeOK
<1>1. RunInv => TypeOK
  BY DEF RunInv
<1> QED
  BY RunInvariant, <1>1, PTL

\* A run killed at its deadline never moves the head, even if its command
\* exited with status 0 while it was being killed.
THEOREM TimeoutSafe == Spec => []TimeoutNeverCommits
<1>1. RunInv => TimeoutNeverCommits
  BY DEF RunInv, HeadMoved, Succeeded, TimeoutNeverCommits
<1> QED
  BY RunInvariant, <1>1, PTL

\* What a summary file says of head, commit and rollback is what happened.
THEOREM SummaryIsTruthful == Spec => []SummaryTruthful
<1>1. RunInv => SummaryTruthful
  BY DEF RunInv, Reported, HeadMoved, Settled, Succeeded, SummaryTruthful
<1> QED
  BY RunInvariant, <1>1, PTL

\* A summary counts every byte and has every earlier finding of any thread.
THEOREM ReportIsComplete == Spec => []ReportComplete
<1>1. RunInv => ReportComplete
  BY DEF RunInv, Reported, ReportComplete
<1> QED
  BY RunInvariant, <1>1, PTL

\* No thread emits an event behind run.summary.
THEOREM SummaryIsLast == Spec => []SummaryEventLast
<1>1. RunInv => SummaryEventLast
  BY DEF RunInv, Silence, SummaryEventLast
<1> QED
  BY RunInvariant, <1>1, PTL

\* The kill at the deadline reaches a tree of any size and shape that does not
\* change while it is sampled and killed.
THEOREM KillIsThorough == Spec => []KillReachesTree
<1>1. RunInv => KillReachesTree
  BY DEF RunInv, Hunted, KillReachesTree
<1> QED
  BY RunInvariant, <1>1, PTL

\* Without a grant the command writes to the workspace only behind a warning
\* in the trace, under any policy and whatever its processes fork.
THEOREM SandboxHolds == Spec => []UngrantedWritesWarned
<1>1. RunInv => UngrantedWritesWarned
  BY DEF RunInv, Confined
<1> QED
  BY RunInvariant, <1>1, PTL

=============================================================================
