---------------------------- MODULE RunLifecycle ----------------------------
(***************************************************************************)
(* One `shadox run` (runner::linux::run, src/src/runner/linux.rs:26): the  *)
(* main thread, which checkpoints the workspace, spawns the command, waits *)
(* for it, kills it at the deadline and finishes the transaction; the      *)
(* thread that reads the output pipe; the sampler thread; and the command  *)
(* with the processes it forks.  Every event goes through TraceLogger::emit*)
(* and its observer script; an error there leaves `run` through a `?` when *)
(* the main thread emitted, and is ignored in the other threads.           *)
(*                                                                         *)
(* The checkpoints, the commit and the rollback are single steps here;     *)
(* ObjectStore and WorkspaceRestore take them apart.                       *)
(***************************************************************************)
EXTENDS Naturals

CONSTANTS
    Timed,      \* whether the policy has timeout_ms
    Rollback,   \* rollback_on_failure
    Commit,     \* commit_on_success
    Profile,    \* SandboxProfile
    Landlock,   \* security.landlock
    AllowDegraded, \* security.allow_degraded
    WriteList,  \* fs.write, the places the command may write to
    Cwd,        \* the place that is process.cwd
    Watched,    \* kinds of events the observer script has a finding for
    MayFail,    \* whether emits and file operations may return an error
    MaxForks,   \* bound: processes the command and its descendants fork
    MaxEdits,   \* bound: edits of the workspace
    MaxWrites   \* bound: writes to the pipe

ASSUME RunAssumptions ==
    /\ Timed \in BOOLEAN /\ Rollback \in BOOLEAN /\ Commit \in BOOLEAN
    /\ MayFail \in BOOLEAN /\ Landlock \in BOOLEAN /\ AllowDegraded \in BOOLEAN
    /\ Profile \in {"agent-default", "read-only", "workspace-write", "permissive-observe"}
    /\ MaxForks \in Nat /\ MaxEdits \in Nat /\ MaxWrites \in Nat

VARIABLES
    alive,      \* the processes that run
    born,       \* how many processes there ever were
    parent,     \* the ppid field of each process
    group,      \* the processes that run in the process group of Root
    pipe,       \* the processes whose stdout or stderr is the pipe
    status,     \* of Root, for wait4: "none", "ok" (exit status 0) or "bad"
    inpipe,     \* bytes in the pipe
    ws,         \* the workspace: the number of the edit that made it what it is
    head,       \* refs/head: the edit whose checkpoint it names
    pc,         \* the main thread
    expired,    \* the deadline of wait_for_child has passed
    timedOut,   \* timed_out of wait_for_child
    scan,       \* the pid whose stat collect_ppid_map reads next
    ppids,      \* what it has read
    victims,    \* pids kill_process_tree has still to kill
    sandbox,    \* Landlock: "none" yet, "off", a "ruleset", "enforced" on the
                \* command, or "degraded" to nothing
    stop,       \* stop_sampler
    sampler, reader,    \* the threads
    seen,       \* OutputAccumulator: bytes read
    before, after,      \* the two checkpoints
    found,      \* findings of the logger
    report,     \* what run has put in its report so far
    summary,    \* the summary file: "absent", "torn" or "whole"
    late,       \* history: an event was emitted behind run.summary
    logged,     \* history: run.summary was emitted
    warned,     \* history: sandbox.degraded was emitted for Landlock
    tree,       \* history: the command's tree when the kill began, if no
                \* process forked, exited or left its group since
    edits, touched, \* history: how many; one since the workspace was settled
    written     \* history: one of them was a write

procs == <<alive, born, parent, group, pipe, status>>
threads == <<sampler, reader>>
killing == <<scan, ppids, victims>>
store == <<ws, head, before, after>>
output == <<inpipe, seen>>
trace == <<found, late, logged, warned>>
history == <<tree, edits, touched, written>>
vars == <<procs, threads, killing, store, output, trace, history,
          pc, expired, timedOut, stop, report, summary, sandbox>>

Procs == 0..MaxForks    \* by pid
Root == 0               \* the spawned command
NoProc == MaxForks + 1  \* a parent that is not one of them

None == MaxEdits + 1    \* "no checkpoint"
Mixed == MaxEdits + 2   \* a workspace a rollback left half restored

Ended == pc \in {"done", "failed"}

\* effective_policy
Landlocked == Landlock /\ Profile # "permissive-observe"
Granted == IF WriteList = {} /\ Profile \in {"agent-default", "workspace-write"}
           THEN {Cwd} ELSE WriteList

\* Root and what is linked to it by parent pids.
Descendants(up) ==
    {q \in Procs : \A S \in SUBSET Procs :
        Root \in S /\ (\A p \in Procs : up[p] \in S => p \in S) => q \in S}

Init ==
    /\ alive = {} /\ born = 0 /\ parent = [p \in Procs |-> NoProc]
    /\ group = {} /\ pipe = {} /\ status = "none"
    /\ inpipe = 0 /\ seen = 0
    /\ ws = 0 /\ head = None /\ before = None /\ after = None
    /\ pc = "start" /\ expired = FALSE /\ timedOut = FALSE
    /\ scan = 0 /\ ppids = [p \in Procs |-> NoProc] /\ victims = {}
    /\ stop = FALSE /\ sampler = "none" /\ reader = "none"
    /\ found = {} /\ late = FALSE /\ logged = FALSE /\ warned = FALSE
    /\ sandbox = "none"
    /\ report = [bytes |-> 0, findings |-> {}, committed |-> FALSE, rolledBack |-> FALSE]
    /\ summary = "absent"
    /\ tree = {} /\ edits = 0 /\ touched = FALSE /\ written = FALSE

-----------------------------------------------------------------------------
(* The command and its descendants, for as long as shadox runs. *)

\* A child is born into its parent's group, with its parent's stdout.
Fork(p) ==
    /\ ~Ended /\ p \in alive /\ born <= MaxForks
    /\ born' = born + 1
    /\ alive' = alive \cup {born}
    /\ parent' = [parent EXCEPT ![born] = p]
    /\ group' = IF p \in group THEN group \cup {born} ELSE group
    /\ pipe' = IF p \in pipe THEN pipe \cup {born} ELSE pipe
    /\ tree' = {}
    /\ UNCHANGED <<status, threads, killing, store, output, trace, pc, expired,
                   timedOut, stop, report, summary, sandbox, edits, touched, written>>

\* The leader of a group cannot leave it.
Setsid(p) ==
    /\ ~Ended /\ p \in group \ {Root}
    /\ group' = group \ {p}
    /\ tree' = {}
    /\ UNCHANGED <<alive, born, parent, pipe, status, threads, killing, store, output,
                   trace, pc, expired, timedOut, stop, report, summary, sandbox,
                   edits, touched, written>>

Redirect(p) ==
    /\ ~Ended /\ p \in pipe
    /\ pipe' = pipe \ {p}
    /\ UNCHANGED <<alive, born, parent, group, status, threads, killing, store, output,
                   trace, pc, expired, timedOut, stop, report, summary, sandbox, history>>

\* The processes of S end; their children are handed to init.
Die(S, s) ==
    /\ alive' = alive \ S
    /\ group' = group \ S /\ pipe' = pipe \ S
    /\ parent' = [q \in Procs |-> IF parent[q] \in S \cap alive THEN NoProc ELSE parent[q]]
    /\ status' = IF Root \in S \cap alive THEN s ELSE status

Exit(p, s) ==
    /\ ~Ended /\ p \in alive
    /\ Die({p}, s)
    /\ tree' = {}
    /\ UNCHANGED <<born, threads, killing, store, output, trace, pc, expired,
                   timedOut, stop, report, summary, sandbox, edits, touched, written>>

Write(p) ==
    /\ ~Ended /\ p \in pipe /\ inpipe + seen < MaxWrites
    /\ inpipe' = inpipe + 1
    /\ UNCHANGED <<procs, threads, killing, store, seen, trace, pc, expired,
                   timedOut, stop, report, summary, sandbox, history>>

Change(p) ==
    /\ ~Ended /\ p \in alive /\ edits < MaxEdits
    /\ edits' = edits + 1 /\ ws' = edits + 1 /\ touched' = TRUE
    /\ UNCHANGED <<procs, threads, killing, head, before, after, output, trace, pc, expired,
                   timedOut, stop, report, summary, sandbox, tree>>

\* A write, creation or removal: each Landlock version governs them all, in
\* every process the restricted command forks.
Edit(p) ==
    /\ sandbox = "enforced" => "workspace" \in Granted
    /\ Change(p)
    /\ written' = TRUE

\* No version governs chmod and chown, the first two do not govern truncate.
Chmod(p) ==
    /\ Change(p)
    /\ UNCHANGED written

-----------------------------------------------------------------------------
(* The sampler and reader threads, until shadox exits. *)

Emitted(k) ==
    /\ found' = found \cup ({k} \cap Watched)
    /\ late' = (late \/ logged)
    /\ logged' = (logged \/ k = "run.summary")
    /\ warned' = (warned \/ k = "sandbox.degraded")

\* while !stop: sample /proc and emit, then look again after a sleep.
SampleAgain ==
    /\ ~Ended /\ sampler = "check"
    /\ sampler' = IF stop THEN "ended" ELSE "emit"
    /\ UNCHANGED <<procs, reader, killing, store, output, trace, history,
                   pc, expired, timedOut, stop, report, summary, sandbox>>

EmitSample ==
    /\ ~Ended /\ sampler = "emit"
    /\ sampler' = "check"
    /\ Emitted("proc.sample")
    /\ UNCHANGED <<procs, reader, killing, store, output, history,
                   pc, expired, timedOut, stop, report, summary, sandbox>>

\* Fault: a chunk is counted by the reader and by the accumulator.
ReadCountsTwice ==
    /\ ~Ended /\ reader = "read" /\ inpipe > 0
    /\ \E n \in 1..inpipe : inpipe' = inpipe - n /\ seen' = seen + 2 * n
    /\ reader' = "emit"
    /\ UNCHANGED <<procs, sampler, killing, store, trace, history,
                   pc, expired, timedOut, stop, report, summary, sandbox>>

ReadChunk ==
    /\ ~Ended /\ reader = "read" /\ inpipe > 0
    /\ \E n \in 1..inpipe : inpipe' = inpipe - n /\ seen' = seen + n
    /\ reader' = "emit"
    /\ UNCHANGED <<procs, sampler, killing, store, trace, history,
                   pc, expired, timedOut, stop, report, summary, sandbox>>

EmitChunk ==
    /\ ~Ended /\ reader = "emit"
    /\ reader' = "read"
    /\ Emitted("chunk")
    /\ UNCHANGED <<procs, sampler, killing, store, output, history,
                   pc, expired, timedOut, stop, report, summary, sandbox>>

\* End of file: the pipe is empty and no process holds its other end.
ReadEnd ==
    /\ ~Ended /\ reader = "read" /\ inpipe = 0 /\ pipe = {}
    /\ reader' = "ended"
    /\ UNCHANGED <<procs, sampler, killing, store, output, trace, history,
                   pc, expired, timedOut, stop, report, summary, sandbox>>

-----------------------------------------------------------------------------
(* The main thread. *)

\* The main thread emits k; an error there ends the run.
Emit(k, next) ==
    /\ Emitted(k)
    /\ pc' = next \/ (MayFail /\ pc' = "failed")

\* Any other call of the main thread returns an error.
Fail ==
    /\ MayFail
    /\ pc \in {"begin", "prepare", "spawn", "after", "settle", "create", "write"}
    /\ pc' = "failed"
    /\ \/ UNCHANGED <<ws, head>>
       \* commit compacts after it wrote the head; rollback stops anywhere.
       \/ pc = "settle" /\ ~timedOut /\ status = "ok" /\ Commit /\ head' = after /\ UNCHANGED ws
       \/ pc = "settle" /\ (timedOut \/ status # "ok") /\ Rollback /\ ws' = Mixed /\ UNCHANGED head
    /\ UNCHANGED <<procs, threads, killing, before, after, output, trace, history,
                   expired, timedOut, stop, report, summary, sandbox>>

Start ==
    /\ pc = "start"
    /\ Emit("run.start", "begin")
    /\ UNCHANGED <<procs, threads, killing, store, output, history,
                   expired, timedOut, stop, report, summary, sandbox>>

\* begin_run and its event.
BeginRun ==
    /\ pc = "begin"
    /\ before' = ws
    /\ Emit("fs.checkpoint", "prepare")
    /\ UNCHANGED <<procs, threads, killing, ws, head, after, output, history,
                   expired, timedOut, stop, report, summary, sandbox>>

\* What PreparedSandbox::prepare makes of the policy: with allow_degraded one
\* rule that cannot be added (Landlock missing, a path that does not exist)
\* takes all of them away.
Preparable ==
    IF ~Landlocked THEN {"off"}
    ELSE {"ruleset"} \cup {d \in {"degraded"} : AllowDegraded /\ MayFail}

\* Fault: a sandbox that cannot be built is left out without a word.
PrepareQuiet ==
    /\ pc = "prepare"
    /\ sandbox' \in Preparable
    /\ pc' = "policy"
    /\ UNCHANGED <<procs, threads, killing, store, output, trace, history,
                   expired, timedOut, stop, report, summary>>

\* The ruleset is built rule by rule, or a failure there is let pass; Fail is
\* the failure that is not.
Prepare ==
    /\ pc = "prepare"
    /\ sandbox' \in Preparable
    /\ pc' = IF sandbox' = "degraded" THEN "degraded" ELSE "policy"
    /\ UNCHANGED <<procs, threads, killing, store, output, trace, history,
                   expired, timedOut, stop, report, summary>>

EmitDegraded ==
    /\ pc = "degraded"
    /\ Emit("sandbox.degraded", "policy")
    /\ UNCHANGED <<procs, threads, killing, store, output, history,
                   expired, timedOut, stop, report, summary, sandbox>>

EmitPolicy ==
    /\ pc = "policy"
    /\ Emit("sandbox.policy", "spawn")
    /\ UNCHANGED <<procs, threads, killing, store, output, history,
                   expired, timedOut, stop, report, summary, sandbox>>

\* child_pre_exec: group, limits, no_new_privs, Landlock, seccomp, in this
\* order and before the exec; spawn fails with the first that is refused.
Restricted == IF sandbox = "ruleset" THEN "enforced" ELSE sandbox

Spawn ==
    /\ pc = "spawn"
    /\ alive' = {Root} /\ born' = 1 /\ group' = {Root} /\ pipe' = {Root}
    /\ sandbox' = Restricted
    /\ pc' = "spawned"
    /\ UNCHANGED <<parent, status, threads, killing, store, output, trace, history,
                   expired, timedOut, stop, report, summary>>

StartThreads ==
    /\ pc = "spawned"
    /\ Emit("process.spawn", "wait")
    /\ IF pc' = "wait" THEN sampler' = "check" /\ reader' = "read"
                       ELSE UNCHANGED threads
    /\ UNCHANGED <<procs, killing, store, output, history,
                   expired, timedOut, stop, report, summary, sandbox>>

\* Fault: the sampler is joined but not told to stop.
ReapSilent ==
    /\ pc = "wait" /\ status # "none"
    /\ expired' = FALSE
    /\ pc' = "join"
    /\ UNCHANGED <<procs, threads, killing, store, output, trace, history,
                   timedOut, stop, report, summary, sandbox>>

\* wait4(WNOHANG) found Root dead: stop_sampler is set, the threads are joined.
Reap ==
    /\ pc = "wait" /\ status # "none"
    /\ stop' = TRUE /\ expired' = FALSE
    /\ pc' = "join"
    /\ UNCHANGED <<procs, threads, killing, store, output, trace, history,
                   timedOut, report, summary, sandbox>>

StillRunning ==
    /\ pc = "wait" /\ status = "none"
    /\ pc' = "clock"
    /\ UNCHANGED <<procs, threads, killing, store, output, trace, history,
                   expired, timedOut, stop, report, summary, sandbox>>

\* Time passes.
Expire ==
    /\ Timed /\ pc \in {"wait", "clock"} /\ ~expired
    /\ expired' = TRUE
    /\ UNCHANGED <<procs, threads, killing, store, output, trace, history,
                   pc, timedOut, stop, report, summary, sandbox>>

Sleep ==
    /\ pc = "clock" /\ (~expired \/ timedOut)
    /\ pc' = "wait"
    /\ UNCHANGED <<procs, threads, killing, store, output, trace, history,
                   expired, timedOut, stop, report, summary, sandbox>>

\* Root may have exited since wait4 looked.
Deadline ==
    /\ pc = "clock" /\ expired /\ ~timedOut
    /\ timedOut' = TRUE
    /\ scan' = 1
    /\ tree' = (Descendants(parent) \cup group) \cap alive
    /\ pc' = "sample"
    /\ UNCHANGED <<procs, threads, ppids, victims, store, output, trace, edits, touched, written,
                   expired, stop, report, summary, sandbox>>

\* collect_ppid_map reads one stat file after the other, by ascending pid.
ReadStat ==
    /\ pc = "sample" /\ scan \in Procs
    /\ scan' = scan + 1
    /\ ppids' = [ppids EXCEPT ![scan] = IF scan \in alive THEN parent[scan] ELSE NoProc]
    /\ UNCHANGED <<procs, threads, victims, store, output, trace, history,
                   pc, expired, timedOut, stop, report, summary, sandbox>>

\* Fault: only the children of the command are looked for.
ChildrenOnly ==
    /\ pc = "sample" /\ scan = MaxForks + 1
    /\ victims' = {p \in Procs : p = Root \/ ppids[p] = Root}
    /\ scan' = 0
    /\ pc' = "group"
    /\ UNCHANGED <<procs, threads, ppids, store, output, trace, history,
                   expired, timedOut, stop, report, summary, sandbox>>

SampleTree ==
    /\ pc = "sample" /\ scan = MaxForks + 1
    /\ victims' = Descendants(ppids)
    /\ scan' = 0
    /\ pc' = "group"
    /\ UNCHANGED <<procs, threads, ppids, store, output, trace, history,
                   expired, timedOut, stop, report, summary, sandbox>>

KillGroup ==
    /\ pc = "group"
    /\ Die(group, "bad")
    /\ pc' = "kill"
    /\ UNCHANGED <<born, threads, killing, store, output, trace, history,
                   expired, timedOut, stop, report, summary, sandbox>>

\* Deepest first; a pid that is gone is no error.
KillPid(p) ==
    /\ pc = "kill" /\ p \in victims
    /\ \A q \in victims : ppids[q] # p
    /\ Die({p}, "bad")
    /\ victims' = victims \ {p}
    /\ UNCHANGED <<born, threads, scan, ppids, store, output, trace, history,
                   pc, expired, timedOut, stop, report, summary, sandbox>>

EmitTimeout ==
    /\ pc = "kill" /\ victims = {}
    /\ Emit("sandbox.denied", "wait")
    /\ ppids' = [p \in Procs |-> NoProc]
    /\ tree' = {}
    /\ UNCHANGED <<procs, threads, scan, victims, store, output, edits, touched, written,
                   expired, timedOut, stop, report, summary, sandbox>>

\* Fault: the sampler is not waited for.
JoinReader ==
    /\ pc = "join" /\ reader = "ended"
    /\ report' = [report EXCEPT !.bytes = seen]
    /\ pc' = "classify"
    /\ UNCHANGED <<procs, threads, killing, store, output, trace, history,
                   expired, timedOut, stop, summary, sandbox>>

\* Fault: the reader is not waited for.
JoinSampler ==
    /\ pc = "join" /\ sampler = "ended"
    /\ report' = [report EXCEPT !.bytes = seen]
    /\ pc' = "classify"
    /\ UNCHANGED <<procs, threads, killing, store, output, trace, history,
                   expired, timedOut, stop, summary, sandbox>>

Join ==
    /\ pc = "join" /\ sampler = "ended" /\ reader = "ended"
    /\ report' = [report EXCEPT !.bytes = seen]
    /\ pc' = "classify"
    /\ UNCHANGED <<procs, threads, killing, store, output, trace, history,
                   expired, timedOut, stop, summary, sandbox>>

\* Fault: the exit status is looked at before timed_out.
StatusFirst == status = "ok"

\* classify_failure
Succeeded == ~timedOut /\ status = "ok"

\* A denial is emitted for a timeout, and for the failures that look like one.
Classify ==
    /\ pc = "classify"
    /\ \/ ~Succeeded /\ Emit("sandbox.denied", "after")
       \/ (timedOut => Succeeded) /\ pc' = "after" /\ UNCHANGED trace
    /\ UNCHANGED <<procs, threads, killing, store, output, history,
                   expired, timedOut, stop, report, summary, sandbox>>

\* finish_run: the checkpoint after and the journal, then commit or rollback.
CheckpointAfter ==
    /\ pc = "after"
    /\ after' = ws
    /\ pc' = "settle"
    /\ UNCHANGED <<procs, threads, killing, ws, head, before, output, trace, history,
                   expired, timedOut, stop, report, summary, sandbox>>

\* Fault: the report is filled from the policy, not from what was done.
SettleAsAsked ==
    /\ pc = "settle"
    /\ head' = IF Succeeded /\ Commit THEN after ELSE head
    /\ ws' = IF ~Succeeded /\ Rollback THEN before ELSE ws
    /\ report' = [report EXCEPT !.committed = Commit, !.rolledBack = Rollback]
    /\ touched' = FALSE
    /\ pc' = "diff"
    /\ UNCHANGED <<procs, threads, killing, before, after, output, trace,
                   tree, edits, written, expired, timedOut, stop, summary, sandbox>>

Settle ==
    /\ pc = "settle"
    /\ head' = IF Succeeded /\ Commit THEN after ELSE head
    /\ ws' = IF ~Succeeded /\ Rollback THEN before ELSE ws
    /\ report' = [report EXCEPT !.committed = Succeeded /\ Commit,
                                !.rolledBack = ~Succeeded /\ Rollback]
    /\ touched' = FALSE
    /\ pc' = "diff"
    /\ UNCHANGED <<procs, threads, killing, before, after, output, trace,
                   tree, edits, written, expired, timedOut, stop, summary, sandbox>>

\* fs.diff, fs.commit and fs.rollback
EmitDiff ==
    /\ pc = "diff"
    /\ Emit("fs.diff", "report")
    /\ UNCHANGED <<procs, threads, killing, store, output, history,
                   expired, timedOut, stop, report, summary, sandbox>>

\* The report takes the findings, then process.exit is emitted.
MakeReport ==
    /\ pc = "report"
    /\ report' = [report EXCEPT !.findings = found]
    /\ Emit("process.exit", "summary")
    /\ UNCHANGED <<procs, threads, killing, store, output, history,
                   expired, timedOut, stop, summary, sandbox>>

EmitSummary ==
    /\ pc = "summary"
    /\ Emit("run.summary", "create")
    /\ UNCHANGED <<procs, threads, killing, store, output, history,
                   expired, timedOut, stop, report, summary, sandbox>>

CreateSummary ==
    /\ pc = "create"
    /\ summary' = "torn"
    /\ pc' = "write"
    /\ UNCHANGED <<procs, threads, killing, store, output, trace, history,
                   expired, timedOut, stop, report, sandbox>>

WriteSummary ==
    /\ pc = "write"
    /\ summary' = "whole"
    /\ pc' = "done"
    /\ UNCHANGED <<procs, threads, killing, store, output, trace, history,
                   expired, timedOut, stop, report, sandbox>>

-----------------------------------------------------------------------------
Command ==
    \/ \E p \in Procs : Fork(p) \/ Setsid(p) \/ Redirect(p) \/ Write(p)
                       \/ Edit(p) \/ Chmod(p)
    \/ \E p \in Procs, s \in {"ok", "bad"} : Exit(p, s)

Sampler == SampleAgain \/ EmitSample
Reader == ReadChunk \/ EmitChunk \/ ReadEnd

Main ==
    \/ Start \/ BeginRun \/ Prepare \/ EmitDegraded \/ EmitPolicy \/ Spawn \/ StartThreads
    \/ Reap \/ StillRunning \/ Sleep \/ Deadline
    \/ ReadStat \/ \E p \in Procs : KillPid(p)
    \/ SampleTree \/ KillGroup \/ EmitTimeout
    \/ Join \/ Classify \/ CheckpointAfter \/ Settle \/ EmitDiff
    \/ MakeReport \/ EmitSummary \/ CreateSummary \/ WriteSummary \/ Fail

Next == Command \/ Sampler \/ Reader \/ Main \/ Expire

\* Threads that can run do, and time passes; the command need not do anything.
Fairness == WF_vars(Main) /\ WF_vars(Sampler) /\ WF_vars(Reader) /\ WF_vars(Expire)

Spec == Init /\ [][Next]_vars /\ Fairness

-----------------------------------------------------------------------------
ProcessTypes ==
    /\ born \in 0..(MaxForks + 1) /\ alive \subseteq Procs
    /\ \A p \in alive : p < born
    /\ group \cup pipe \subseteq alive
    /\ parent \in [Procs -> alive \cup {NoProc}] /\ parent[Root] = NoProc
    /\ status \in {"none", "ok", "bad"}
    /\ status # "none" <=> born > 0 /\ Root \notin alive

StoreTypes ==
    /\ edits \in 0..MaxEdits /\ touched \in BOOLEAN /\ written \in BOOLEAN
    /\ ws \in 0..edits \cup {Mixed}
    /\ {head, before, after} \subseteq 0..edits \cup {None}

ThreadTypes ==
    /\ inpipe \in Nat /\ seen \in Nat /\ inpipe + seen <= MaxWrites
    /\ sampler \in {"none", "check", "emit", "ended"}
    /\ reader \in {"none", "read", "emit", "ended"}
    /\ found \subseteq Watched /\ late \in BOOLEAN /\ logged \in BOOLEAN /\ warned \in BOOLEAN

MainTypes ==
    /\ pc \in {"start", "begin", "prepare", "degraded", "policy", "spawn", "spawned", "wait", "clock", "sample",
               "group", "kill", "join", "classify", "after", "settle", "diff",
               "report", "summary", "create", "write", "done", "failed"}
    /\ scan \in 0..(MaxForks + 1) /\ ppids \in [Procs -> Procs \cup {NoProc}]
    /\ victims \subseteq Procs /\ tree \subseteq Procs
    /\ expired \in BOOLEAN /\ timedOut \in BOOLEAN /\ stop \in BOOLEAN
    /\ report \in [bytes : Nat, findings : SUBSET found,
                   committed : BOOLEAN, rolledBack : BOOLEAN]
    /\ summary \in {"absent", "torn", "whole"}
    /\ sandbox \in {"none", "off", "ruleset", "enforced", "degraded"}

\* Every variable has its type, a process that is in the group, holds the pipe
\* or has a parent is one that was forked, and the report has no finding that
\* no event had.
TypeOK == ProcessTypes /\ StoreTypes /\ ThreadTypes /\ MainTypes

\* What the summary says of the workspace is so: committed means the head
\* names the checkpoint after a run that neither timed out nor failed, rolled
\* back means that the workspace is the one before, unless a process the
\* command left behind has edited it since.
SummaryTruthful ==
    summary # "absent" =>
        /\ report.committed <=> head # None
        /\ report.committed => head = after /\ ~timedOut /\ status = "ok"
        /\ report.rolledBack /\ ~touched => ws = before
        /\ ~report.committed /\ ~report.rolledBack =>
               (Succeeded /\ ~Commit) \/ (~Succeeded /\ ~Rollback)

\* A run that was killed at its deadline never moves the head, even if its
\* command exits with status 0 between the last wait4 and the kill.
TimeoutNeverCommits == timedOut => head = None

\* The summary counts every byte the command and its descendants wrote, and
\* has every finding except those for process.exit and run.summary, whichever
\* thread emitted the event.
ReportComplete ==
    summary # "absent" =>
        /\ report.bytes = seen + inpipe
        /\ found \ {"process.exit", "run.summary"} \subseteq report.findings

\* run.summary is the last event of a trace: no thread emits behind it.
SummaryEventLast == ~late

\* The kill at the deadline reaches every process that was linked to the
\* command by live parents or its process group, detached ones included,
\* unless one of them forked, exited or left its session meanwhile.
KillReachesTree ==
    pc = "kill" /\ victims = {} => tree \cap alive = {}

\* When Landlock is on and the policy grants no write to the workspace, the
\* command writes there only in a run whose trace has said before that the
\* sandbox is degraded, whichever of the calls on the way failed.
UngrantedWritesWarned ==
    written /\ Landlocked => "workspace" \in Granted \/ warned

\* A run with a deadline ends, whatever the command itself does, once no
\* other process keeps the pipe open for ever.
TimedRunEnds == <>[](pipe \subseteq {Root}) => <>Ended

=============================================================================
