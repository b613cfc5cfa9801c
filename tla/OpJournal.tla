----------------------------- MODULE OpJournal ------------------------------
(***************************************************************************)
(* The operation journal of one run: append_operation_event                *)
(* (src/src/versioned_fs.rs:748) on behalf of the mounts, or other         *)
(* adapters, that record under a run id; compact_journal_file (1272),      *)
(* which `fs commit` and `fs checkpoint --source-run-id` run in processes  *)
(* of their own; and read_operation_journal (1322) in the processes that   *)
(* list, replay or restore.  Nothing locks the journal, so every exists(), *)
(* open, read, write, unlink and rename is a step of its own, and nothing  *)
(* keeps two mounts from recording under one run id (src/src/main.rs:216). *)
(***************************************************************************)
EXTENDS Naturals, Sequences, FiniteSets

CONSTANTS
    Recorders,  \* processes that record under the run id
    Compactors, \* processes that may compact the run's journal
    Readers,    \* processes that may read it
    Bases,      \* checkpoints a recorder may use as its base
    NoLog,      \* "no file has this name"
    MaxEvents,  \* bound: appends attempted
    MaxCrashes  \* bound: how often a recorder dies

ASSUME OpJournalAssumptions ==
    /\ Bases # {}
    /\ MaxEvents \in Nat /\ MaxCrashes \in Nat
    /\ NoLog \notin Nat \cup {"active", "compacted"}
    /\ Recorders \cap Readers = {}

VARIABLES
    logs,       \* the content of each journal file ever made, by inode
    active,     \* the inode operation-journals/<run>.jsonl names
    compacted,  \* the inode operation-journals/compacted/<run>.jsonl names
    rpc,        \* each recorder's next call
    rbase,      \* its base checkpoint
    event,      \* the event it is to append
    len,        \* existing.len() in its append_operation_event
    out,        \* the file it appends to
    from,       \* the name read_operation_journal resolved to, per process
    cpc,        \* each compactor's next call
    dpc,        \* each reader's next call
    got,        \* what a reader has read
    acked,      \* history: the events whose append returned Ok
    before,     \* history: `acked` when a reader began
    tried,      \* history: the appends so far
    crashes,    \* history: how often a recorder died
    crossed,    \* history: two recorders were in an append at once
    split,      \* history: a journal was made anew, or a compacted one removed
    glued       \* history: bytes of two events stand on one line

recorder == <<rpc, rbase, event, len, out>>
history == <<acked, before, tried, crashes, crossed, split, glued>>
vars == <<logs, active, compacted, recorder, from, cpc, dpc, got, history>>

Inodes == DOMAIN logs

\* A line is "torn" while its JSON is written, "open" until its newline is,
\* then "whole".  With bytes of two events, or a part of one, it is "mixed",
\* and "bad" once a newline ends it.
Line(n, s, b, st) == [event |-> n, seq |-> s, base |-> b, state |-> st]

Readable(f) == f # NoLog /\ \A i \in DOMAIN logs[f] : logs[f][i].state \in {"open", "whole"}
Events(log) == {log[i].event : i \in DOMAIN log}

Appending(r) == rpc[r] \notin {"down", "ready"}

Init ==
    /\ logs = <<>> /\ active = NoLog /\ compacted = NoLog
    /\ rpc = [r \in Recorders |-> "ready"] /\ rbase \in [Recorders -> Bases]
    /\ event = [r \in Recorders |-> 0] /\ len = [r \in Recorders |-> 0]
    /\ out = [r \in Recorders |-> NoLog]
    /\ from = [p \in Readers \cup Recorders |-> NoLog]
    /\ cpc = [c \in Compactors |-> "idle"]
    /\ dpc = [d \in Readers |-> "idle"]
    /\ got = [d \in Readers |-> <<>>]
    /\ acked = {} /\ before = [d \in Readers |-> {}]
    /\ tried = 0 /\ crashes = 0
    /\ crossed = FALSE /\ split = FALSE /\ glued = FALSE

-----------------------------------------------------------------------------
(* append_operation_event *)

Goto(r, call) == rpc' = [rpc EXCEPT ![r] = call]

\* A compacted journal is closed: the append is refused, the session goes on.
RefuseAppend(r) ==
    /\ rpc[r] = "ready" /\ tried < MaxEvents /\ compacted # NoLog
    /\ tried' = tried + 1
    /\ UNCHANGED <<logs, active, compacted, recorder, from, cpc, dpc, got,
                   acked, before, crashes, crossed, split, glued>>

BeginAppend(r) ==
    /\ rpc[r] = "ready" /\ tried < MaxEvents /\ compacted = NoLog
    /\ tried' = tried + 1
    /\ event' = [event EXCEPT ![r] = tried + 1]
    /\ Goto(r, "exists")
    /\ crossed' = (crossed \/ \E s \in Recorders \ {r} : Appending(s))
    /\ UNCHANGED <<logs, active, compacted, rbase, len, out, from, cpc, dpc, got,
                   acked, before, crashes, split, glued>>

\* path.exists(): without a journal there is nothing to read.
FindActive(r) ==
    /\ rpc[r] = "exists"
    /\ Goto(r, IF active = NoLog THEN "open" ELSE "locate")
    /\ len' = [len EXCEPT ![r] = 0]
    /\ UNCHANGED <<logs, active, compacted, rbase, event, out, from, cpc, dpc, got, history>>

\* existing_operation_journal_path: the active journal, else the compacted.
Resolve == IF active # NoLog THEN "active" ELSE IF compacted # NoLog THEN "compacted" ELSE NoLog

\* fs::read_to_string of what that name is by now.
Named(name) ==
    IF name = "active" THEN active ELSE IF name = "compacted" THEN compacted ELSE NoLog

LocateExisting(r) ==
    /\ rpc[r] = "locate"
    /\ from' = [from EXCEPT ![r] = Resolve]
    /\ Goto(r, "read")
    /\ UNCHANGED <<logs, active, compacted, rbase, event, len, out, cpc, dpc, got, history>>

Usable(r, i) ==
    /\ Readable(i)
    /\ logs[i] # <<>> => logs[i][1].base = rbase[r]

Forget(p) == from' = [from EXCEPT ![p] = NoLog]

\* Fault: the base of the events that are there is not looked at.
ReadAnyBase(r) ==
    /\ rpc[r] = "read"
    /\ LET i == Named(from[r]) IN
        /\ Readable(i)
        /\ len' = [len EXCEPT ![r] = Len(logs[i])]
    /\ Goto(r, "open") /\ Forget(r)
    /\ UNCHANGED <<logs, active, compacted, rbase, event, out, cpc, dpc, got, history>>

\* Fault: the events that are there are not counted.
ReadUncounted(r) ==
    /\ rpc[r] = "read" /\ Usable(r, Named(from[r]))
    /\ Goto(r, "open") /\ Forget(r)
    /\ UNCHANGED <<logs, active, compacted, rbase, event, len, out, cpc, dpc, got, history>>

\* Fault: a line that does not parse is counted like the others.
ReadUnparsed(r) ==
    /\ rpc[r] = "read"
    /\ LET i == Named(from[r]) IN
        /\ i # NoLog
        /\ logs[i] # <<>> => logs[i][1].base = rbase[r]
        /\ len' = [len EXCEPT ![r] = Len(logs[i])]
    /\ Goto(r, "open") /\ Forget(r)
    /\ UNCHANGED <<logs, active, compacted, rbase, event, out, cpc, dpc, got, history>>

ReadExisting(r) ==
    /\ rpc[r] = "read"
    /\ LET i == Named(from[r]) IN Usable(r, i) /\ len' = [len EXCEPT ![r] = Len(logs[i])]
    /\ Goto(r, "open") /\ Forget(r)
    /\ UNCHANGED <<logs, active, compacted, rbase, event, out, cpc, dpc, got, history>>

\* No such file any more, a line that does not parse, or another base.
RejectExisting(r) ==
    /\ rpc[r] = "read" /\ ~Usable(r, Named(from[r]))
    /\ Goto(r, "ready") /\ Forget(r)
    /\ event' = [event EXCEPT ![r] = 0]
    /\ UNCHANGED <<logs, active, compacted, rbase, len, out, cpc, dpc, got, history>>

\* OpenOptions::create(true).append(true): a journal that is gone starts anew.
OpenJournal(r) ==
    /\ rpc[r] = "open"
    /\ IF active = NoLog
       THEN /\ logs' = Append(logs, <<>>)
            /\ active' = Len(logs) + 1
            /\ out' = [out EXCEPT ![r] = Len(logs) + 1]
            /\ split' = (split \/ logs # <<>>)
       ELSE out' = [out EXCEPT ![r] = active] /\ UNCHANGED <<logs, active, split>>
    /\ Goto(r, "json")
    /\ UNCHANGED <<compacted, rbase, event, len, from, cpc, dpc, got,
                   acked, before, tried, crashes, crossed, glued>>

LastState(log) == IF log = <<>> THEN "whole" ELSE log[Len(log)].state
Mark(i, st) == logs' = [logs EXCEPT ![i][Len(logs[i])].state = st]
NewLine(r, st) ==
    logs' = [logs EXCEPT ![out[r]] = Append(@, Line(event[r], len[r] + 1, rbase[r], st))]

\* The first bytes of the JSON: a new line, unless the last has no newline.
StartLine(r) ==
    /\ rpc[r] = "json"
    /\ IF LastState(logs[out[r]]) \in {"whole", "bad"}
       THEN NewLine(r, "torn") /\ UNCHANGED glued
       ELSE Mark(out[r], "mixed") /\ glued' = TRUE
    /\ Goto(r, "rest")
    /\ UNCHANGED <<active, compacted, rbase, event, len, out, from, cpc, dpc, got,
                   acked, before, tried, crashes, crossed, split>>

\* The line holds the first bytes of r's event and no others.
Own(r) ==
    LET log == logs[out[r]] IN
    LastState(log) = "torn" /\ log[Len(log)].event = event[r]

\* The rest of the JSON, wherever the file ends by now.
EndJson(r) ==
    /\ rpc[r] = "rest"
    /\ IF LastState(logs[out[r]]) \in {"whole", "bad"} THEN NewLine(r, "mixed")
       ELSE Mark(out[r], IF Own(r) THEN "open" ELSE "mixed")
    /\ Goto(r, "newline")
    /\ UNCHANGED <<active, compacted, rbase, event, len, out, from, cpc, dpc, got, history>>

\* The call is over, one way or the other.
Leave(r) ==
    /\ out' = [out EXCEPT ![r] = NoLog] /\ len' = [len EXCEPT ![r] = 0]
    /\ event' = [event EXCEPT ![r] = 0]

Acknowledge(r) ==
    /\ acked' = acked \cup {event[r]}
    /\ Goto(r, "ready")
    /\ Leave(r)

\* The newline; behind another it makes an empty line, which readers skip.
EndLine(r) ==
    /\ rpc[r] = "newline"
    /\ LET last == LastState(logs[out[r]]) IN
        IF last \in {"whole", "bad"} THEN UNCHANGED logs
        ELSE Mark(out[r], IF last = "open" THEN "whole" ELSE "bad")
    /\ Acknowledge(r)
    /\ UNCHANGED <<active, compacted, rbase, from, cpc, dpc, got,
                   before, tried, crashes, crossed, split, glued>>

\* A recorder's process dies.
Crash(r) ==
    /\ rpc[r] # "down" /\ crashes < MaxCrashes
    /\ crashes' = crashes + 1
    /\ Goto(r, "down")
    /\ Leave(r) /\ Forget(r)
    /\ UNCHANGED <<logs, active, compacted, rbase, cpc, dpc, got,
                   acked, before, tried, crossed, split, glued>>

\* Recording resumes under the same run id: with a checkpoint of its own
\* (begin) or with the earlier base (from_checkpoint).
Resume(r, b) ==
    /\ rpc[r] = "down"
    /\ Goto(r, "ready") /\ rbase' = [rbase EXCEPT ![r] = b]
    /\ UNCHANGED <<logs, active, compacted, event, len, out, from, cpc, dpc, got, history>>

-----------------------------------------------------------------------------
(* compact_journal_file *)

BeginCompact(c) ==
    /\ cpc[c] = "idle" /\ active # NoLog
    /\ cpc' = [cpc EXCEPT ![c] = "clear"]
    /\ UNCHANGED <<logs, active, compacted, recorder, from, dpc, got, history>>

\* compacted.exists(), then remove_file.
ClearCompacted(c) ==
    /\ cpc[c] = "clear"
    /\ cpc' = [cpc EXCEPT ![c] = IF compacted = NoLog THEN "rename" ELSE "remove"]
    /\ UNCHANGED <<logs, active, compacted, recorder, from, dpc, got, history>>

RemoveCompacted(c) ==
    /\ cpc[c] = "remove"
    /\ cpc' = [cpc EXCEPT ![c] = IF compacted = NoLog THEN "idle" ELSE "rename"]
    /\ compacted' = NoLog
    /\ split' = (split \/ compacted # NoLog)
    /\ UNCHANGED <<logs, active, recorder, from, dpc, got,
                   acked, before, tried, crashes, crossed, glued>>

\* Fault: the active journal is removed, its events with it.
RenameLoses(c) ==
    /\ cpc[c] = "rename"
    /\ cpc' = [cpc EXCEPT ![c] = "idle"]
    /\ active' = NoLog
    /\ UNCHANGED <<logs, compacted, recorder, from, dpc, got, history>>

\* Fault: the journal is linked under its new name and keeps the old one.
RenameCopies(c) ==
    /\ cpc[c] = "rename"
    /\ cpc' = [cpc EXCEPT ![c] = "idle"]
    /\ compacted' = IF active = NoLog THEN compacted ELSE active
    /\ UNCHANGED <<logs, active, recorder, from, dpc, got, history>>

\* rename replaces what has the name by now; a journal that is gone is an error.
RenameActive(c) ==
    /\ cpc[c] = "rename"
    /\ cpc' = [cpc EXCEPT ![c] = "idle"]
    /\ IF active = NoLog THEN UNCHANGED <<active, compacted>>
       ELSE compacted' = active /\ active' = NoLog
    /\ UNCHANGED <<logs, recorder, from, dpc, got, history>>

\* The compacting process dies.
AbortCompact(c) ==
    /\ cpc[c] # "idle"
    /\ cpc' = [cpc EXCEPT ![c] = "idle"]
    /\ UNCHANGED <<logs, active, compacted, recorder, from, dpc, got, history>>

-----------------------------------------------------------------------------
(* read_operation_journal *)

LocateJournal(d) ==
    /\ dpc[d] = "idle"
    /\ from' = [from EXCEPT ![d] = Resolve]
    /\ before' = [before EXCEPT ![d] = acked]
    /\ dpc' = [dpc EXCEPT ![d] = IF Resolve = NoLog THEN "failed" ELSE "read"]
    /\ UNCHANGED <<logs, active, compacted, recorder, cpc, got,
                   acked, tried, crashes, crossed, split, glued>>

\* Fault: lines that do not parse are left out of the answer.
ReadParsed(d) ==
    /\ dpc[d] = "read" /\ Named(from[d]) # NoLog
    /\ got' = [got EXCEPT ![d] =
                SelectSeq(logs[Named(from[d])], LAMBDA x : x.state \in {"open", "whole"})]
    /\ dpc' = [dpc EXCEPT ![d] = "done"] /\ Forget(d)
    /\ UNCHANGED <<logs, active, compacted, recorder, cpc, history>>

ReadJournal(d) ==
    /\ dpc[d] = "read" /\ Readable(Named(from[d]))
    /\ got' = [got EXCEPT ![d] = logs[Named(from[d])]]
    /\ dpc' = [dpc EXCEPT ![d] = "done"] /\ Forget(d)
    /\ UNCHANGED <<logs, active, compacted, recorder, cpc, history>>

RejectJournal(d) ==
    /\ dpc[d] = "read" /\ ~Readable(Named(from[d]))
    /\ dpc' = [dpc EXCEPT ![d] = "failed"] /\ Forget(d)
    /\ UNCHANGED <<logs, active, compacted, recorder, cpc, got, history>>

Next ==
    \/ \E r \in Recorders :
        \/ RefuseAppend(r) \/ BeginAppend(r) \/ FindActive(r) \/ LocateExisting(r)
        \/ ReadExisting(r) \/ RejectExisting(r) \/ OpenJournal(r)
        \/ StartLine(r) \/ EndJson(r) \/ EndLine(r)
        \/ Crash(r) \/ \E b \in Bases : Resume(r, b)
    \/ \E c \in Compactors :
        \/ BeginCompact(c) \/ ClearCompacted(c) \/ RemoveCompacted(c)
        \/ RenameActive(c) \/ AbortCompact(c)
    \/ \E d \in Readers : LocateJournal(d) \/ ReadJournal(d) \/ RejectJournal(d)

Spec == Init /\ [][Next]_vars

-----------------------------------------------------------------------------
Logs == Seq([event : 1..MaxEvents, seq : Nat \ {0}, base : Bases,
             state : {"torn", "open", "whole", "mixed", "bad"}])

\* Every variable has its type, and a recorder writes to a file it opened,
\* whichever name the file has by then.
TypeOK ==
    /\ logs \in Seq(Logs)
    /\ active \in Inodes \cup {NoLog} /\ compacted \in Inodes \cup {NoLog}
    /\ active = compacted => active = NoLog
    /\ rpc \in [Recorders -> {"down", "ready", "exists", "locate", "read", "open",
                              "json", "rest", "newline"}]
    /\ rbase \in [Recorders -> Bases] /\ len \in [Recorders -> Nat]
    /\ event \in [Recorders -> 0..tried]
    /\ out \in [Recorders -> Inodes \cup {NoLog}]
    /\ \A r \in Recorders :
        /\ rpc[r] \in {"json", "rest", "newline"} <=> out[r] # NoLog
        /\ Appending(r) => event[r] # 0
    /\ from \in [Readers \cup Recorders -> {"active", "compacted", NoLog}]
    /\ cpc \in [Compactors -> {"idle", "clear", "remove", "rename"}]
    /\ dpc \in [Readers -> {"idle", "read", "done", "failed"}]
    /\ got \in [Readers -> Logs]
    /\ acked \subseteq 1..tried /\ before \in [Readers -> SUBSET acked]
    /\ tried \in 0..MaxEvents /\ crashes \in 0..MaxCrashes
    /\ crossed \in BOOLEAN /\ split \in BOOLEAN /\ glued \in BOOLEAN

\* All events of a journal file apply to one base checkpoint, whatever
\* sessions recorded under the run id one after the other, each with a base of
\* its own, and however compactions interleaved: a replay never applies an
\* event to a state it was not recorded on.  It says nothing once two sessions
\* were in an append at the same time: both may find no journal, and each then
\* appends with a base of its own, which no lock prevents.
OneBase ==
    ~crossed =>
        \A i \in Inodes : \A j, k \in DOMAIN logs[i] : logs[i][j].base = logs[i][k].base

\* The line a crash left unfinished stays the last: nothing is recorded behind
\* an event that no reader can parse.  Two sessions that append at the same
\* time keep to this as long as their bytes do not meet on a line.
TornTailLast ==
    ~crossed \/ ~glued =>
        \A i \in Inodes : \A j \in 1..(Len(logs[i]) - 1) : logs[i][j].state = "whole"

\* seq is the position in the journal, so that --until-seq n cuts after n
\* events, unless two sessions appended at the same time or an append and a
\* compaction parted the journal.
SeqIsPosition ==
    ~crossed /\ ~split => \A i \in Inodes : \A j \in DOMAIN logs[i] : logs[i][j].seq = j

\* Whatever appends, compactions and deaths interleave: every event whose
\* append returned Ok stays in the journal a reader finds, active or compacted,
\* on a line of its own, unless bytes of two events met on a line, and then
\* the journal does not parse.  Excepted are a journal made anew behind a
\* compaction and a compacted one that is removed: see CompactionKeepsEvents.
AckedReadable ==
    ~split /\ acked # {} =>
        /\ Named(Resolve) # NoLog
        /\ IF glued THEN ~Readable(Named(Resolve))
           ELSE \A n \in acked : \E j \in DOMAIN logs[Named(Resolve)] :
                    logs[Named(Resolve)][j].event = n /\ logs[Named(Resolve)][j].state = "whole"

\* A reader that gets an answer gets every event acknowledged before it began,
\* also when the journal was compacted or appended to under its hands.  Only a
\* journal made anew behind a compaction, or a compacted one removed by
\* another compaction, is excepted: see CompactionKeepsEvents.
ReadComplete ==
    ~split => \A d \in Readers : dpc[d] = "done" => before[d] \subseteq Events(got[d])

-----------------------------------------------------------------------------
(* Claims of the documentation that the code does not keep. *)

\* docs/agent-contract.md:87: after a commit compacted a run's redo logs the
\* agent keeps using op-journal and op-replay, which resolve them.
CompactionKeepsEvents ==
    ~glued /\ acked # {} => Resolve # NoLog /\ acked \subseteq Events(logs[Named(Resolve)])

=============================================================================
