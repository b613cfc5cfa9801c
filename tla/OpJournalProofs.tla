---------------------------- MODULE OpJournalProofs ----------------------------
(* The operation journal, its compaction and its readers, for any number   *)
(* of recorders, compactors, readers, base checkpoints, appends and deaths.*)
EXTENDS OpJournal, SequenceTheorems, TLAPS

\* A recorder's calls.
Calls == {"down", "ready", "exists", "locate", "read", "open", "json", "rest", "newline"}

\* Until a journal is made anew or a compacted one removed there is one file,
\* under one of the two names.
OneFile ==
    ~split => /\ active = NoLog \/ compacted = NoLog
              /\ \A i \in Inodes : i = active \/ i = compacted

\* Lines are sound as long as no bytes met, and one is spoilt for good once
\* they did.
Clean ==
    ~glued => \A i \in Inodes : \A j \in DOMAIN logs[i] :
                logs[i][j].state \in {"torn", "open", "whole"}
Spoilt ==
    glued => \E i \in Inodes : \E j \in DOMAIN logs[i] : logs[i][j].state \in {"mixed", "bad"}

\* As long as no bytes met, an acknowledged event has a whole line.
Kept ==
    ~glued => \A n \in acked : \E i \in Inodes : \E j \in DOMAIN logs[i] :
                logs[i][j].event = n /\ logs[i][j].state = "whole"

\* No two recorders have the same event in hand.
Distinct == \A r, s \in Recorders : event[r] = event[s] /\ event[r] # 0 => r = s

\* The last line of r's file is r's own, with all its bytes so far.
LastIs(r, st) ==
    LET log == logs[out[r]] IN
    log # <<>> /\ log[Len(log)].event = event[r] /\ log[Len(log)].state = st

\* As long as no bytes met, a recorder's line is the last, and its own.
InHand ==
    ~glued => \A r \in Recorders :
        /\ rpc[r] = "rest" => LastIs(r, "torn")
        /\ rpc[r] = "newline" => LastIs(r, "open")

\* Only one recorder is in an append.
Alone == ~crossed => \A r, s \in Recorders : Appending(r) /\ Appending(s) => r = s

\* Journal file i takes another event of r's session.
Extends(r, i) == Readable(i) /\ \A j \in DOMAIN logs[i] : logs[i][j].base = rbase[r]

\* A recorder that is alone finds the active journal if there is one, appends
\* to a file it has read and found good, or to a new one, and nobody ends the
\* line it writes.
Sole ==
    ~crossed => \A r \in Recorders :
        /\ rpc[r] = "read" /\ active # NoLog => from[r] = "active"
        /\ rpc[r] = "open" => active = NoLog \/ Extends(r, active)
        /\ rpc[r] = "json" => Extends(r, out[r])
        /\ rpc[r] \in {"rest", "newline"} => LastState(logs[out[r]]) \notin {"whole", "bad"}

\* It has counted the lines of the file it appends to.
Counting ==
    ~crossed /\ ~split => \A r \in Recorders :
        /\ rpc[r] = "open" /\ active # NoLog => len[r] = Len(logs[active])
        /\ rpc[r] = "open" /\ logs = <<>> => len[r] = 0
        /\ rpc[r] = "json" => len[r] = Len(logs[out[r]])

OpInv ==
    /\ TypeOK /\ OneFile /\ Clean /\ Spoilt /\ Kept
    /\ OneBase /\ TornTailLast /\ SeqIsPosition
    /\ Distinct /\ InHand /\ Alone /\ Sole /\ Counting /\ ReadComplete

-----------------------------------------------------------------------------
(* Journal files and their lines. *)

States == {"torn", "open", "whole", "mixed", "bad"}
Lines == [event : 1..MaxEvents, seq : Nat \ {0}, base : Bases, state : States]

\* The journals, file by file and line by line.
LEMMA LogFacts ==
    ASSUME NEW l \in Logs
    PROVE  /\ Len(l) \in Nat /\ DOMAIN l = 1..Len(l) /\ (l # <<>> => Len(l) \in 1..Len(l))
           /\ \A j \in 1..Len(l) : l[j] \in Lines
<1>1. l \in Seq(Lines)
  BY DEF Logs, Lines, States
<1>2. Len(l) \in Nat /\ DOMAIN l = 1..Len(l) /\ \A j \in 1..Len(l) : l[j] \in Lines
  BY <1>1, LenProperties, ElementOfSeq
<1>3. l # <<>> => Len(l) \in Nat \ {0}
  BY <1>1, EmptySeq
<1> QED
  BY <1>2, <1>3

\* A journal file that is created is empty, and the others are as they were.
LEMMA NewLog ==
    ASSUME NEW g \in Seq(Logs)
    PROVE  LET h == Append(g, <<>>)
               n == Len(g) + 1
           IN  /\ h \in Seq(Logs) /\ DOMAIN h = DOMAIN g \cup {n} /\ n \in Nat \ DOMAIN g
               /\ h[n] = <<>> /\ Len(<<>>) = 0
               /\ \A i \in DOMAIN g : h[i] = g[i]
<1> DEFINE h == Append(g, <<>>)
<1>1. <<>> \in Logs /\ Len(<<>>) = 0
  BY EmptySeq DEF Logs
<1>2. Len(g) \in Nat /\ DOMAIN g = 1..Len(g)
  BY LenProperties
<1>3. /\ h \in Seq(Logs) /\ Len(h) = Len(g) + 1 /\ h[Len(g) + 1] = <<>>
      /\ \A i \in 1..Len(g) : h[i] = g[i]
  BY <1>1, AppendProperties
<1>4. DOMAIN h = 1..Len(h)
  BY <1>3, LenProperties
<1> QED
  BY <1>1, <1>2, <1>3, <1>4

\* A write changes one journal file and leaves the others alone.
LEMMA OneLog ==
    ASSUME NEW g \in Seq(Logs), NEW i \in DOMAIN g, NEW l \in Logs, NEW h,
           h = [g EXCEPT ![i] = l]
    PROVE  /\ h \in Seq(Logs) /\ DOMAIN h = DOMAIN g /\ h[i] = l
           /\ \A j \in DOMAIN g \ {i} : h[j] = g[j]
<1>1. DOMAIN g = 1..Len(g)
  BY LenProperties
<1>2. h \in Seq(Logs) /\ Len(h) = Len(g) /\ \A j \in 1..Len(g) : h[j] = IF j = i THEN l ELSE g[j]
  BY <1>1, ExceptSeq
<1>3. DOMAIN h = 1..Len(h)
  BY <1>2, LenProperties
<1> QED
  BY <1>1, <1>2, <1>3

\* l with the state of its last line changed.
Marked(l, st) == [l EXCEPT ![Len(l)].state = st]

\* Marking the last line changes neither the events nor any other line.
LEMMA MarkLast ==
    ASSUME NEW l \in Logs, l # <<>>, NEW st \in States
    PROVE  LET m == Marked(l, st)
           IN  /\ m \in Logs /\ Len(m) = Len(l) /\ m # <<>>
               /\ \A j \in 1..Len(l) :
                    /\ m[j].event = l[j].event /\ m[j].seq = l[j].seq /\ m[j].base = l[j].base
                    /\ m[j].state = IF j = Len(l) THEN st ELSE l[j].state
<1> DEFINE n == Len(l)
           e == [l[n] EXCEPT !.state = st]
           m == Marked(l, st)
<1>1. n \in Nat /\ n \in 1..n /\ DOMAIN l = 1..n /\ \A j \in 1..n : l[j] \in Lines
  BY LogFacts
<1>2. e \in Lines /\ e.event = l[n].event /\ e.seq = l[n].seq /\ e.base = l[n].base /\ e.state = st
  BY <1>1 DEF Lines
<1>3. m = [l EXCEPT ![n] = e]
  BY DEF Marked
<1>4. l \in Seq(Lines)
  BY DEF Logs, Lines, States
<1> HIDE DEF n, e, m
<1>5. m \in Seq(Lines) /\ Len(m) = Len(l) /\ \A j \in 1..Len(l) : m[j] = IF j = n THEN e ELSE l[j]
  BY <1>1, <1>2, <1>3, <1>4, ExceptSeq DEF n
<1>6. m # <<>>
  <2>1. Len(<<>>) = 0
    BY EmptySeq
  <2>2. Len(m) = n
    BY <1>5 DEF n
  <2>3. n # 0
    BY <1>1
  <2> QED
    BY <2>1, <2>2, <2>3
<1> QED
  BY <1>1, <1>2, <1>5, <1>6 DEF m, n, Logs, Lines, States

\* A new line goes behind those that are there.
LEMMA AddLine ==
    ASSUME NEW l \in Logs, NEW x \in Lines
    PROVE  LET m == Append(l, x)
           IN  /\ m \in Logs /\ Len(m) = Len(l) + 1 /\ m # <<>> /\ m[Len(l) + 1] = x
               /\ \A j \in 1..Len(l) : m[j] = l[j]
<1>1. l \in Seq(Lines)
  BY DEF Logs, Lines, States
<1> QED
  BY <1>1, AppendProperties, SMTT(40) DEF Logs, Lines, States

-----------------------------------------------------------------------------
(* What a write does to the journals. *)

\* l with one more line.
Longer(l, x) == Append(l, x)

\* A new line at the end of one journal.
LEMMA AppendLog ==
    ASSUME NEW g \in Seq(Logs), NEW i \in DOMAIN g, NEW x \in Lines, NEW h,
           h = [g EXCEPT ![i] = Longer(g[i], x)]
    PROVE  /\ h \in Seq(Logs) /\ DOMAIN h = DOMAIN g
           /\ \A j \in DOMAIN g \ {i} : h[j] = g[j]
           /\ Len(g[i]) \in Nat /\ DOMAIN g[i] = 1..Len(g[i])
           /\ Len(h[i]) = Len(g[i]) + 1 /\ h[i] # <<>> /\ DOMAIN h[i] = 1..(Len(g[i]) + 1)
           /\ h[i][Len(g[i]) + 1] = x
           /\ \A j \in 1..Len(g[i]) : h[i][j] = g[i][j]
<1> DEFINE l == g[i]
           k == Longer(l, x)
<1>1. l \in Logs
  BY ElementOfSeq, LenProperties
<1>2. Len(l) \in Nat /\ DOMAIN l = 1..Len(l)
  BY <1>1, LogFacts
<1>3. /\ k \in Logs /\ Len(k) = Len(l) + 1 /\ k # <<>> /\ k[Len(l) + 1] = x
      /\ \A j \in 1..Len(l) : k[j] = l[j]
  BY <1>1, AddLine DEF Longer
<1>4. DOMAIN k = 1..Len(k)
  BY <1>3, LogFacts
<1>5. h = [g EXCEPT ![i] = k] /\ k \in Logs
  BY <1>3
<1> HIDE DEF l, k
<1>6. /\ h \in Seq(Logs) /\ DOMAIN h = DOMAIN g /\ h[i] = k
      /\ \A j \in DOMAIN g \ {i} : h[j] = g[j]
  BY <1>5, OneLog
<1> QED
  BY <1>2, <1>3, <1>4, <1>6 DEF l

\* A new state for the last line of one journal.
LEMMA MarkLog ==
    ASSUME NEW g \in Seq(Logs), NEW i \in DOMAIN g, g[i] # <<>>, NEW st \in States, NEW h,
           h = [g EXCEPT ![i] = Marked(g[i], st)]
    PROVE  /\ h \in Seq(Logs) /\ DOMAIN h = DOMAIN g
           /\ \A j \in DOMAIN g \ {i} : h[j] = g[j]
           /\ Len(g[i]) \in Nat /\ Len(g[i]) \in DOMAIN g[i] /\ DOMAIN g[i] = 1..Len(g[i])
           /\ Len(h[i]) = Len(g[i]) /\ h[i] # <<>> /\ DOMAIN h[i] = DOMAIN g[i]
           /\ \A j \in DOMAIN g[i] :
                /\ h[i][j].event = g[i][j].event /\ h[i][j].seq = g[i][j].seq
                /\ h[i][j].base = g[i][j].base
                /\ h[i][j].state = IF j = Len(g[i]) THEN st ELSE g[i][j].state
<1> DEFINE l == g[i]
           k == Marked(l, st)
<1>1. l \in Logs
  BY ElementOfSeq, LenProperties
<1>2. Len(l) \in Nat /\ DOMAIN l = 1..Len(l) /\ Len(l) \in 1..Len(l)
  BY <1>1, LogFacts
<1>3. /\ k \in Logs /\ Len(k) = Len(l) /\ k # <<>>
      /\ \A j \in 1..Len(l) :
           /\ k[j].event = l[j].event /\ k[j].seq = l[j].seq /\ k[j].base = l[j].base
           /\ k[j].state = IF j = Len(l) THEN st ELSE l[j].state
  BY <1>1, MarkLast
<1>4. DOMAIN k = 1..Len(k)
  BY <1>3, LogFacts
<1>5. h = [g EXCEPT ![i] = k] /\ k \in Logs
  BY <1>3
<1> HIDE DEF k
<1>6. /\ h \in Seq(Logs) /\ DOMAIN h = DOMAIN g /\ h[i] = k
      /\ \A j \in DOMAIN g \ {i} : h[j] = g[j]
  BY <1>5, OneLog
<1> HIDE DEF l
<1>7. DOMAIN k = DOMAIN l
  BY <1>2, <1>3, <1>4
<1>8. \A j \in DOMAIN l :
        /\ k[j].event = l[j].event /\ k[j].seq = l[j].seq /\ k[j].base = l[j].base
        /\ k[j].state = IF j = Len(l) THEN st ELSE l[j].state
  BY <1>2, <1>3
<1> QED
  BY <1>2, <1>3, <1>6, <1>7, <1>8 DEF l

\* What marking the last line of r's file leaves as it is.
LEMMA MarkKeeps ==
    ASSUME OpInv, NEW i \in Inodes, logs[i] # <<>>, NEW st \in States,
           logs' = [logs EXCEPT ![i] = Marked(logs[i], st)],
           crossed' = crossed, split' = split, glued => glued'
    PROVE  /\ logs' \in Seq(Logs) /\ Inodes' = Inodes
           /\ OneBase' /\ TornTailLast' /\ SeqIsPosition'
<1> USE DEF OpInv
<1>1. logs \in Seq(Logs)
  BY DEF TypeOK
<1>2. /\ logs' \in Seq(Logs) /\ Inodes' = Inodes
      /\ \A j \in Inodes \ {i} : logs'[j] = logs[j]
      /\ Len(logs[i]) \in Nat /\ Len(logs[i]) \in DOMAIN logs[i]
      /\ DOMAIN logs[i] = 1..Len(logs[i])
      /\ Len(logs'[i]) = Len(logs[i]) /\ DOMAIN logs'[i] = DOMAIN logs[i]
      /\ \A j \in DOMAIN logs[i] :
           /\ logs'[i][j].seq = logs[i][j].seq /\ logs'[i][j].base = logs[i][j].base
           /\ logs'[i][j].state = IF j = Len(logs[i]) THEN st ELSE logs[i][j].state
  BY <1>1, MarkLog DEF Inodes
<1>3. OneBase'
  <2>1. ASSUME ~crossed, NEW k \in Inodes
        PROVE  \A j, n \in DOMAIN logs'[k] : logs'[k][j].base = logs'[k][n].base
    <3>1. CASE k = i
      BY <1>2, <2>1, <3>1 DEF OneBase
    <3>2. CASE k # i
      BY <1>2, <2>1, <3>2 DEF OneBase
    <3> QED
      BY <3>1, <3>2
  <2> QED
    BY <1>2, <2>1 DEF OneBase
<1>4. SeqIsPosition'
  BY <1>2 DEF SeqIsPosition
<1>5. TornTailLast'
  <2>1. \A j \in 1..(Len(logs[i]) - 1) : j \in DOMAIN logs[i] /\ j # Len(logs[i])
    BY <1>2
  <2>2. ASSUME ~crossed \/ ~glued, NEW k \in Inodes, NEW j \in 1..(Len(logs'[k]) - 1)
        PROVE  logs'[k][j].state = "whole"
    <3>1. CASE k = i
      <4>1. j \in 1..(Len(logs[i]) - 1)
        BY <1>2, <2>2, <3>1
      <4>2. logs[i][j].state = "whole"
        BY <2>2, <4>1 DEF TornTailLast
      <4> QED
        BY <1>2, <2>1, <3>1, <4>1, <4>2
    <3>2. CASE k # i
      BY <1>2, <2>2, <3>2 DEF TornTailLast
    <3> QED
      BY <3>1, <3>2
  <2> QED
    BY <1>2, <2>2 DEF TornTailLast
<1> QED
  BY <1>2, <1>3, <1>4, <1>5

-----------------------------------------------------------------------------
(* The recorders write. *)

\* What is true of the lines stays true as long as nobody writes one.
LEMMA LinesKept ==
    ASSUME OneBase, TornTailLast, SeqIsPosition, Clean, Spoilt, logs' = logs,
           crossed => crossed', split => split', glued' = glued
    PROVE  OneBase' /\ TornTailLast' /\ SeqIsPosition' /\ Clean' /\ Spoilt'
BY DEF OneBase, TornTailLast, SeqIsPosition, Clean, Spoilt, Inodes

\* The last line of a journal, if there is one.
LEMMA LastLine ==
    ASSUME TypeOK, NEW i \in Inodes
    PROVE  /\ i \in Nat /\ i # NoLog /\ Len(logs[i]) \in Nat /\ DOMAIN logs[i] = 1..Len(logs[i])
           /\ LastState(logs[i]) \in States
           /\ logs[i] # <<>> => /\ Len(logs[i]) \in DOMAIN logs[i]
                                /\ LastState(logs[i]) = logs[i][Len(logs[i])].state
           /\ LastState(logs[i]) \notin {"whole", "bad"} => logs[i] # <<>>
<1>1. logs[i] \in Logs /\ i \in Nat
  BY ElementOfSeq, LenProperties DEF TypeOK, Inodes
<1>2. \A j \in 1..Len(logs[i]) : logs[i][j].state \in States
  BY <1>1, LogFacts DEF Lines
<1> QED
  BY <1>1, <1>2, LogFacts, OpJournalAssumptions DEF LastState, States

\* A new journal is created, or the one found before is opened.
LEMMA OpenStep == ASSUME OpInv, NEW r \in Recorders, OpenJournal(r) PROVE OpInv'
<1> USE OpJournalAssumptions DEF OpInv
<1>0. /\ logs \in Seq(Logs) /\ rpc \in [Recorders -> Calls] /\ rpc[r] = "open"
      /\ rpc' = [rpc EXCEPT ![r] = "json"] /\ out[r] = NoLog /\ DOMAIN logs = 1..Len(logs)
      /\ \A s \in Recorders : Appending(s)' = Appending(s)
      /\ UNCHANGED <<compacted, rbase, event, len, from, cpc, dpc, got,
                     acked, before, tried, crashes, crossed, glued>>
  BY LenProperties DEF OpenJournal, TypeOK, Goto, Appending, Calls
<1>a. \A s \in Recorders \ {r} : rpc'[s] = rpc[s]
  BY <1>0
<1>b. Distinct' /\ Alone' /\ Kept' = Kept'
  BY <1>0 DEF Distinct, Alone
<1>1. CASE active = NoLog
  <2> DEFINE n == Len(logs) + 1
  <2>1. logs' = Append(logs, <<>>) /\ active' = n /\ out' = [out EXCEPT ![r] = n]
        /\ split' = (split \/ logs # <<>>)
    BY <1>1 DEF OpenJournal
  <2>a. /\ logs' \in Seq(Logs) /\ DOMAIN logs' = DOMAIN logs \cup {n} /\ n \in Nat \ DOMAIN logs
        /\ logs'[n] = <<>> /\ Len(<<>>) = 0 /\ \A i \in DOMAIN logs : logs'[i] = logs[i]
    BY <1>0, <2>1, NewLog
  <2>2. /\ logs' \in Seq(Logs) /\ Inodes' = Inodes \cup {n} /\ n \in Nat \ Inodes
        /\ logs'[n] = <<>> /\ Len(<<>>) = 0 /\ \A i \in Inodes : logs'[i] = logs[i]
    BY <2>a DEF Inodes
  <2>3. DOMAIN logs'[n] = {} /\ Len(logs'[n]) = 0
    BY <2>2
  <2>c. logs' # <<>>
    BY <2>2, EmptySeq DEF Inodes
  <2>d. logs = <<>> => Inodes = {}
    BY DEF Inodes
  <2> HIDE DEF n
  <2>4. TypeOK'
    BY <1>0, <2>1, <2>2 DEF TypeOK
  <2>5. OneFile'
    BY <1>0, <1>1, <2>1, <2>2, <2>d DEF OneFile, TypeOK
  <2>6. Clean' /\ Spoilt' /\ Kept'
    <3>1. Clean'
      BY <1>0, <2>2, <2>3 DEF Clean
    <3>2. Spoilt'
      BY <1>0, <2>2 DEF Spoilt
    <3>3. Kept'
      BY <1>0, <2>2 DEF Kept
    <3> QED
      BY <3>1, <3>2, <3>3
  <2>7. OneBase' /\ TornTailLast' /\ SeqIsPosition'
    <3>1. OneBase'
      <4>1. ASSUME ~crossed, NEW i \in Inodes'
            PROVE  \A j, k \in DOMAIN logs'[i] : logs'[i][j].base = logs'[i][k].base
        BY <2>2, <2>3, <4>1 DEF OneBase
      <4> QED
        BY <1>0, <4>1 DEF OneBase
    <3>2. TornTailLast'
      <4>1. ASSUME ~crossed \/ ~glued, NEW i \in Inodes'
            PROVE  \A j \in 1..(Len(logs'[i]) - 1) : logs'[i][j].state = "whole"
        BY <2>2, <2>3, <4>1 DEF TornTailLast
      <4> QED
        BY <1>0, <4>1 DEF TornTailLast
    <3>3. SeqIsPosition'
      BY <1>0, <2>1, <2>2, <2>3 DEF SeqIsPosition
    <3> QED
      BY <3>1, <3>2, <3>3
  <2>8. \A s \in Recorders : rpc[s] \in {"json", "rest", "newline"} =>
            out'[s] = out[s] /\ out[s] \in Inodes /\ logs'[out[s]] = logs[out[s]]
    BY <1>0, <2>1, <2>2 DEF TypeOK
  <2>9. InHand'
    BY <1>0, <1>a, <2>8 DEF InHand, LastIs
  <2>10. Sole'
    <3>1. Extends(r, out[r])' /\ out'[r] = n
      BY <1>0, <2>1, <2>2, <2>3 DEF Extends, Readable, TypeOK
    <3>2. ASSUME ~crossed', NEW s \in Recorders, s # r PROVE ~Appending(s)
      BY <1>0, <3>2 DEF Alone, Appending
    <3> QED
      BY <1>0, <1>a, <3>1, <3>2 DEF Sole, Appending
  <2>11. Counting'
    <3>1. ASSUME ~crossed', NEW s \in Recorders, s # r PROVE ~Appending(s)
      BY <1>0, <3>1 DEF Alone, Appending
    <3>2. ~crossed' /\ ~split' => len[r] = 0
      BY <1>0, <2>1 DEF Counting
    <3> QED
      BY <1>0, <1>a, <2>1, <2>3, <3>1, <3>2 DEF Counting, Appending, TypeOK
  <2>12. ReadComplete'
    BY <1>0, <2>1 DEF ReadComplete
  <2> QED
    BY <1>b, <2>4, <2>5, <2>6, <2>7, <2>9, <2>10, <2>11, <2>12
<1>2. CASE active # NoLog
  <2>1. out' = [out EXCEPT ![r] = active] /\ UNCHANGED <<logs, active, split>>
    BY <1>2 DEF OpenJournal
  <2>2. TypeOK' /\ OneFile' /\ Kept'
    BY <1>0, <1>2, <2>1 DEF TypeOK, OneFile, Kept, Inodes
  <2>3. OneBase' /\ TornTailLast' /\ SeqIsPosition' /\ Clean' /\ Spoilt'
    BY <1>0, <2>1, LinesKept
  <2>4. InHand'
    BY <1>0, <1>a, <2>1 DEF InHand, LastIs, TypeOK
  <2>5. \A s \in Recorders \ {r} : ~crossed' => ~Appending(s)
    BY <1>0 DEF Alone, Appending
  <2>6. Sole'
    BY <1>0, <1>2, <1>a, <2>1, <2>5 DEF Sole, Extends, Readable, Appending, TypeOK
  <2>7. Counting'
    BY <1>0, <1>2, <1>a, <2>1, <2>5 DEF Counting, Appending, TypeOK
  <2>8. ReadComplete'
    BY <1>0, <2>1 DEF ReadComplete
  <2> QED
    BY <1>b, <2>2, <2>3, <2>4, <2>6, <2>7, <2>8
<1> QED
  BY <1>1, <1>2

\* The first bytes of a line, on a line of its own or behind another.
LEMMA StartStep == ASSUME OpInv, NEW r \in Recorders, StartLine(r) PROVE OpInv'
<1> USE OpJournalAssumptions DEF OpInv
<1> DEFINE i == out[r]
           l == logs[i]
<1>0. /\ logs \in Seq(Logs) /\ i \in Inodes /\ rpc \in [Recorders -> Calls]
      /\ rpc[r] = "json" /\ rpc' = [rpc EXCEPT ![r] = "rest"]
      /\ event[r] \in 1..MaxEvents /\ len[r] \in Nat /\ rbase[r] \in Bases
      /\ UNCHANGED <<active, compacted, rbase, event, len, out, from, cpc, dpc, got,
                     acked, before, tried, crashes, crossed, split>>
  <2>1. rpc[r] = "json" /\ rpc' = [rpc EXCEPT ![r] = "rest"]
        /\ UNCHANGED <<active, compacted, rbase, event, len, out, from, cpc, dpc, got,
                       acked, before, tried, crashes, crossed, split>>
    BY DEF StartLine, Goto
  <2>2. logs \in Seq(Logs) /\ i \in Inodes /\ rpc \in [Recorders -> Calls]
        /\ event[r] \in 0..tried /\ event[r] # 0 /\ tried \in 0..MaxEvents
        /\ len[r] \in Nat /\ rbase[r] \in Bases
    BY <2>1 DEF TypeOK, Appending, Calls
  <2> QED
    BY <2>1, <2>2
<1>a. /\ \A s \in Recorders \ {r} : rpc'[s] = rpc[s]
      /\ \A s \in Recorders : Appending(s)' = Appending(s)
      /\ \A s \in Recorders \ {r} : ~crossed => ~Appending(s)
  BY <1>0 DEF Appending, Alone
<1>b. /\ Len(l) \in Nat /\ DOMAIN l = 1..Len(l) /\ LastState(l) \in States
      /\ l # <<>> => Len(l) \in DOMAIN l /\ LastState(l) = l[Len(l)].state
      /\ LastState(l) \notin {"whole", "bad"} => l # <<>>
  BY <1>0, LastLine
<1>c. Distinct' /\ Alone' /\ ReadComplete'
  BY <1>0, <1>a DEF Distinct, Alone, ReadComplete
<1>1. CASE LastState(l) \in {"whole", "bad"}
  <2> DEFINE x == Line(event[r], len[r] + 1, rbase[r], "torn")
  <2>1. x \in Lines /\ x.event = event[r] /\ x.seq = len[r] + 1 /\ x.base = rbase[r] /\ x.state = "torn"
    BY <1>0 DEF Line, Lines, States
  <2>2. logs' = [logs EXCEPT ![i] = Longer(logs[i], x)] /\ glued' = glued
    BY <1>1 DEF StartLine, NewLine, Longer
  <2> HIDE DEF x
  <2>3. /\ logs' \in Seq(Logs) /\ Inodes' = Inodes
        /\ \A j \in Inodes \ {i} : logs'[j] = logs[j]
        /\ Len(logs'[i]) = Len(l) + 1 /\ logs'[i] # <<>> /\ DOMAIN logs'[i] = 1..(Len(l) + 1)
        /\ logs'[i][Len(l) + 1] = x
        /\ \A j \in DOMAIN l : logs'[i][j] = l[j]
    <3>1. logs \in Seq(Logs) /\ i \in DOMAIN logs
      BY <1>0 DEF Inodes
    <3> HIDE DEF i
    <3>2. x \in Lines
      BY <2>1
    <3>3. logs' = [logs EXCEPT ![i] = Longer(logs[i], x)]
      BY <2>2
    <3>4. /\ logs' \in Seq(Logs) /\ DOMAIN logs' = DOMAIN logs
          /\ \A j \in DOMAIN logs \ {i} : logs'[j] = logs[j]
      BY <3>1, <3>2, <3>3, AppendLog
    <3>5. Len(logs[i]) \in Nat /\ DOMAIN logs[i] = 1..Len(logs[i])
      BY <3>1, <3>2, <3>3, AppendLog
    <3>6. Len(logs'[i]) = Len(logs[i]) + 1 /\ logs'[i] # <<>>
      BY <3>1, <3>2, <3>3, AppendLog
    <3>7. DOMAIN logs'[i] = 1..(Len(logs[i]) + 1)
      BY <3>1, <3>2, <3>3, AppendLog
    <3>8. logs'[i][Len(logs[i]) + 1] = x
      BY <3>1, <3>2, <3>3, AppendLog
    <3>9. \A j \in 1..Len(logs[i]) : logs'[i][j] = logs[i][j]
      BY <3>1, <3>2, <3>3, AppendLog
    <3> QED
      BY <3>4, <3>5, <3>6, <3>7, <3>8, <3>9 DEF Inodes
  <2>d. \A j \in DOMAIN logs'[i] : j \in DOMAIN l \/ j = Len(l) + 1
    BY <1>b, <2>3
  <2>e. DOMAIN l \subseteq DOMAIN logs'[i]
    BY <1>b, <2>3
  <2> HIDE DEF i, l
  <2>4. TypeOK' /\ OneFile'
    BY <1>0, <2>2, <2>3 DEF TypeOK, OneFile, i, Appending
  <2>5. Clean'
    BY <1>0, <2>1, <2>2, <2>3, <2>d DEF Clean, l
  <2>6. Spoilt'
    BY <1>0, <2>2, <2>3, <2>e DEF Spoilt, l
  <2>7. Kept'
    BY <1>0, <2>2, <2>3, <2>e DEF Kept, l
  <2>8. OneBase'
    <3>1. ~crossed => \A j \in DOMAIN l : l[j].base = rbase[r]
      BY <1>0 DEF Sole, Extends, i, l
    <3>2. ~crossed => \A j \in DOMAIN logs'[i] : logs'[i][j].base = rbase[r]
      BY <2>1, <2>3, <2>d, <3>1
    <3>3. ASSUME ~crossed, NEW k \in Inodes
          PROVE  \A j, m \in DOMAIN logs'[k] : logs'[k][j].base = logs'[k][m].base
      <4>1. CASE k = i
        BY <3>2, <3>3, <4>1
      <4>2. CASE k # i
        BY <2>3, <3>3, <4>2 DEF OneBase
      <4> QED
        BY <4>1, <4>2
    <3> QED
      BY <1>0, <2>3, <3>3 DEF OneBase
  <2>9. TornTailLast'
    <3>1. ~crossed \/ ~glued => \A j \in DOMAIN l : l[j].state # "bad"
      BY <1>0 DEF Sole, Extends, Readable, Clean, i, l
    <3>2. ~crossed \/ ~glued => \A j \in 1..Len(l) : l[j].state = "whole"
      <4>1. ~crossed \/ ~glued => \A j \in 1..(Len(l) - 1) : l[j].state = "whole"
        BY <1>0 DEF TornTailLast, l
      <4>2. l # <<>> /\ (~crossed \/ ~glued) => l[Len(l)].state = "whole"
        BY <1>1, <1>b, <3>1
      <4>3. Len(l) # 0 => l # <<>>
        BY EmptySeq
      <4> QED
        BY <1>b, <4>1, <4>2, <4>3
    <3>3. \A j \in 1..(Len(logs'[i]) - 1) : j \in 1..Len(l) /\ logs'[i][j] = l[j]
      BY <1>b, <2>3
    <3> QED
      BY <1>0, <2>2, <2>3, <3>2, <3>3 DEF TornTailLast
  <2>10. SeqIsPosition'
    <3>1. ~crossed /\ ~split => x.seq = Len(l) + 1
      BY <1>0, <2>1 DEF Counting, i, l
    <3>2. ~crossed /\ ~split => \A j \in DOMAIN l : l[j].seq = j
      BY <1>0 DEF SeqIsPosition, l
    <3>3. ~crossed /\ ~split => \A j \in DOMAIN logs'[i] : logs'[i][j].seq = j
      BY <2>3, <2>d, <3>1, <3>2
    <3> QED
      BY <1>0, <2>3, <3>3 DEF SeqIsPosition
  <2>11. InHand'
    <3>1. ~glued => \A s \in Recorders \ {r} : rpc[s] \in {"rest", "newline"} => out[s] # i
      BY <1>1, <1>b DEF InHand, LastIs, i, l
    <3>2. \A s \in Recorders : rpc[s] \in {"rest", "newline"} => out[s] \in Inodes
      BY DEF TypeOK
    <3>3. LastIs(r, "torn")'
      BY <1>0, <2>1, <2>3 DEF LastIs, i
    <3>4. ASSUME ~glued, NEW s \in Recorders \ {r}
          PROVE  /\ rpc[s] = "rest" => LastIs(s, "torn")'
                 /\ rpc[s] = "newline" => LastIs(s, "open")'
      BY <1>0, <2>3, <3>1, <3>2, <3>4 DEF InHand, LastIs
    <3> QED
      BY <1>0, <1>a, <2>2, <3>3, <3>4 DEF InHand
  <2>12. Sole' /\ Counting'
    <3>1. LastState(logs'[i]) = "torn"
      BY <2>1, <2>3 DEF LastState
    <3> QED
      BY <1>0, <1>a, <3>1 DEF Sole, Counting, Appending, i
  <2> QED
    BY <1>c, <2>4, <2>5, <2>6, <2>7, <2>8, <2>9, <2>10, <2>11, <2>12
<1>2. CASE LastState(l) \notin {"whole", "bad"}
  <2>1. l # <<>> /\ glued' = TRUE /\ logs' = [logs EXCEPT ![i] = Marked(logs[i], "mixed")]
    BY <1>2, <1>b DEF StartLine, Mark, Marked
  <2>2. "mixed" \in States /\ crossed' = crossed /\ split' = split
    BY <1>0 DEF States
  <2>3. /\ logs' \in Seq(Logs) /\ Inodes' = Inodes
        /\ OneBase' /\ TornTailLast' /\ SeqIsPosition'
    BY <1>0, <2>1, <2>2, MarkKeeps
  <2>4. /\ Len(logs'[i]) = Len(l) /\ logs'[i] # <<>> /\ DOMAIN logs'[i] = DOMAIN l
        /\ logs'[i][Len(l)].state = "mixed" /\ Len(l) \in DOMAIN l
    BY <1>0, <2>1, <2>2, MarkLog DEF Inodes
  <2> HIDE DEF i, l
  <2>5. TypeOK' /\ OneFile'
    BY <1>0, <2>1, <2>3 DEF TypeOK, OneFile, i, Appending
  <2>6. Clean' /\ Spoilt' /\ Kept' /\ InHand'
    BY <1>0, <2>1, <2>3, <2>4 DEF Clean, Spoilt, Kept, InHand
  <2>7. Sole' /\ Counting'
    <3>1. LastState(logs'[i]) = "mixed"
      BY <2>4 DEF LastState
    <3> QED
      BY <1>0, <1>a, <3>1 DEF Sole, Counting, Appending, i
  <2> QED
    BY <1>c, <2>3, <2>5, <2>6, <2>7
<1> QED
  BY <1>1, <1>2

\* The file a recorder writes to, and what its step leaves alone.
LEMMA WriteFacts ==
    ASSUME OpInv, NEW r \in Recorders, EndJson(r) \/ EndLine(r)
    PROVE  /\ logs \in Seq(Logs) /\ out[r] \in Inodes
           /\ rpc \in [Recorders -> Calls] /\ rpc[r] \in {"rest", "newline"}
           /\ event[r] \in 1..tried /\ tried \in 0..MaxEvents
           /\ len[r] \in Nat /\ rbase[r] \in Bases
           /\ UNCHANGED <<active, compacted, rbase, from, cpc, dpc, got,
                          before, tried, crashes, crossed, split, glued>>
           /\ \A s \in Recorders \ {r} : /\ rpc'[s] = rpc[s] /\ event'[s] = event[s]
                                         /\ out'[s] = out[s] /\ len'[s] = len[s]
                                         /\ ~crossed => ~Appending(s)
           /\ \A s \in Recorders : Appending(s)' => Appending(s)
           /\ ~glued /\ rpc[r] = "rest" => LastIs(r, "torn")
           /\ ~glued /\ rpc[r] = "newline" => LastIs(r, "open")
           /\ ~crossed => LastState(logs[out[r]]) \notin {"whole", "bad"}
<1> USE DEF OpInv
<1>1. /\ rpc[r] \in {"rest", "newline"}
      /\ UNCHANGED <<active, compacted, rbase, from, cpc, dpc, got,
                     before, tried, crashes, crossed, split, glued>>
      /\ (rpc' = [rpc EXCEPT ![r] = "newline"] /\ UNCHANGED <<event, out, len>>)
         \/ (/\ rpc' = [rpc EXCEPT ![r] = "ready"]
             /\ event' = [event EXCEPT ![r] = 0]
             /\ out' = [out EXCEPT ![r] = NoLog] /\ len' = [len EXCEPT ![r] = 0])
  BY DEF EndJson, EndLine, Acknowledge, Leave, Goto, history
<1>2. /\ logs \in Seq(Logs) /\ out[r] \in Inodes
      /\ rpc \in [Recorders -> Calls]
      /\ event[r] \in 1..tried /\ tried \in 0..MaxEvents
      /\ len[r] \in Nat /\ rbase[r] \in Bases
  BY <1>1 DEF TypeOK, Appending, Calls
<1>3. \A s \in Recorders \ {r} : rpc'[s] = rpc[s] /\ event'[s] = event[s]
                                 /\ out'[s] = out[s] /\ len'[s] = len[s]
  BY <1>1, <1>2 DEF TypeOK
<1>4. \A s \in Recorders \ {r} : ~crossed => ~Appending(s)
  BY <1>1 DEF Alone, Appending
<1>5. \A s \in Recorders : Appending(s)' => Appending(s)
  BY <1>1, <1>2 DEF Appending
<1>6. /\ ~glued /\ rpc[r] = "rest" => LastIs(r, "torn")
      /\ ~glued /\ rpc[r] = "newline" => LastIs(r, "open")
      /\ ~crossed => LastState(logs[out[r]]) \notin {"whole", "bad"}
  BY <1>1 DEF InHand, Sole
<1> QED
  BY <1>1, <1>2, <1>3, <1>4, <1>5, <1>6

\* No other recorder's line is the last of r's file, nor is r's of theirs.
LEMMA OthersInHand ==
    ASSUME OpInv, NEW r \in Recorders, rpc[r] \in {"rest", "newline"}, ~glued
    PROVE  \A s \in Recorders \ {r} : rpc[s] \in {"rest", "newline"} => out[s] # out[r]
<1> SUFFICES ASSUME NEW s \in Recorders, s # r, rpc[s] \in {"rest", "newline"}, out[s] = out[r]
             PROVE  FALSE
  OBVIOUS
<1> USE DEF OpInv
<1>1. logs[out[s]][Len(logs[out[s]])].event = event[s]
  BY DEF InHand, LastIs
<1>2. logs[out[r]][Len(logs[out[r]])].event = event[r]
  BY DEF InHand, LastIs
<1>3. event[r] # 0
  BY DEF TypeOK, Appending
<1> QED
  BY <1>1, <1>2, <1>3 DEF Distinct

\* Bytes end up behind the last line only where two appends met.
LEMMA FragmentStep ==
    ASSUME OpInv, NEW r \in Recorders, EndJson(r) \/ EndLine(r),
           LastState(logs[out[r]]) \in {"whole", "bad"}
    PROVE  glued /\ crossed
BY WriteFacts, LastLine DEF OpInv, LastIs, LastState

\* The rest of the line.
LEMMA EndJsonStep == ASSUME OpInv, NEW r \in Recorders, EndJson(r) PROVE OpInv'
<1> USE OpJournalAssumptions DEF OpInv
<1> DEFINE i == out[r]
           l == logs[i]
<1>0. /\ logs \in Seq(Logs) /\ i \in Inodes /\ rpc \in [Recorders -> Calls]
      /\ rpc[r] = "rest" /\ rpc' = [rpc EXCEPT ![r] = "newline"]
      /\ event[r] \in 1..MaxEvents /\ len[r] \in Nat /\ rbase[r] \in Bases
      /\ UNCHANGED <<active, compacted, rbase, event, len, out, from, cpc, dpc, got,
                     acked, before, tried, crashes, crossed, split, glued>>
  <2>1. rpc[r] = "rest" /\ rpc' = [rpc EXCEPT ![r] = "newline"]
        /\ UNCHANGED <<active, compacted, rbase, event, len, out, from, cpc, dpc, got,
                       acked, before, tried, crashes, crossed, split, glued>>
    BY DEF EndJson, Goto, history
  <2> QED
    BY <2>1, WriteFacts
<1>a. /\ \A s \in Recorders \ {r} : rpc'[s] = rpc[s] /\ (~crossed => ~Appending(s))
      /\ \A s \in Recorders : Appending(s)' = Appending(s)
  BY <1>0, WriteFacts DEF Appending
<1>b. /\ Len(l) \in Nat /\ DOMAIN l = 1..Len(l) /\ LastState(l) \in States
      /\ l # <<>> => Len(l) \in DOMAIN l /\ LastState(l) = l[Len(l)].state
      /\ LastState(l) \notin {"whole", "bad"} => l # <<>>
  BY <1>0, LastLine
<1>c. Distinct' /\ Alone' /\ ReadComplete'
  BY <1>0, <1>a DEF Distinct, Alone, ReadComplete
<1>1. CASE LastState(l) \in {"whole", "bad"}
  <2> DEFINE x == Line(event[r], len[r] + 1, rbase[r], "mixed")
  <2>0. glued /\ crossed
    BY <1>1, FragmentStep
  <2>1. x \in Lines
    BY <1>0 DEF Line, Lines, States
  <2>2. logs' = [logs EXCEPT ![i] = Longer(logs[i], x)]
    BY <1>1 DEF EndJson, NewLine, Longer
  <2> HIDE DEF x
  <2>3. /\ logs' \in Seq(Logs) /\ Inodes' = Inodes
        /\ \A j \in Inodes \ {i} : logs'[j] = logs[j]
        /\ DOMAIN logs'[i] = 1..(Len(l) + 1)
        /\ \A j \in 1..Len(l) : logs'[i][j] = l[j]
    <3>1. logs \in Seq(Logs) /\ i \in DOMAIN logs
      BY <1>0 DEF Inodes
    <3> HIDE DEF i
    <3>2. /\ logs' \in Seq(Logs) /\ DOMAIN logs' = DOMAIN logs
          /\ \A j \in DOMAIN logs \ {i} : logs'[j] = logs[j]
      BY <2>1, <2>2, <3>1, AppendLog
    <3>3. DOMAIN logs'[i] = 1..(Len(logs[i]) + 1)
      BY <2>1, <2>2, <3>1, AppendLog
    <3>4. \A j \in 1..Len(logs[i]) : logs'[i][j] = logs[i][j]
      BY <2>1, <2>2, <3>1, AppendLog
    <3> QED
      BY <3>2, <3>3, <3>4 DEF Inodes
  <2> HIDE DEF i, l
  <2>4. TypeOK' /\ OneFile'
    BY <1>0, <2>3 DEF TypeOK, OneFile, i, Appending
  <2>5. Spoilt'
    <3>1. \A j \in DOMAIN l : j \in DOMAIN logs'[i]
      BY <1>b, <2>3
    <3> QED
      BY <1>0, <1>b, <2>3, <3>1 DEF Spoilt, l
  <2>6. Clean' /\ Kept' /\ InHand' /\ OneBase' /\ TornTailLast' /\ SeqIsPosition'
    BY <1>0, <2>0 DEF Clean, Kept, InHand, OneBase, TornTailLast, SeqIsPosition
  <2>7. Sole' /\ Counting'
    BY <1>0, <2>0 DEF Sole, Counting
  <2> QED
    BY <1>c, <2>4, <2>5, <2>6, <2>7
<1>2. CASE LastState(l) \notin {"whole", "bad"}
  <2> DEFINE st == IF Own(r) THEN "open" ELSE "mixed"
  <2>1. l # <<>> /\ logs' = [logs EXCEPT ![i] = Marked(logs[i], st)]
    BY <1>2, <1>b DEF EndJson, Mark, Marked
  <2>2. st \in States /\ crossed' = crossed /\ split' = split /\ glued' = glued
    BY <1>0 DEF States
  <2>o. /\ Own(r) => l[Len(l)].state = "torn" /\ l[Len(l)].event = event[r]
        /\ ~Own(r) => glued
    BY <1>0, <1>b, <2>1, WriteFacts DEF Own, LastIs
  <2>s. st = "open" <=> Own(r)
    OBVIOUS
  <2>t. st \in {"open", "mixed"}
    OBVIOUS
  <2> HIDE DEF st
  <2>3. /\ logs' \in Seq(Logs) /\ Inodes' = Inodes
        /\ OneBase' /\ TornTailLast' /\ SeqIsPosition'
    <3>1. i \in Inodes /\ logs[i] # <<>> /\ logs' = [logs EXCEPT ![i] = Marked(logs[i], st)]
      BY <1>0, <2>1
    <3>2. OpInv
      OBVIOUS
    <3>3. glued => glued'
      BY <2>2
    <3> HIDE DEF OpInv, i
    <3> QED
      BY <2>2, <3>1, <3>2, <3>3, MarkKeeps
  <2>4. /\ \A j \in Inodes \ {i} : logs'[j] = logs[j]
        /\ Len(logs'[i]) = Len(l) /\ logs'[i] # <<>> /\ DOMAIN logs'[i] = DOMAIN l
        /\ Len(l) \in DOMAIN l
        /\ \A j \in DOMAIN l :
             /\ logs'[i][j].event = l[j].event
             /\ logs'[i][j].state = IF j = Len(l) THEN st ELSE l[j].state
    BY <1>0, <2>1, <2>2, MarkLog DEF Inodes
  <2> HIDE DEF i, l
  <2>5. TypeOK' /\ OneFile'
    BY <1>0, <2>3 DEF TypeOK, OneFile, i, Appending
  <2>6. Clean'
    <3>1. ~glued => st \in {"open", "whole"}
      BY <2>o, <2>s
    <3>2. ASSUME ~glued, NEW k \in Inodes, NEW j \in DOMAIN logs'[k]
          PROVE  logs'[k][j].state \in {"torn", "open", "whole"}
      <4>1. CASE k = i
        BY <2>4, <3>1, <3>2, <4>1 DEF Clean, l
      <4>2. CASE k # i
        BY <2>3, <2>4, <3>2, <4>2 DEF Clean
      <4> QED
        BY <4>1, <4>2
    <3> QED
      BY <1>0, <2>3, <3>2 DEF Clean
  <2>7. Spoilt'
    <3>1. CASE Own(r)
      BY <1>0, <2>3, <2>4, <2>o, <3>1 DEF Spoilt, l
    <3>2. CASE ~Own(r)
      BY <1>0, <2>3, <2>4, <2>s, <2>t, <3>2 DEF Spoilt
    <3> QED
      BY <3>1, <3>2
  <2>8. Kept'
    <3>1. ~glued => l[Len(l)].state = "torn"
      BY <2>o
    <3>2. ~glued => \A k \in Inodes : \A j \in DOMAIN logs[k] :
             logs[k][j].state = "whole" =>
                j \in DOMAIN logs'[k] /\ logs'[k][j].event = logs[k][j].event
                /\ logs'[k][j].state = "whole"
      BY <2>3, <2>4, <3>1 DEF l
    <3> QED
      BY <1>0, <2>3, <3>2 DEF Kept
  <2>9. InHand'
    <3>1. ~glued => LastIs(r, "open")'
      BY <1>0, <2>3, <2>4, <2>o, <2>s DEF LastIs, i
    <3>2. ~glued => \A s \in Recorders \ {r} : rpc[s] \in {"rest", "newline"} => out[s] # i
      BY <1>0, OthersInHand DEF i
    <3>3. \A s \in Recorders : rpc[s] \in {"rest", "newline"} => out[s] \in Inodes
      BY DEF TypeOK
    <3>4. ASSUME ~glued, NEW s \in Recorders \ {r}
          PROVE  /\ rpc[s] = "rest" => LastIs(s, "torn")'
                 /\ rpc[s] = "newline" => LastIs(s, "open")'
      BY <1>0, <2>4, <3>2, <3>3, <3>4 DEF InHand, LastIs
    <3> QED
      BY <1>0, <1>a, <3>1, <3>4 DEF InHand
  <2>10. Sole' /\ Counting'
    <3>1. LastState(logs'[i]) = st
      BY <2>4 DEF LastState
    <3> QED
      BY <1>0, <1>a, <2>t, <3>1 DEF Sole, Counting, Appending, i
  <2> QED
    BY <1>c, <2>3, <2>5, <2>6, <2>7, <2>8, <2>9, <2>10
<1> QED
  BY <1>1, <1>2

\* The newline, and the answer.
LEMMA EndLineStep == ASSUME OpInv, NEW r \in Recorders, EndLine(r) PROVE OpInv'
<1> USE OpJournalAssumptions DEF OpInv
<1> DEFINE i == out[r]
           l == logs[i]
<1>0. /\ logs \in Seq(Logs) /\ i \in Inodes /\ rpc \in [Recorders -> Calls]
      /\ rpc[r] = "newline" /\ rpc' = [rpc EXCEPT ![r] = "ready"]
      /\ event' = [event EXCEPT ![r] = 0] /\ len' = [len EXCEPT ![r] = 0]
      /\ out' = [out EXCEPT ![r] = NoLog]
      /\ event[r] \in 1..tried /\ acked' = acked \cup {event[r]}
      /\ UNCHANGED <<active, compacted, rbase, from, cpc, dpc, got,
                     before, tried, crashes, crossed, split, glued>>
  <2>1. /\ rpc[r] = "newline" /\ rpc' = [rpc EXCEPT ![r] = "ready"]
        /\ event' = [event EXCEPT ![r] = 0] /\ len' = [len EXCEPT ![r] = 0]
        /\ out' = [out EXCEPT ![r] = NoLog] /\ acked' = acked \cup {event[r]}
        /\ UNCHANGED <<active, compacted, rbase, from, cpc, dpc, got,
                       before, tried, crashes, crossed, split, glued>>
    BY DEF EndLine, Acknowledge, Leave, Goto
  <2> QED
    BY <2>1, WriteFacts
<1>a. /\ \A s \in Recorders \ {r} : /\ rpc'[s] = rpc[s] /\ event'[s] = event[s]
                                    /\ out'[s] = out[s] /\ len'[s] = len[s]
                                    /\ ~crossed => ~Appending(s)
      /\ \A s \in Recorders : Appending(s)' => Appending(s)
      /\ rpc'[r] = "ready" /\ event'[r] = 0
  BY <1>0, WriteFacts DEF TypeOK
<1>b. /\ Len(l) \in Nat /\ DOMAIN l = 1..Len(l) /\ LastState(l) \in States
      /\ l # <<>> => Len(l) \in DOMAIN l /\ LastState(l) = l[Len(l)].state
      /\ LastState(l) \notin {"whole", "bad"} => l # <<>>
  BY <1>0, LastLine
<1>c. Distinct' /\ Alone' /\ ReadComplete'
  BY <1>0, <1>a DEF Distinct, Alone, ReadComplete
<1>d. Sole' /\ Counting'
  BY <1>0, <1>a DEF Sole, Counting, Appending
<1>e. ASSUME logs' \in Seq(Logs), Inodes' = Inodes PROVE TypeOK' /\ OneFile'
  BY <1>0, <1>e DEF TypeOK, OneFile, Appending
<1>1. CASE LastState(l) \in {"whole", "bad"}
  <2>0. glued /\ crossed
    BY <1>1, FragmentStep
  <2>1. logs' = logs
    BY <1>1 DEF EndLine
  <2>2. OneBase' /\ TornTailLast' /\ SeqIsPosition' /\ Clean' /\ Spoilt'
    BY <1>0, <2>1, LinesKept
  <2>3. Kept' /\ InHand'
    BY <1>0, <2>0 DEF Kept, InHand
  <2> QED
    BY <1>0, <1>c, <1>d, <1>e, <2>1, <2>2, <2>3 DEF Inodes
<1>2. CASE LastState(l) \notin {"whole", "bad"}
  <2> DEFINE st == IF LastState(l) = "open" THEN "whole" ELSE "bad"
  <2>1. l # <<>> /\ logs' = [logs EXCEPT ![i] = Marked(logs[i], st)]
    BY <1>2, <1>b DEF EndLine, Mark, Marked
  <2>2. st \in States /\ crossed' = crossed /\ split' = split /\ glued' = glued
    BY <1>0 DEF States
  <2>o. ~glued => l[Len(l)].state = "open" /\ l[Len(l)].event = event[r]
    BY <1>0, WriteFacts DEF LastIs
  <2>s. /\ l[Len(l)].state = "open" => st = "whole"
        /\ l[Len(l)].state # "open" => st = "bad"
    BY <1>b, <2>1
  <2> HIDE DEF st
  <2>3. /\ logs' \in Seq(Logs) /\ Inodes' = Inodes
        /\ OneBase' /\ TornTailLast' /\ SeqIsPosition'
    <3>1. i \in Inodes /\ logs[i] # <<>> /\ logs' = [logs EXCEPT ![i] = Marked(logs[i], st)]
      BY <1>0, <2>1
    <3>2. OpInv
      OBVIOUS
    <3>3. glued => glued'
      BY <2>2
    <3> HIDE DEF OpInv, i
    <3> QED
      BY <2>2, <3>1, <3>2, <3>3, MarkKeeps
  <2>4. /\ \A j \in Inodes \ {i} : logs'[j] = logs[j]
        /\ Len(logs'[i]) = Len(l) /\ logs'[i] # <<>> /\ DOMAIN logs'[i] = DOMAIN l
        /\ Len(l) \in DOMAIN l
        /\ \A j \in DOMAIN l :
             /\ logs'[i][j].event = l[j].event
             /\ logs'[i][j].state = IF j = Len(l) THEN st ELSE l[j].state
    BY <1>0, <2>1, <2>2, MarkLog DEF Inodes
  <2> HIDE DEF i, l
  <2>6. Clean'
    <3>1. ~glued => st \in {"open", "whole"}
      BY <2>o, <2>s
    <3>2. ASSUME ~glued, NEW k \in Inodes, NEW j \in DOMAIN logs'[k]
          PROVE  logs'[k][j].state \in {"torn", "open", "whole"}
      <4>1. CASE k = i
        BY <2>4, <3>1, <3>2, <4>1 DEF Clean, l
      <4>2. CASE k # i
        BY <2>3, <2>4, <3>2, <4>2 DEF Clean
      <4> QED
        BY <4>1, <4>2
    <3> QED
      BY <1>0, <2>3, <3>2 DEF Clean
  <2>7. Spoilt'
    <3>1. CASE l[Len(l)].state = "open"
      BY <1>0, <2>3, <2>4, <3>1 DEF Spoilt, l
    <3>2. CASE l[Len(l)].state # "open"
      BY <1>0, <2>3, <2>4, <2>s, <3>2 DEF Spoilt
    <3> QED
      BY <3>1, <3>2
  <2>8. Kept'
    <3>1. ~glued => \A k \in Inodes : \A j \in DOMAIN logs[k] :
             logs[k][j].state = "whole" =>
                j \in DOMAIN logs'[k] /\ logs'[k][j].event = logs[k][j].event
                /\ logs'[k][j].state = "whole"
      BY <2>3, <2>4, <2>o DEF l
    <3>2. ~glued => logs'[i][Len(l)].event = event[r] /\ logs'[i][Len(l)].state = "whole"
      BY <2>4, <2>o, <2>s
    <3>3. ASSUME ~glued, NEW n \in acked'
          PROVE  \E k \in Inodes : \E j \in DOMAIN logs'[k] :
                    logs'[k][j].event = n /\ logs'[k][j].state = "whole"
      <4>1. CASE n = event[r]
        BY <1>0, <2>4, <3>2, <3>3, <4>1
      <4>2. CASE n \in acked
        <5>1. PICK k \in Inodes : \E j \in DOMAIN logs[k] :
                 logs[k][j].event = n /\ logs[k][j].state = "whole"
          BY <3>3, <4>2 DEF Kept
        <5> QED
          BY <3>1, <3>3, <5>1
      <4> QED
        BY <1>0, <3>3, <4>1, <4>2
    <3> QED
      BY <1>0, <2>3, <3>3 DEF Kept
  <2>9. InHand'
    <3>2. ~glued => \A s \in Recorders \ {r} : rpc[s] \in {"rest", "newline"} => out[s] # i
      BY <1>0, OthersInHand DEF i
    <3>3. \A s \in Recorders : rpc[s] \in {"rest", "newline"} => out[s] \in Inodes
      BY DEF TypeOK
    <3> QED
      BY <1>0, <1>a, <2>4, <3>2, <3>3 DEF InHand, LastIs
  <2> QED
    BY <1>c, <1>d, <1>e, <2>3, <2>6, <2>7, <2>8, <2>9
<1> QED
  BY <1>1, <1>2

-----------------------------------------------------------------------------
(* The steps that write no line. *)

\* A recorder's call that leaves the journals as they are.
LEMMA RecorderStep ==
    ASSUME OpInv, NEW r \in Recorders,
           \/ RefuseAppend(r)
           \/ BeginAppend(r)
           \/ FindActive(r)
           \/ LocateExisting(r)
           \/ ReadExisting(r)
           \/ RejectExisting(r)
           \/ Crash(r)
           \/ \E b \in Bases : Resume(r, b)
    PROVE  OpInv'
<1> USE OpJournalAssumptions DEF OpInv, recorder, history
<1>a. rpc \in [Recorders -> Calls]
  BY DEF TypeOK, Calls
<1>1. CASE RefuseAppend(r)
  <2>1. TypeOK'
    BY <1>1, <1>a DEF RefuseAppend, Goto, TypeOK, Appending, Inodes, Calls
  <2>2. OneBase' /\ TornTailLast' /\ SeqIsPosition' /\ Clean' /\ Spoilt'
    BY <1>1, LinesKept DEF RefuseAppend
  <2>3. OneFile' /\ Kept' /\ ReadComplete'
    BY <1>1 DEF RefuseAppend, OneFile, Kept, ReadComplete, Inodes
  <2>4. Distinct' /\ Alone'
    BY <1>1, <1>a DEF RefuseAppend, Goto, Distinct, Alone, Appending, TypeOK
  <2>5. InHand'
    BY <1>1, <1>a DEF RefuseAppend, Goto, InHand, LastIs, TypeOK
  <2>6. Sole'
    BY <1>1, <1>a DEF RefuseAppend, Goto, Sole, Alone, Appending, Extends, Readable, TypeOK, Inodes
  <2>7. Counting'
    BY <1>1, <1>a DEF RefuseAppend, Goto, Sole, Counting, Alone, Appending, TypeOK
  <2> QED
    BY <2>1, <2>2, <2>3, <2>4, <2>5, <2>6, <2>7
<1>2. CASE BeginAppend(r)
  <2>1. TypeOK'
    BY <1>2, <1>a DEF BeginAppend, Goto, TypeOK, Appending, Inodes, Calls
  <2>2. OneBase' /\ TornTailLast' /\ SeqIsPosition' /\ Clean' /\ Spoilt'
    BY <1>2, LinesKept DEF BeginAppend
  <2>3. OneFile' /\ Kept' /\ ReadComplete'
    BY <1>2 DEF BeginAppend, OneFile, Kept, ReadComplete, Inodes
  <2>4. Distinct' /\ Alone'
    <3>1. Distinct'
      <4>1. event[r] \in 0..tried /\ \A s \in Recorders : event[s] \in 0..tried
        BY DEF TypeOK
      <4>2. event' = [event EXCEPT ![r] = tried + 1] /\ tried \in Nat
        BY <1>2 DEF BeginAppend, TypeOK
      <4>3. \A s \in Recorders : event'[s] = IF s = r THEN tried + 1 ELSE event[s]
        BY <4>2 DEF TypeOK
      <4> QED
        BY <4>1, <4>2, <4>3 DEF Distinct
    <3>2. Alone'
      BY <1>2, <1>a DEF BeginAppend, Goto, Alone, Appending
    <3> QED
      BY <3>1, <3>2
  <2>5. InHand'
    BY <1>2, <1>a DEF BeginAppend, Goto, InHand, LastIs, TypeOK
  <2>6. Sole'
    BY <1>2, <1>a DEF BeginAppend, Goto, Sole, Alone, Appending, Extends, Readable, TypeOK, Inodes
  <2>7. Counting'
    BY <1>2, <1>a DEF BeginAppend, Goto, Sole, Counting, Alone, Appending, TypeOK
  <2> QED
    BY <2>1, <2>2, <2>3, <2>4, <2>5, <2>6, <2>7
<1>3. CASE FindActive(r)
  <2>1. TypeOK'
    BY <1>3, <1>a DEF FindActive, Goto, TypeOK, Appending, Inodes, Calls
  <2>2. OneBase' /\ TornTailLast' /\ SeqIsPosition' /\ Clean' /\ Spoilt'
    BY <1>3, LinesKept DEF FindActive
  <2>3. OneFile' /\ Kept' /\ ReadComplete'
    BY <1>3 DEF FindActive, OneFile, Kept, ReadComplete, Inodes
  <2>4. Distinct' /\ Alone'
    BY <1>3, <1>a DEF FindActive, Goto, Distinct, Alone, Appending, TypeOK
  <2>5. InHand'
    BY <1>3, <1>a DEF FindActive, Goto, InHand, LastIs, TypeOK
  <2>6. Sole'
    BY <1>3, <1>a DEF FindActive, Goto, Sole, Alone, Appending, Extends, Readable, TypeOK, Inodes
  <2>7. Counting'
    BY <1>3, <1>a DEF FindActive, Goto, Sole, Counting, Alone, Appending, TypeOK
  <2> QED
    BY <2>1, <2>2, <2>3, <2>4, <2>5, <2>6, <2>7
<1>4. CASE LocateExisting(r)
  <2>1. TypeOK'
    BY <1>4, <1>a DEF LocateExisting, Resolve, Goto, TypeOK, Appending, Inodes, Calls
  <2>2. OneBase' /\ TornTailLast' /\ SeqIsPosition' /\ Clean' /\ Spoilt'
    BY <1>4, LinesKept DEF LocateExisting
  <2>3. OneFile' /\ Kept' /\ ReadComplete'
    BY <1>4 DEF LocateExisting, OneFile, Kept, ReadComplete, Inodes
  <2>4. Distinct' /\ Alone'
    BY <1>4, <1>a DEF LocateExisting, Resolve, Goto, Distinct, Alone, Appending, TypeOK
  <2>5. InHand'
    BY <1>4, <1>a DEF LocateExisting, Resolve, Goto, InHand, LastIs, TypeOK
  <2>6. Sole'
    BY <1>4, <1>a DEF LocateExisting, Resolve, Goto, Sole, Alone, Appending, Extends, Readable, TypeOK, Inodes
  <2>7. Counting'
    BY <1>4, <1>a DEF LocateExisting, Resolve, Goto, Sole, Counting, Alone, Appending, TypeOK
  <2> QED
    BY <2>1, <2>2, <2>3, <2>4, <2>5, <2>6, <2>7
<1>5. CASE ReadExisting(r)
  <2> DEFINE i == Named(from[r])
  <2>a. /\ rpc[r] = "read" /\ rpc' = [rpc EXCEPT ![r] = "open"]
        /\ from' = [from EXCEPT ![r] = NoLog] /\ len' = [len EXCEPT ![r] = Len(logs[i])]
        /\ Usable(r, i)
        /\ UNCHANGED <<logs, active, compacted, rbase, event, out, cpc, dpc, got, history>>
    BY <1>5 DEF ReadExisting, Goto, Forget
  <2>b. /\ i \in Inodes /\ Readable(i) /\ Len(logs[i]) \in Nat /\ DOMAIN logs[i] = 1..Len(logs[i])
        /\ from[r] = "active" => i = active
        /\ from[r] # "active" => active = NoLog \/ crossed
    <3>1. i \in Inodes /\ Readable(i)
      BY <2>a DEF Usable, Readable, Named, TypeOK
    <3>2. Len(logs[i]) \in Nat /\ DOMAIN logs[i] = 1..Len(logs[i])
      BY <3>1, LastLine
    <3>3. from[r] # "active" => active = NoLog \/ crossed
      BY <2>a DEF Sole
    <3> QED
      BY <3>1, <3>2, <3>3 DEF Named
  <2>c. ~crossed => Extends(r, i)
    <3>1. logs[i] # <<>> => 1 \in DOMAIN logs[i] /\ logs[i][1].base = rbase[r]
      BY <2>a, <2>b, LastLine DEF Usable
    <3>2. logs[i] = <<>> => DOMAIN logs[i] = {}
      OBVIOUS
    <3> QED
      BY <2>b, <3>1, <3>2 DEF OneBase, Extends
  <2> HIDE DEF i
  <2>1. TypeOK'
    BY <1>a, <2>a, <2>b DEF TypeOK, Appending, Inodes, Calls
  <2>2. OneBase' /\ TornTailLast' /\ SeqIsPosition' /\ Clean' /\ Spoilt'
    BY <1>5, LinesKept DEF ReadExisting
  <2>3. OneFile' /\ Kept' /\ ReadComplete'
    BY <1>5 DEF ReadExisting, OneFile, Kept, ReadComplete, Inodes
  <2>4. Distinct' /\ Alone'
    BY <1>5, <1>a DEF ReadExisting, Usable, Named, Readable, Goto, Forget, Distinct, Alone, Appending, TypeOK
  <2>5. InHand'
    BY <1>5, <1>a DEF ReadExisting, Usable, Named, Readable, Goto, Forget, InHand, LastIs, TypeOK
  <2>6. Sole'
    <3>1. ~crossed => \A s \in Recorders \ {r} : ~Appending(s)
      BY <2>a DEF Alone, Appending
    <3>2. ~crossed /\ active # NoLog => Extends(r, active)
      BY <2>b, <2>c
    <3> QED
      BY <1>a, <2>a, <3>1, <3>2 DEF Sole, Appending, Extends, Readable
  <2>7. Counting'
    <3>1. ~crossed => \A s \in Recorders \ {r} : ~Appending(s)
      BY <2>a DEF Alone, Appending
    <3>2. logs # <<>>
      BY <2>b DEF Inodes
    <3>3. len'[r] = Len(logs[i])
      BY <2>a DEF TypeOK
    <3> QED
      BY <1>a, <2>a, <2>b, <3>1, <3>2, <3>3 DEF Counting, Appending
  <2> QED
    BY <2>1, <2>2, <2>3, <2>4, <2>5, <2>6, <2>7
<1>6. CASE RejectExisting(r)
  <2>1. TypeOK'
    BY <1>6, <1>a DEF RejectExisting, Goto, Forget, TypeOK, Appending, Inodes, Calls
  <2>2. OneBase' /\ TornTailLast' /\ SeqIsPosition' /\ Clean' /\ Spoilt'
    BY <1>6, LinesKept DEF RejectExisting
  <2>3. OneFile' /\ Kept' /\ ReadComplete'
    BY <1>6 DEF RejectExisting, OneFile, Kept, ReadComplete, Inodes
  <2>4. Distinct' /\ Alone'
    BY <1>6, <1>a DEF RejectExisting, Goto, Forget, Distinct, Alone, Appending, TypeOK
  <2>5. InHand'
    BY <1>6, <1>a DEF RejectExisting, Goto, Forget, InHand, LastIs, TypeOK
  <2>6. Sole'
    BY <1>6, <1>a DEF RejectExisting, Goto, Forget, Sole, Alone, Appending, Extends, Readable, TypeOK, Inodes
  <2>7. Counting'
    BY <1>6, <1>a DEF RejectExisting, Goto, Forget, Sole, Counting, Alone, Appending, TypeOK
  <2> QED
    BY <2>1, <2>2, <2>3, <2>4, <2>5, <2>6, <2>7
<1>7. CASE Crash(r)
  <2>1. TypeOK'
    BY <1>7, <1>a DEF Crash, Leave, Goto, Forget, TypeOK, Appending, Inodes, Calls
  <2>2. OneBase' /\ TornTailLast' /\ SeqIsPosition' /\ Clean' /\ Spoilt'
    BY <1>7, LinesKept DEF Crash
  <2>3. OneFile' /\ Kept' /\ ReadComplete'
    BY <1>7 DEF Crash, OneFile, Kept, ReadComplete, Inodes
  <2>4. Distinct' /\ Alone'
    BY <1>7, <1>a DEF Crash, Leave, Goto, Forget, Distinct, Alone, Appending, TypeOK
  <2>5. InHand'
    BY <1>7, <1>a DEF Crash, Leave, Goto, Forget, InHand, LastIs, TypeOK
  <2>6. Sole'
    BY <1>7, <1>a DEF Crash, Leave, Goto, Forget, Sole, Alone, Appending, Extends, Readable, TypeOK, Inodes
  <2>7. Counting'
    BY <1>7, <1>a DEF Crash, Leave, Goto, Forget, Sole, Counting, Alone, Appending, TypeOK
  <2> QED
    BY <2>1, <2>2, <2>3, <2>4, <2>5, <2>6, <2>7
<1>8. ASSUME NEW b \in Bases, Resume(r, b) PROVE OpInv'
  <2>1. TypeOK'
    BY <1>8, <1>a DEF Resume, Goto, TypeOK, Appending, Inodes, Calls
  <2>2. OneBase' /\ TornTailLast' /\ SeqIsPosition' /\ Clean' /\ Spoilt'
    BY <1>8, LinesKept DEF Resume
  <2>3. OneFile' /\ Kept' /\ ReadComplete'
    BY <1>8 DEF Resume, OneFile, Kept, ReadComplete, Inodes
  <2>4. Distinct' /\ Alone'
    BY <1>8, <1>a DEF Resume, Goto, Distinct, Alone, Appending, TypeOK
  <2>5. InHand'
    BY <1>8, <1>a DEF Resume, Goto, InHand, LastIs, TypeOK
  <2>6. Sole'
    BY <1>8, <1>a DEF Resume, Goto, Sole, Alone, Appending, Extends, Readable, TypeOK, Inodes
  <2>7. Counting'
    BY <1>8, <1>a DEF Resume, Goto, Sole, Counting, Alone, Appending, TypeOK
  <2> QED
    BY <2>1, <2>2, <2>3, <2>4, <2>5, <2>6, <2>7
<1> QED
  BY <1>1, <1>2, <1>3, <1>4, <1>5, <1>6, <1>7, <1>8

\* A compaction moves names, never lines.
LEMMA CompactStep ==
    ASSUME OpInv, NEW c \in Compactors,
           \/ BeginCompact(c)
           \/ ClearCompacted(c)
           \/ RemoveCompacted(c)
           \/ RenameActive(c)
           \/ AbortCompact(c)
    PROVE  OpInv'
<1> USE OpJournalAssumptions DEF OpInv, recorder, history
<1>1. CASE BeginCompact(c)
  <2>1. TypeOK'
    BY <1>1 DEF BeginCompact, TypeOK, Appending, Inodes
  <2>2. OneBase' /\ TornTailLast' /\ SeqIsPosition' /\ Clean' /\ Spoilt'
    BY <1>1, LinesKept DEF BeginCompact
  <2>3. OneFile'
    BY <1>1 DEF BeginCompact, OneFile, Inodes, TypeOK
  <2>4. Kept' /\ ReadComplete' /\ Distinct' /\ Alone' /\ InHand'
    BY <1>1 DEF BeginCompact, Kept, ReadComplete, Distinct, Alone, Appending, InHand, LastIs, Inodes
  <2>5. Sole' /\ Counting'
    BY <1>1 DEF BeginCompact, Sole, Counting, Extends, Readable, TypeOK
  <2> QED
    BY <2>1, <2>2, <2>3, <2>4, <2>5
<1>2. CASE ClearCompacted(c)
  <2>1. TypeOK'
    BY <1>2 DEF ClearCompacted, TypeOK, Appending, Inodes
  <2>2. OneBase' /\ TornTailLast' /\ SeqIsPosition' /\ Clean' /\ Spoilt'
    BY <1>2, LinesKept DEF ClearCompacted
  <2>3. OneFile'
    BY <1>2 DEF ClearCompacted, OneFile, Inodes, TypeOK
  <2>4. Kept' /\ ReadComplete' /\ Distinct' /\ Alone' /\ InHand'
    BY <1>2 DEF ClearCompacted, Kept, ReadComplete, Distinct, Alone, Appending, InHand, LastIs, Inodes
  <2>5. Sole' /\ Counting'
    BY <1>2 DEF ClearCompacted, Sole, Counting, Extends, Readable, TypeOK
  <2> QED
    BY <2>1, <2>2, <2>3, <2>4, <2>5
<1>3. CASE RemoveCompacted(c)
  <2>1. TypeOK'
    BY <1>3 DEF RemoveCompacted, TypeOK, Appending, Inodes
  <2>2. OneBase' /\ TornTailLast' /\ SeqIsPosition' /\ Clean' /\ Spoilt'
    BY <1>3, LinesKept DEF RemoveCompacted
  <2>3. OneFile'
    BY <1>3 DEF RemoveCompacted, OneFile, Inodes, TypeOK
  <2>4. Kept' /\ ReadComplete' /\ Distinct' /\ Alone' /\ InHand'
    <3>1. Kept' /\ Distinct' /\ Alone' /\ InHand'
      BY <1>3 DEF RemoveCompacted, Kept, Distinct, Alone, Appending, InHand, LastIs, Inodes
    <3>2. ReadComplete'
      BY <1>3 DEF RemoveCompacted, ReadComplete
    <3> QED
      BY <3>1, <3>2
  <2>5. Sole' /\ Counting'
    BY <1>3 DEF RemoveCompacted, Sole, Counting, Extends, Readable, TypeOK
  <2> QED
    BY <2>1, <2>2, <2>3, <2>4, <2>5
<1>4. CASE RenameActive(c)
  <2>1. TypeOK'
    BY <1>4 DEF RenameActive, TypeOK, Appending, Inodes
  <2>2. OneBase' /\ TornTailLast' /\ SeqIsPosition' /\ Clean' /\ Spoilt'
    BY <1>4, LinesKept DEF RenameActive
  <2>3. OneFile'
    BY <1>4 DEF RenameActive, OneFile, Inodes, TypeOK
  <2>4. Kept' /\ ReadComplete' /\ Distinct' /\ Alone' /\ InHand'
    BY <1>4 DEF RenameActive, Kept, ReadComplete, Distinct, Alone, Appending, InHand, LastIs, Inodes
  <2>5. Sole' /\ Counting'
    BY <1>4 DEF RenameActive, Sole, Counting, Extends, Readable, TypeOK
  <2> QED
    BY <2>1, <2>2, <2>3, <2>4, <2>5
<1>5. CASE AbortCompact(c)
  <2>1. TypeOK'
    BY <1>5 DEF AbortCompact, TypeOK, Appending, Inodes
  <2>2. OneBase' /\ TornTailLast' /\ SeqIsPosition' /\ Clean' /\ Spoilt'
    BY <1>5, LinesKept DEF AbortCompact
  <2>3. OneFile'
    BY <1>5 DEF AbortCompact, OneFile, Inodes, TypeOK
  <2>4. Kept' /\ ReadComplete' /\ Distinct' /\ Alone' /\ InHand'
    BY <1>5 DEF AbortCompact, Kept, ReadComplete, Distinct, Alone, Appending, InHand, LastIs, Inodes
  <2>5. Sole' /\ Counting'
    BY <1>5 DEF AbortCompact, Sole, Counting, Extends, Readable, TypeOK
  <2> QED
    BY <2>1, <2>2, <2>3, <2>4, <2>5
<1> QED
  BY <1>1, <1>2, <1>3, <1>4, <1>5

\* As long as there is one file, a reader that parses it finds every event
\* that was acknowledged: spoilt lines would not have parsed.
LEMMA ParsedIsComplete ==
    ASSUME OpInv, ~split, NEW i \in Inodes, Readable(i)
    PROVE  acked \subseteq Events(logs[i])
<1> USE OpJournalAssumptions DEF OpInv
<1>1. \A k \in Inodes : k = i
  BY LastLine DEF OneFile
<1>2. ~glued
  BY <1>1 DEF Spoilt, Readable
<1> QED
  BY <1>1, <1>2 DEF Kept, Events

\* A reader changes nothing but its own state.
LEMMA ReaderStep ==
    ASSUME OpInv, NEW d \in Readers,
           \/ LocateJournal(d)
           \/ ReadJournal(d)
           \/ RejectJournal(d)
    PROVE  OpInv'
<1> USE OpJournalAssumptions DEF OpInv, recorder, history
<1>a. UNCHANGED <<logs, active, compacted, rpc, rbase, event, len, out, cpc,
                  acked, tried, crashes, crossed, split, glued>>
      /\ \A r \in Recorders : from'[r] = from[r]
  BY DEF LocateJournal, ReadJournal, RejectJournal, Forget, TypeOK
<1>b. OneBase' /\ TornTailLast' /\ SeqIsPosition' /\ Clean' /\ Spoilt'
  BY <1>a, LinesKept
<1>c. OneFile' /\ Kept' /\ Distinct' /\ Alone' /\ InHand'
  BY <1>a DEF OneFile, Kept, Distinct, Alone, Appending, InHand, LastIs, Inodes
<1>d. Sole' /\ Counting'
  BY <1>a DEF Sole, Counting, Extends, Readable
<1>1. TypeOK'
  <2>1. CASE LocateJournal(d)
    BY <1>a, <2>1 DEF LocateJournal, TypeOK, Appending, Inodes, Resolve
  <2>2. CASE ReadJournal(d)
    <3>1. Named(from[d]) \in Inodes
      BY <2>2 DEF ReadJournal, Readable, Named, TypeOK
    <3>2. logs[Named(from[d])] \in Logs
      BY <3>1, ElementOfSeq, LenProperties DEF TypeOK, Inodes
    <3> QED
      BY <1>a, <2>2, <3>2 DEF ReadJournal, Forget, TypeOK, Appending, Inodes
  <2>3. CASE RejectJournal(d)
    BY <1>a, <2>3 DEF RejectJournal, Forget, TypeOK, Appending, Inodes
  <2> QED
    BY <2>1, <2>2, <2>3
<1>2. ReadComplete'
  <2>1. CASE LocateJournal(d)
    BY <1>a, <2>1 DEF LocateJournal, ReadComplete, TypeOK
  <2>2. CASE ReadJournal(d)
    <3>1. Named(from[d]) \in Inodes /\ Readable(Named(from[d]))
      BY <2>2 DEF ReadJournal, Readable, Named, TypeOK
    <3>2. ~split => before[d] \subseteq Events(logs[Named(from[d])])
      BY <3>1, ParsedIsComplete DEF TypeOK
    <3>3. \A e \in Readers \ {d} : dpc'[e] = dpc[e] /\ got'[e] = got[e] /\ before'[e] = before[e]
      BY <2>2 DEF ReadJournal, TypeOK
    <3>4. got'[d] = logs[Named(from[d])] /\ before'[d] = before[d]
      BY <2>2 DEF ReadJournal, TypeOK
    <3> QED
      BY <1>a, <3>2, <3>3, <3>4 DEF ReadComplete
  <2>3. CASE RejectJournal(d)
    BY <1>a, <2>3 DEF RejectJournal, ReadComplete, TypeOK
  <2> QED
    BY <2>1, <2>2, <2>3
<1> QED
  BY <1>b, <1>c, <1>d, <1>1, <1>2

-----------------------------------------------------------------------------
(* The invariant, and what it says of the journal. *)

\* Nothing is recorded yet.
LEMMA OpInit == Init => OpInv
<1> SUFFICES ASSUME Init PROVE OpInv
  OBVIOUS
<1> USE OpJournalAssumptions DEF Init
<1>1. logs \in Seq(Logs) /\ Inodes = {} /\ <<>> \in Logs
  BY EmptySeq DEF Inodes, Logs
<1>2. TypeOK
  <2>1. crossed \in BOOLEAN /\ split \in BOOLEAN /\ glued \in BOOLEAN
    OBVIOUS
  <2>2. got \in [Readers -> Logs] /\ before \in [Readers -> SUBSET acked] /\ acked \subseteq 1..tried
    BY <1>1
  <2> QED
    BY <1>1, <2>1, <2>2 DEF TypeOK, Appending
<1>3. OneFile /\ Clean /\ Spoilt /\ Kept
  BY <1>1 DEF OneFile, Clean, Spoilt, Kept
<1>4. OneBase /\ TornTailLast /\ SeqIsPosition
  BY <1>1 DEF OneBase, TornTailLast, SeqIsPosition
<1>5. Distinct /\ InHand /\ Alone /\ Sole /\ Counting /\ ReadComplete
  BY DEF Distinct, InHand, Alone, Appending, Sole, Counting, ReadComplete
<1> QED
  BY <1>2, <1>3, <1>4, <1>5 DEF OpInv

\* Every step of a process keeps the invariant.
LEMMA OpStep == OpInv /\ [Next]_vars => OpInv'
<1> SUFFICES ASSUME OpInv, [Next]_vars PROVE OpInv'
  OBVIOUS
<1>1. ASSUME NEW r \in Recorders,
             \/ RefuseAppend(r) \/ BeginAppend(r) \/ FindActive(r) \/ LocateExisting(r)
             \/ ReadExisting(r) \/ RejectExisting(r) \/ Crash(r) \/ \E b \in Bases : Resume(r, b)
      PROVE  OpInv'
  BY <1>1, RecorderStep
<1>2. ASSUME NEW r \in Recorders, OpenJournal(r) \/ StartLine(r) \/ EndJson(r) \/ EndLine(r)
      PROVE  OpInv'
  BY <1>2, OpenStep, StartStep, EndJsonStep, EndLineStep
<1>3. ASSUME NEW c \in Compactors,
             \/ BeginCompact(c) \/ ClearCompacted(c) \/ RemoveCompacted(c)
             \/ RenameActive(c) \/ AbortCompact(c)
      PROVE  OpInv'
  BY <1>3, CompactStep
<1>4. ASSUME NEW d \in Readers, LocateJournal(d) \/ ReadJournal(d) \/ RejectJournal(d)
      PROVE  OpInv'
  BY <1>4, ReaderStep
<1>5. CASE UNCHANGED vars
  <2> USE <1>5 DEF OpInv, vars, recorder, history
  <2>1. TypeOK' /\ OneFile' /\ Kept' /\ ReadComplete'
    BY DEF TypeOK, OneFile, Kept, ReadComplete, Inodes, Appending
  <2>2. OneBase' /\ TornTailLast' /\ SeqIsPosition' /\ Clean' /\ Spoilt'
    BY LinesKept
  <2>3. Distinct' /\ Alone' /\ InHand'
    BY DEF Distinct, Alone, Appending, InHand, LastIs
  <2>4. Sole' /\ Counting'
    BY DEF Sole, Counting, Extends, Readable
  <2> QED
    BY <2>1, <2>2, <2>3, <2>4
<1> QED
  BY <1>1, <1>2, <1>3, <1>4, <1>5 DEF Next

\* The invariant holds in every state of the journal.
LEMMA OpInvariant == Spec => []OpInv
BY OpInit, OpStep, PTL DEF Spec

\* What a reader finds has all that was acknowledged, or does not parse.
LEMMA AckedFact == OpInv => AckedReadable
<1> SUFFICES ASSUME OpInv, ~split, acked # {} PROVE AckedReadable
  BY DEF AckedReadable
<1> USE OpJournalAssumptions DEF OpInv
<1>1. PICK i \in Inodes : TRUE
  BY DEF Kept, Spoilt
<1>2. i # NoLog /\ \A k \in Inodes : k = i
  BY LastLine DEF OneFile, TypeOK
<1>3. Named(Resolve) = i
  BY <1>2 DEF OneFile, Named, Resolve, TypeOK
<1>4. CASE glued
  BY <1>2, <1>3, <1>4 DEF AckedReadable, Spoilt, Readable
<1>5. CASE ~glued
  BY <1>2, <1>3, <1>5 DEF AckedReadable, Kept
<1> QED
  BY <1>4, <1>5

\* Journals hold only lines of attempts that were made, and a recorder writes
\* to a file it opened, whichever name that file has by then.
THEOREM OpJournalTypeOK == Spec => []TypeOK
BY OpInvariant, PTL DEF OpInv

\* Unless two recorders are in an append at the same time, a journal file
\* never mixes events of two base checkpoints: between the read that checks
\* the base and the open that appends, the active journal can go but no other
\* can take its place.
THEOREM OpJournalOneBase == Spec => []OneBase
BY OpInvariant, PTL DEF OpInv

\* A line that a death left unfinished stays the last of its file, unless two
\* recorders appended at the same time and their bytes met.
THEOREM OpJournalTornTailLast == Spec => []TornTailLast
BY OpInvariant, PTL DEF OpInv

\* seq is the position of the line, unless two recorders appended at the same
\* time, or an append and a compaction parted the journal.
THEOREM OpJournalSeqIsPosition == Spec => []SeqIsPosition
BY OpInvariant, PTL DEF OpInv

\* Every acknowledged event keeps its line in the journal that a reader would
\* find, or the journal does not parse because bytes of two events met; a
\* journal made anew and a compacted one removed are excepted.
THEOREM OpJournalAckedReadable == Spec => []AckedReadable
BY OpInvariant, AckedFact, PTL

\* With the same exception a reader that gets an answer gets every event
\* acknowledged before it began.
THEOREM OpJournalReadComplete == Spec => []ReadComplete
BY OpInvariant, PTL DEF OpInv

=============================================================================
