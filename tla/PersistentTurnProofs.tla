------------------------ MODULE PersistentTurnProofs ------------------------
(***************************************************************************)
(* Theorems about PersistentTurn, for every number of servers, sessions    *)
(* and turns and every choice of faults.                                   *)
(***************************************************************************)
EXTENDS PersistentTurn, TLAPS

-----------------------------------------------------------------------------
(* Type correctness.  MaxIndex is a CHOOSE over the rows of the table; it  *)
(* is a number because the indices of a session are 1, 2, ... up to it,    *)
(* so both facts are proved together.                                      *)

Indices(s) == {r.index : r \in Rows(s)}

IndexRange == \A s \in Session : MaxIndex(s) \in Nat /\ Indices(s) = 1..MaxIndex(s)

LEMMA ReturnType ==
  ASSUME TypeOK, NEW p \in Server, NEW answer \in Reply, Return(p, answer)
  PROVE  /\ pc' \in [Server -> PC]
         /\ job' \in [Server -> Job \cup {NoJob}]
         /\ reply' \in [Server -> Reply]
         /\ \A q \in Server : (pc'[q] = "idle") <=> (job'[q] = NoJob)
  BY DEF TypeOK, Return, Goto, PC

(* A server that goes on to another statement has a job of the right type. *)
LEMMA GotoType ==
  ASSUME TypeOK, NEW p \in Server, NEW label \in PC \ {"idle"}, NEW j \in Job,
         Goto(p, label), job' = [job EXCEPT ![p] = j]
  PROVE  /\ pc' \in [Server -> PC]
         /\ job' \in [Server -> Job \cup {NoJob}]
         /\ \A q \in Server : (pc'[q] = "idle") <=> (job'[q] = NoJob)
  BY NoJobAssumption DEF TypeOK, Goto

LEMMA JobType ==
  ASSUME TypeOK, NEW p \in Server, pc[p] # "idle"
  PROVE  /\ job[p] \in Job
         /\ Card(p) \in CardRow
  BY DEF TypeOK, Job, Card

(* What a step leaves of the type invariant when it writes no table.       *)
LEMMA TablesType ==
  ASSUME TypeOK, UNCHANGED <<tables, runs, accepted>>
  PROVE  /\ cardStates' \in [Session -> CardRow]
         /\ patchReceipts' \subseteq Receipt
         /\ turnRecords' \subseteq Record
         /\ memory' \in [Layer -> SUBSET Turn]
         /\ runs' \in 0..MaxRuns
         /\ accepted' \subseteq Turn
  BY DEF TypeOK, tables

LEMMA StepType ==
  ASSUME TypeOK, IndexRange, NEW p \in Server, Step(p)
  PROVE  TypeOK'
<1>0. pc[p] # "idle"
  BY DEF Step, LoadFails, LoadState, InitializeLooks, InitializeInserts,
     BuildSnapshot, GenerationFails, WriteDraft, QualityRejects, Curate,
     ApplyRaises, DuplicateCheck, RevisionCheck, PatchWrite, TurnIndex,
     TurnCheck, TurnInsert, ActiveCommit, RagCommit, PersistTrace
<1>j. job[p] \in Job /\ Card(p) \in CardRow
  BY <1>0, JobType
<1>1. CASE \/ LoadFails(p) \/ GenerationFails(p) \/ QualityRejects(p)
           \/ ApplyRaises(p) \/ PersistTrace(p)
  <2>1. /\ \E answer \in Reply : Return(p, answer)
        /\ UNCHANGED <<tables, runs, accepted, cut>>
    BY <1>1 DEF LoadFails, GenerationFails, QualityRejects, ApplyRaises,
       PersistTrace, Reply
  <2>2. QED
    BY <2>1, ReturnType, TablesType DEF TypeOK
<1>2. CASE LoadState(p) \/ InitializeLooks(p)
  <2>1. CASE TakeCardState(p) /\ UNCHANGED <<tables, runs, accepted, cut>>
    <3> DEFINE j == [job[p] EXCEPT !.revision = Card(p).revision,
                                   !.applied = Card(p).applied]
    <3>1. j \in Job
      BY <1>j DEF Job, CardRow
    <3>2. job' = [job EXCEPT ![p] = j] /\ Goto(p, "snapshot")
      BY <2>1 DEF TakeCardState
    <3>3. reply' = reply
      BY <2>1 DEF TakeCardState
    <3>4. "snapshot" \in PC \ {"idle"}
      BY DEF PC
    <3> HIDE DEF j
    <3>5. QED
      BY <2>1, <3>1, <3>2, <3>3, <3>4, GotoType, TablesType DEF TypeOK
  <2>2. CASE /\ \E l \in {"initialize", "insert"} : Goto(p, l)
             /\ UNCHANGED <<job, reply, tables, runs, accepted, cut>>
    BY <2>2, <1>0, TablesType DEF Goto, TypeOK, PC
  <2>3. QED
    BY <1>2, <2>1, <2>2 DEF LoadState, InitializeLooks
<1>3. CASE InitializeInserts(p)
  <2>1. CASE /\ cardStates' = [cardStates EXCEPT ![job[p].session] =
                   [stored |-> TRUE, revision |-> 0, applied |-> {}]]
             /\ job' = [job EXCEPT ![p].revision = 0, ![p].applied = {}]
             /\ Goto(p, "snapshot")
             /\ UNCHANGED reply
             /\ UNCHANGED <<patchReceipts, turnRecords, memory, runs, accepted, cut>>
    <3> DEFINE j == [job[p] EXCEPT !.revision = 0, !.applied = {}]
    <3>1. j \in Job
      BY <1>j DEF Job
    <3>2. job' = [job EXCEPT ![p] = j]
      BY <2>1
    <3>3. cardStates' \in [Session -> CardRow]
      BY <2>1, <1>j DEF TypeOK, CardRow
    <3>4. "snapshot" \in PC \ {"idle"}
      BY DEF PC
    <3> HIDE DEF j
    <3>5. QED
      BY <2>1, <3>1, <3>2, <3>3, <3>4, GotoType DEF TypeOK
  <2>2. CASE Return(p, "exception") /\ UNCHANGED <<tables, runs, accepted, cut>>
    BY <2>2, ReturnType, TablesType DEF TypeOK, Reply
  <2>3. QED
    BY <1>3, <2>1, <2>2 DEF InitializeInserts, tables
<1>4. CASE BuildSnapshot(p)
  <2> DEFINE j == [job[p] EXCEPT !.snapshot = Card(p).revision]
  <2>1. j \in Job
    BY <1>j DEF Job, CardRow
  <2>2. job' = [job EXCEPT ![p] = j] /\ Goto(p, "generate")
    BY <1>4 DEF BuildSnapshot
  <2>3. "generate" \in PC \ {"idle"}
    BY DEF PC
  <2> HIDE DEF j
  <2>4. QED
    BY <1>4, <2>1, <2>2, <2>3, GotoType, TablesType DEF BuildSnapshot, TypeOK
<1>5. CASE WriteDraft(p)
  <2>1. PICK verdict \in BOOLEAN :
          /\ job' = [job EXCEPT ![p].accept = verdict]
          /\ accepted' = IF verdict THEN accepted \cup {job[p].turn}
                                    ELSE accepted
    BY <1>5 DEF WriteDraft
  <2> DEFINE j == [job[p] EXCEPT !.accept = verdict]
  <2>2. j \in Job /\ job[p].turn \in Turn
    BY <1>j DEF Job
  <2>3. job' = [job EXCEPT ![p] = j] /\ Goto(p, "gate")
    BY <1>5, <2>1 DEF WriteDraft
  <2>4. "gate" \in PC \ {"idle"}
    BY DEF PC
  <2>5. accepted' \subseteq Turn
    BY <2>1, <2>2 DEF TypeOK
  <2> HIDE DEF j
  <2>6. QED
    BY <1>5, <2>2, <2>3, <2>4, <2>5, GotoType DEF WriteDraft, TypeOK, tables
<1>6. CASE Curate(p)
  <2>1. PICK proposal \in Proposal :
          /\ job' = [job EXCEPT ![p].proposal = proposal,
                                ![p].result = job[p].revision]
          /\ Goto(p, IF proposal.change THEN "duplicate check" ELSE "turn index")
    BY <1>6 DEF Curate
  <2> DEFINE j == [job[p] EXCEPT !.proposal = proposal,
                                 !.result = job[p].revision]
             label == IF proposal.change THEN "duplicate check" ELSE "turn index"
  <2>2. j \in Job
    BY <1>j DEF Job
  <2>3. job' = [job EXCEPT ![p] = j] /\ Goto(p, label)
    BY <2>1
  <2>4. label \in PC \ {"idle"}
    BY DEF PC
  <2> HIDE DEF j, label
  <2>5. QED
    BY <1>6, <2>2, <2>3, <2>4, GotoType, TablesType DEF Curate, TypeOK
<1>7. CASE DuplicateCheck(p) \/ TurnCheck(p)
  <2>1. CASE /\ \E answer \in Reply : Return(p, answer)
             /\ UNCHANGED <<tables, runs, accepted, cut>>
    BY <2>1, ReturnType, TablesType DEF TypeOK
  <2>2. CASE /\ \E l \in {"revision check", "turn insert"} : Goto(p, l)
             /\ UNCHANGED <<job, reply, tables, runs, accepted, cut>>
    BY <2>2, <1>0, TablesType DEF Goto, TypeOK, PC
  <2>3. QED
    BY <1>7, <2>1, <2>2 DEF DuplicateCheck, TurnCheck, Reply
<1>8. CASE RevisionCheck(p)
  <2>1. CASE /\ \E answer \in Reply : Return(p, answer)
             /\ UNCHANGED <<tables, runs, accepted, cut>>
    BY <2>1, ReturnType, TablesType DEF TypeOK
  <2>2. CASE /\ job' = [job EXCEPT ![p].current = Card(p).revision]
             /\ Goto(p, "patch write")
             /\ UNCHANGED <<reply, tables, runs, accepted, cut>>
    <3> DEFINE j == [job[p] EXCEPT !.current = Card(p).revision]
    <3>1. j \in Job
      BY <1>j DEF Job, CardRow
    <3>2. job' = [job EXCEPT ![p] = j]
      BY <2>2
    <3>3. "patch write" \in PC \ {"idle"}
      BY DEF PC
    <3> HIDE DEF j
    <3>4. QED
      BY <2>2, <3>1, <3>2, <3>3, GotoType, TablesType DEF TypeOK
  <2>3. QED
    BY <1>8, <2>1, <2>2 DEF RevisionCheck, Reply
<1>9. CASE PatchWrite(p)
  <2> DEFINE new == job[p].current + 1
  <2>1. CASE WritePatch(p, new, job[p].applied \cup {job[p].turn}, new)
    <3> DEFINE j == [job[p] EXCEPT !.result = new]
    <3>1. /\ job[p].session \in Session /\ job[p].turn \in Turn
          /\ job[p].current \in Nat /\ new \in Nat
          /\ job[p].applied \subseteq Turn
      BY <1>j DEF Job
    <3>2. cardStates' \in [Session -> CardRow]
      BY <2>1, <3>1, ZenonT(40) DEF WritePatch, TypeOK, CardRow
    <3>3. patchReceipts' \subseteq Receipt
      <4>1. [turn |-> job[p].turn, session |-> job[p].session,
             from |-> job[p].current, to |-> job[p].current + 1] \in Receipt
        BY <3>1 DEF Receipt
      <4>2. QED
        BY <2>1, <4>1 DEF WritePatch, TypeOK
    <3>4. j \in Job
      BY <1>j, <3>1 DEF Job
    <3>5. job' = [job EXCEPT ![p] = j] /\ Goto(p, "turn index")
      BY <2>1 DEF WritePatch
    <3>6. "turn index" \in PC \ {"idle"}
      BY DEF PC
    <3> HIDE DEF j, new
    <3>7. QED
      BY <2>1, <3>2, <3>3, <3>4, <3>5, <3>6, GotoType DEF WritePatch, TypeOK
  <2>2. CASE Return(p, "internal error") /\ UNCHANGED <<tables, runs, accepted, cut>>
    BY <2>2, ReturnType, TablesType DEF TypeOK, Reply
  <2>3. QED
    BY <1>9, <2>1, <2>2 DEF PatchWrite
<1>10. CASE TurnIndex(p)
  <2> DEFINE j == [job[p] EXCEPT !.index = MaxIndex(job[p].session) + 1]
  <2>1. j \in Job
    BY <1>j DEF Job, IndexRange
  <2>2. job' = [job EXCEPT ![p] = j] /\ Goto(p, "turn check")
    BY <1>10 DEF TurnIndex
  <2>3. "turn check" \in PC \ {"idle"}
    BY DEF PC
  <2> HIDE DEF j
  <2>4. QED
    BY <1>10, <2>1, <2>2, <2>3, GotoType, TablesType DEF TurnIndex, TypeOK
<1>11. CASE TurnInsert(p)
  <2>1. CASE /\ turnRecords' = turnRecords \cup {NewRecord(p)}
             /\ Goto(p, "active commit")
             /\ UNCHANGED <<job, reply, cardStates, patchReceipts, memory, runs,
                            accepted, cut>>
    <3>1. NewRecord(p) \in Record
      BY <1>j DEF NewRecord, Record, Job
    <3>2. QED
      BY <2>1, <3>1, <1>0 DEF Goto, TypeOK, PC
  <2>2. CASE /\ Return(p, "turn failed")
             /\ cut' = cut \/ cut' = cut \cup {job[p].turn}
             /\ UNCHANGED <<tables, runs, accepted>>
    <3>1. cut' \subseteq Turn
      BY <2>2, <1>j DEF TypeOK, Job
    <3>2. QED
      BY <2>2, <3>1, ReturnType, TablesType DEF TypeOK, Reply
  <2>3. QED
    BY <1>11, <2>1, <2>2 DEF TurnInsert, tables
<1>12. CASE ActiveCommit(p) \/ RagCommit(p)
  <2>1. PICK layer \in Layer, label \in {"rag commit", "trace"} :
          Remember(p, layer, label)
    BY <1>12 DEF ActiveCommit, RagCommit, Layer
  <2>2. job[p].turn \in Turn
    BY <1>j DEF Job
  <2>3. memory' \in [Layer -> SUBSET Turn]
    <3>1. \/ memory' = memory
          \/ memory' = [memory EXCEPT ![layer] = @ \cup {job[p].turn}]
      BY <2>1 DEF Remember
    <3>2. QED
      BY <2>2, <3>1, ZenonT(40) DEF TypeOK
  <2>4. QED
    BY <2>1, <2>3, <1>0, ZenonT(40) DEF Remember, Goto, TypeOK, PC
<1>q. QED
  BY <1>1, <1>2, <1>3, <1>4, <1>5, <1>6, <1>7, <1>8, <1>9, <1>10, <1>11, <1>12
     DEF Step

-----------------------------------------------------------------------------
(* The inductive invariant of any number of servers.  TypeOK, the indices  *)
(* being dense and unique, and three facts about control that carry the    *)
(* properties: an index that was read is at most one past the largest, a   *)
(* server past the gate runs an accepted turn, and a server that commits   *)
(* memories runs a recorded turn.                                          *)

IndexUnique ==
  \A s \in Session : \A r, q \in Rows(s) : r.index = q.index => r = q

PendingIndex ==
  \A p \in Server, s \in Session :
    pc[p] \in {"turn check", "turn insert"} /\ job[p].session = s
      => job[p].index \in 1..(MaxIndex(s) + 1)

PastGate == {"duplicate check", "revision check", "patch write", "turn index",
             "turn check", "turn insert", "active commit", "rag commit", "trace"}

RunsAccepted ==
  \A p \in Server :
    (pc[p] = "gate" /\ job[p].accept) \/ pc[p] \in PastGate
      => job[p].turn \in accepted

RunsRecorded ==
  \A p \in Server :
    pc[p] \in {"active commit", "rag commit"} => job[p].turn \in Recorded

SafetyInv ==
  /\ TypeOK
  /\ IndexRange
  /\ IndexUnique
  /\ PendingIndex
  /\ TurnTakesEffectOnce
  /\ RunsAccepted
  /\ GateBeforeWrites
  /\ RunsRecorded
  /\ MemoryFollowsRecord

(* An action of a server, whichever it is.                                 *)
Act(p) ==
  \/ \E s \in Session, t \in Turn : Replay(p, s, t) \/ Begin(p, s, t)
  \/ Step(p)
  \/ Crash(p)

LEMMA NextActs == ASSUME Next PROVE \E p \in Server : Act(p)
  BY DEF Next, Act

(* The largest of a dense set of indices, and 0.                           *)
LEMMA MaxOfRange ==
  ASSUME NEW n \in Nat
  PROVE  Max((1..n) \cup {0}) = n
<1>1. n \in (1..n) \cup {0} /\ \A i \in (1..n) \cup {0} : n >= i
  OBVIOUS
<1>2. \A m \in (1..n) \cup {0} : m >= n => m = n
  OBVIOUS
<1>3. QED
  BY <1>1, <1>2 DEF Max

LEMMA MaxIndexSame ==
  ASSUME turnRecords' = turnRecords
  PROVE  \A s \in Session : /\ Rows(s)' = Rows(s)
                            /\ MaxIndex(s)' = MaxIndex(s)
                            /\ Indices(s)' = Indices(s)
  BY DEF Rows, MaxIndex, Indices

-----------------------------------------------------------------------------
(* What one action of server p can do to the state of the others, to the   *)
(* tables and to the control state of p.                                   *)

LEMMA Locality ==
  ASSUME TypeOK, NEW p \in Server, Act(p), NEW q \in Server \ {p}
  PROVE  pc'[q] = pc[q] /\ job'[q] = job[q]
  BY DEF Act, TypeOK, Step, LoadFails, LoadState, InitializeLooks,
     InitializeInserts, BuildSnapshot, GenerationFails, WriteDraft,
     QualityRejects, Curate, ApplyRaises, DuplicateCheck, RevisionCheck,
     PatchWrite, WritePatch, TurnIndex, TurnCheck, TurnInsert, ActiveCommit,
     RagCommit, Remember, PersistTrace, Replay, Begin, Crash, TakeCardState,
     Goto, Return

(* Only TurnInsert writes turn_records, and it adds the row of its job.    *)
LEMMA RecordsWritten ==
  ASSUME TypeOK, NEW p \in Server, Act(p)
  PROVE  \/ turnRecords' = turnRecords
         \/ /\ pc[p] = "turn insert"
            /\ job[p].turn \notin Recorded
            /\ ~\E r \in Rows(job[p].session) : r.index = job[p].index
            /\ turnRecords' = turnRecords \cup {NewRecord(p)}
            /\ pc'[p] = "active commit"
  BY DEF Act, TypeOK, tables, Step, LoadFails, LoadState, InitializeLooks,
     InitializeInserts, BuildSnapshot, GenerationFails, WriteDraft,
     QualityRejects, Curate, ApplyRaises, DuplicateCheck, RevisionCheck,
     PatchWrite, WritePatch, TurnIndex, TurnCheck, TurnInsert, ActiveCommit,
     RagCommit, Remember, PersistTrace, Replay, Begin, Crash, Goto

(* Only PatchWrite writes patch receipts, and it adds one for its job.     *)
LEMMA ReceiptsWritten ==
  ASSUME TypeOK, NEW p \in Server, Act(p)
  PROVE  \/ patchReceipts' = patchReceipts
         \/ /\ pc[p] = "patch write"
            /\ job[p].turn \notin Patched
            /\ patchReceipts' = patchReceipts \cup
                 {[turn |-> job[p].turn, session |-> job[p].session,
                   from |-> job[p].current, to |-> job[p].current + 1]}
  BY DEF Act, TypeOK, tables, Step, LoadFails, LoadState, InitializeLooks,
     InitializeInserts, BuildSnapshot, GenerationFails, WriteDraft,
     QualityRejects, Curate, ApplyRaises, DuplicateCheck, RevisionCheck,
     PatchWrite, WritePatch, TurnIndex, TurnCheck, TurnInsert, ActiveCommit,
     RagCommit, Remember, PersistTrace, Replay, Begin, Crash, Goto

(* Only the memory commits write memories, and they add the running turn.  *)
LEMMA MemoryWritten ==
  ASSUME TypeOK, NEW p \in Server, Act(p)
  PROVE  \/ memory' = memory
         \/ /\ pc[p] \in {"active commit", "rag commit"}
            /\ \E l \in Layer :
                 memory' = [memory EXCEPT ![l] = @ \cup {job[p].turn}]
  BY DEF Act, TypeOK, tables, Step, LoadFails, LoadState, InitializeLooks,
     InitializeInserts, BuildSnapshot, GenerationFails, WriteDraft,
     QualityRejects, Curate, ApplyRaises, DuplicateCheck, RevisionCheck,
     PatchWrite, WritePatch, TurnIndex, TurnCheck, TurnInsert, ActiveCommit,
     RagCommit, Remember, PersistTrace, Replay, Begin, Crash, Goto, Layer

LEMMA AcceptedGrows ==
  ASSUME TypeOK, NEW p \in Server, Act(p)
  PROVE  accepted \subseteq accepted'
  BY DEF Act, TypeOK, tables, Step, LoadFails, LoadState, InitializeLooks,
     InitializeInserts, BuildSnapshot, GenerationFails, WriteDraft,
     QualityRejects, Curate, ApplyRaises, DuplicateCheck, RevisionCheck,
     PatchWrite, WritePatch, TurnIndex, TurnCheck, TurnInsert, ActiveCommit,
     RagCommit, Remember, PersistTrace, Replay, Begin, Crash, Goto

(* How p enters or stays in the part of its program an invariant is about. *)
LEMMA IndexControl ==
  ASSUME TypeOK, NEW p \in Server, Act(p),
         pc'[p] \in {"turn check", "turn insert"}
  PROVE  /\ turnRecords' = turnRecords
         /\ job'[p].session = job[p].session
         /\ \/ job'[p].index = MaxIndex(job[p].session) + 1
            \/ pc[p] = "turn check" /\ job'[p].index = job[p].index
<1>1. CASE TurnIndex(p)
  <2>1. job[p] \in Job
    BY <1>1, JobType DEF TurnIndex
  <2>2. QED
    BY <1>1, <2>1 DEF TurnIndex, TypeOK, Job, tables
<1>2. CASE TurnCheck(p)
  BY <1>2 DEF TurnCheck, TypeOK, tables, Return, Goto
<1>3. CASE ~TurnIndex(p) /\ ~TurnCheck(p)
  BY <1>3
     DEF Act, TypeOK, tables, Step, LoadFails, LoadState, InitializeLooks,
     InitializeInserts, BuildSnapshot, GenerationFails, WriteDraft,
     QualityRejects, Curate, ApplyRaises, DuplicateCheck, RevisionCheck,
     PatchWrite, WritePatch, TurnInsert, ActiveCommit,
     RagCommit, Remember, PersistTrace, Replay, Begin, Crash, Goto, Return,
     TakeCardState
<1>4. QED
  BY <1>1, <1>2, <1>3

LEMMA GateControl ==
  ASSUME TypeOK, NEW p \in Server, Act(p)
  PROVE  /\ pc'[p] = "gate" /\ job'[p].accept => job'[p].turn \in accepted'
         /\ pc'[p] \in PastGate =>
              /\ (pc[p] = "gate" /\ job[p].accept) \/ pc[p] \in PastGate
              /\ job'[p].turn = job[p].turn
<1>1. CASE WriteDraft(p)
  <2>1. job[p] \in Job
    BY <1>1, JobType DEF WriteDraft
  <2>2. QED
    BY <1>1, <2>1 DEF WriteDraft, TypeOK, Job, Goto, PastGate
<1>2. CASE Curate(p)
  <2>1. pc[p] = "gate" /\ job[p].accept
    BY <1>2 DEF Curate
  <2>2. job'[p].turn = job[p].turn /\ pc'[p] # "gate"
    <3>1. job[p] \in Job
      BY <2>1, JobType
    <3>2. PICK proposal \in Proposal :
            /\ job' = [job EXCEPT ![p].proposal = proposal,
                                  ![p].result = job[p].revision]
            /\ Goto(p, IF proposal.change THEN "duplicate check"
                                          ELSE "turn index")
      BY <1>2 DEF Curate
    <3>3. job'[p].turn = job[p].turn
      BY <3>1, <3>2 DEF TypeOK, Job
    <3>4. QED
      BY <3>2, <3>3 DEF TypeOK, Goto
  <2>3. QED
    BY <2>1, <2>2
<1>3. CASE ~WriteDraft(p) /\ ~Curate(p) /\ pc[p] # "idle"
  <2>1. job[p] \in Job
    BY <1>3, JobType
  <2>2. pc'[p] # "gate"
    BY <1>3
       DEF Act, TypeOK, Step, LoadFails, LoadState, InitializeLooks,
       InitializeInserts, BuildSnapshot, GenerationFails,
       QualityRejects, ApplyRaises, DuplicateCheck, RevisionCheck,
       PatchWrite, WritePatch, TurnIndex, TurnCheck, TurnInsert, ActiveCommit,
       RagCommit, Remember, PersistTrace, Replay, Begin, Crash, Goto, Return,
       TakeCardState
  <2>3. ASSUME pc'[p] \in PastGate
        PROVE  pc[p] \in PastGate /\ job'[p].turn = job[p].turn
    <3>1. CASE RevisionCheck(p)
      <4>1. job' = [job EXCEPT ![p].current = Card(p).revision]
        BY <2>3, <3>1 DEF RevisionCheck, Return, Goto, TypeOK, PastGate
      <4>2. QED
        BY <2>1, <3>1, <4>1 DEF RevisionCheck, TypeOK, Job, PastGate
    <3>2. CASE PatchWrite(p)
      <4>1. job' = [job EXCEPT ![p].result = job[p].current + 1]
        BY <2>3, <3>2 DEF PatchWrite, WritePatch, Return, Goto, TypeOK, PastGate
      <4>2. QED
        BY <2>1, <3>2, <4>1 DEF PatchWrite, TypeOK, Job, PastGate
    <3>3. CASE TurnIndex(p)
      BY <2>1, <2>3, <3>3 DEF TurnIndex, TypeOK, Job, PastGate
    <3>4. CASE ~RevisionCheck(p) /\ ~PatchWrite(p) /\ ~TurnIndex(p)
      BY <1>3, <2>3, <3>4
         DEF Act, TypeOK, Step, LoadFails, LoadState, InitializeLooks,
         InitializeInserts, BuildSnapshot, GenerationFails,
         QualityRejects, ApplyRaises, DuplicateCheck,
         TurnCheck, TurnInsert, ActiveCommit, RagCommit, Remember,
         PersistTrace, Replay, Begin, Crash, Goto, Return, TakeCardState,
         PastGate
    <3>5. QED
      BY <3>1, <3>2, <3>3, <3>4
  <2>4. QED
    BY <2>2, <2>3
<1>4. CASE pc[p] = "idle"
  BY <1>4, ZenonT(40)
     DEF Act, TypeOK, Step, LoadFails, LoadState, InitializeLooks,
     InitializeInserts, BuildSnapshot, GenerationFails, WriteDraft,
     QualityRejects, Curate, ApplyRaises, DuplicateCheck, RevisionCheck,
     PatchWrite, WritePatch, TurnIndex, TurnCheck, TurnInsert, ActiveCommit,
     RagCommit, Remember, PersistTrace, Replay, Begin, Crash, Goto, Return,
     PastGate
<1>5. QED
  BY <1>1, <1>2, <1>3, <1>4

LEMMA MemoryControl ==
  ASSUME TypeOK, NEW p \in Server, Act(p),
         pc'[p] \in {"active commit", "rag commit"}
  PROVE  /\ job'[p] = job[p]
         /\ \/ pc[p] = "active commit" /\ turnRecords' = turnRecords
            \/ turnRecords' = turnRecords \cup {NewRecord(p)}
  BY DEF Act, TypeOK, tables, Step, LoadFails, LoadState, InitializeLooks,
     InitializeInserts, BuildSnapshot, GenerationFails, WriteDraft,
     QualityRejects, Curate, ApplyRaises, DuplicateCheck, RevisionCheck,
     PatchWrite, WritePatch, TurnIndex, TurnCheck, TurnInsert, ActiveCommit,
     RagCommit, Remember, PersistTrace, Replay, Begin, Crash, Goto, Return,
     TakeCardState

-----------------------------------------------------------------------------
(* Each conjunct of the invariant is preserved.                            *)

LEMMA ActType ==
  ASSUME TypeOK, IndexRange, NEW p \in Server, Act(p)
  PROVE  TypeOK'
<1>1. CASE Step(p)
  BY <1>1, StepType
<1>2. CASE Crash(p)
  <2>1. cut' \subseteq Turn
    <3>1. job[p] \in Job
      BY <1>2, JobType DEF Crash
    <3>2. QED
      BY <1>2, <3>1 DEF Crash, TypeOK, Job
  <2>2. QED
    BY <1>2, <2>1, ReturnType, TablesType DEF Crash, TypeOK, Reply
<1>3. CASE \E s \in Session, t \in Turn : Replay(p, s, t)
  <2>1. /\ \E answer \in Reply : Return(p, answer)
        /\ UNCHANGED <<tables, runs, accepted, cut>>
    BY <1>3 DEF Replay, Reply
  <2>2. QED
    BY <2>1, ReturnType, TablesType DEF TypeOK
<1>4. CASE \E s \in Session, t \in Turn : Begin(p, s, t)
  <2>1. PICK s \in Session, t \in Turn : Begin(p, s, t)
    BY <1>4
  <2> DEFINE j == [session |-> s, turn |-> t, revision |-> 0, applied |-> {},
                   snapshot |-> 0, accept |-> FALSE, proposal |-> NoProposal,
                   current |-> 0, result |-> 0, index |-> 0]
  <2>2. j \in Job
    BY DEF Job, NoProposal, Proposal
  <2>3. job' = [job EXCEPT ![p] = j] /\ Goto(p, "load")
    BY <2>1 DEF Begin
  <2>4. "load" \in PC \ {"idle"} /\ "none" \in Reply
    BY DEF PC, Reply
  <2>5. runs' \in 0..MaxRuns
    BY <2>1, MaxRunsAssumption DEF Begin, TypeOK
  <2> HIDE DEF j
  <2>6. QED
    BY <2>1, <2>2, <2>3, <2>4, <2>5, GotoType DEF Begin, TypeOK, tables
<1>5. QED
  BY <1>1, <1>2, <1>3, <1>4 DEF Act

LEMMA IndexStep ==
  ASSUME TypeOK, IndexRange, IndexUnique, PendingIndex, NEW p \in Server, Act(p)
  PROVE  /\ IndexRange' /\ IndexUnique' /\ PendingIndex'
<1>1. CASE turnRecords' = turnRecords
  <2>1. IndexRange' /\ IndexUnique'
    BY <1>1, MaxIndexSame DEF IndexRange, IndexUnique
  <2>2. ASSUME NEW q \in Server, NEW s \in Session, job'[q].session = s,
               pc'[q] \in {"turn check", "turn insert"}
        PROVE  job'[q].index \in 1..(MaxIndex(s)' + 1)
    <3>1. MaxIndex(s)' = MaxIndex(s) /\ MaxIndex(s) \in Nat
      BY <1>1, MaxIndexSame DEF IndexRange
    <3>2. CASE q # p
      BY <2>2, <3>1, <3>2, Locality DEF PendingIndex
    <3>3. CASE q = p
      <4>1. /\ job[p].session = s
            /\ \/ job'[p].index = MaxIndex(job[p].session) + 1
               \/ pc[p] = "turn check" /\ job'[p].index = job[p].index
        BY <2>2, <3>3, IndexControl
      <4>2. CASE job'[p].index = MaxIndex(job[p].session) + 1
        <5>1. job'[p].index = MaxIndex(s) + 1
          BY <4>1, <4>2
        <5>2. QED
          BY <3>1, <3>3, <5>1
      <4>3. CASE pc[p] = "turn check" /\ job'[p].index = job[p].index
        <5>1. job[p].index \in 1..(MaxIndex(s) + 1)
          BY <4>1, <4>3 DEF PendingIndex
        <5>2. QED
          BY <3>1, <3>3, <4>3, <5>1
      <4>4. QED
        BY <4>1, <4>2, <4>3
    <3>4. QED
      BY <3>2, <3>3
  <2>3. QED
    BY <2>1, <2>2 DEF PendingIndex
<1>2. CASE /\ pc[p] = "turn insert"
           /\ ~\E r \in Rows(job[p].session) : r.index = job[p].index
           /\ turnRecords' = turnRecords \cup {NewRecord(p)}
           /\ pc'[p] = "active commit"
  <2>1. PICK s \in Session : s = job[p].session
    BY <1>2, JobType DEF Job
  <2> DEFINE n == MaxIndex(s)
  <2>2. n \in Nat /\ Indices(s) = 1..n
    BY DEF IndexRange
  <2>3. job[p].index = n + 1
    <3>1. job[p].index \in 1..(n + 1)
      BY <1>2, <2>1 DEF PendingIndex
    <3>2. job[p].index \notin Indices(s)
      BY <1>2, <2>1 DEF Indices
    <3>3. QED
      BY <2>2, <3>1, <3>2
  <2>4. NewRecord(p).session = s /\ NewRecord(p).index = n + 1
    BY <2>1, <2>3 DEF NewRecord
  <2>5. /\ Rows(s)' = Rows(s) \cup {NewRecord(p)}
        /\ \A t \in Session \ {s} : Rows(t)' = Rows(t)
    BY <1>2, <2>4 DEF Rows
  <2>6. MaxIndex(s)' = n + 1 /\ Indices(s)' = 1..(n + 1)
    <3>1. Indices(s)' = Indices(s) \cup {n + 1}
      BY <2>4, <2>5 DEF Indices
    <3>2. Indices(s)' = 1..(n + 1)
      BY <2>2, <3>1
    <3>3. QED
      <4>1. MaxIndex(s)' = Max(Indices(s)' \cup {0})
        BY DEF MaxIndex, Indices
      <4>2. n + 1 \in Nat
        BY <2>2
      <4> HIDE DEF n
      <4>3. Max((1..(n + 1)) \cup {0}) = n + 1
        BY <4>2, MaxOfRange
      <4>4. QED
        BY <3>2, <4>1, <4>3
  <2>7. ASSUME NEW t \in Session \ {s}
        PROVE  MaxIndex(t)' = MaxIndex(t) /\ Indices(t)' = Indices(t)
    <3>1. Indices(t)' = Indices(t)
      BY <2>5 DEF Indices
    <3>2. QED
      BY <3>1 DEF MaxIndex, Indices
  <2>8. IndexRange'
    BY <2>2, <2>6, <2>7 DEF IndexRange
  <2>9. IndexUnique'
    <3>1. \A r \in Rows(s) : r.index # n + 1
      BY <1>2, <2>1, <2>3
    <3>2. QED
      BY <2>4, <2>5, <3>1 DEF IndexUnique
  <2>10. PendingIndex'
    <3>1. ASSUME NEW q \in Server, NEW t \in Session, job'[q].session = t,
                 pc'[q] \in {"turn check", "turn insert"}
          PROVE  job'[q].index \in 1..(MaxIndex(t)' + 1)
      <4>1. q # p
        BY <1>2, <3>1
      <4>2. job[q].index \in 1..(MaxIndex(t) + 1) /\ job'[q] = job[q]
        BY <3>1, <4>1, Locality DEF PendingIndex
      <4>3. MaxIndex(t)' \in {MaxIndex(t), MaxIndex(t) + 1}
        BY <2>6, <2>7
      <4>4. MaxIndex(t) \in Nat
        BY DEF IndexRange
      <4>5. QED
        BY <4>2, <4>3, <4>4
    <3>2. QED
      BY <3>1 DEF PendingIndex
  <2>11. QED
    BY <2>8, <2>9, <2>10
<1>3. QED
  BY <1>1, <1>2, RecordsWritten

(* The turns of the two tables after an action.                            *)
LEMMA RecordedAfter ==
  ASSUME TypeOK, NEW p \in Server, Act(p)
  PROVE  \/ turnRecords' = turnRecords /\ Recorded' = Recorded
         \/ /\ pc[p] = "turn insert"
            /\ turnRecords' = turnRecords \cup {NewRecord(p)}
            /\ Recorded' = Recorded \cup {job[p].turn}
<1>1. CASE turnRecords' = turnRecords
  BY <1>1 DEF Recorded
<1>2. CASE pc[p] = "turn insert" /\ turnRecords' = turnRecords \cup {NewRecord(p)}
  <2>1. NewRecord(p).turn = job[p].turn
    BY DEF NewRecord
  <2>2. QED
    BY <1>2, <2>1 DEF Recorded
<1>3. QED
  BY <1>1, <1>2, RecordsWritten

LEMMA PatchedAfter ==
  ASSUME TypeOK, NEW p \in Server, Act(p)
  PROVE  \/ Patched' = Patched
         \/ pc[p] = "patch write" /\ Patched' = Patched \cup {job[p].turn}
<1>1. CASE patchReceipts' = patchReceipts
  BY <1>1 DEF Patched
<1>2. CASE ~(patchReceipts' = patchReceipts)
  <2> DEFINE new == [turn |-> job[p].turn, session |-> job[p].session,
                     from |-> job[p].current, to |-> job[p].current + 1]
  <2>1. /\ pc[p] = "patch write"
        /\ patchReceipts' = patchReceipts \cup {new}
        /\ new.turn = job[p].turn
    BY <1>2, ReceiptsWritten
  <2> HIDE DEF new
  <2>2. QED
    BY <2>1 DEF Patched
<1>3. QED
  BY <1>1, <1>2

LEMMA OnceStep ==
  ASSUME TypeOK, TurnTakesEffectOnce, NEW p \in Server, Act(p)
  PROVE  TurnTakesEffectOnce'
<1>1. \A r, q \in turnRecords' : r.turn = q.turn => r = q
  <2>1. CASE turnRecords' = turnRecords
    BY <2>1 DEF TurnTakesEffectOnce
  <2>2. CASE /\ job[p].turn \notin Recorded
             /\ turnRecords' = turnRecords \cup {NewRecord(p)}
    <3>1. NewRecord(p).turn = job[p].turn
      BY DEF NewRecord
    <3>2. \A r \in turnRecords : r.turn # NewRecord(p).turn
      BY <2>2, <3>1 DEF Recorded
    <3>3. QED
      BY <2>2, <3>2 DEF TurnTakesEffectOnce
  <2>3. QED
    BY <2>1, <2>2, RecordsWritten
<1>2. \A r, q \in patchReceipts' : r.turn = q.turn => r = q
  <2>1. CASE patchReceipts' = patchReceipts
    BY <2>1 DEF TurnTakesEffectOnce
  <2>2. CASE ~(patchReceipts' = patchReceipts)
    <3> DEFINE new == [turn |-> job[p].turn, session |-> job[p].session,
                       from |-> job[p].current, to |-> job[p].current + 1]
    <3>1. /\ job[p].turn \notin Patched
          /\ patchReceipts' = patchReceipts \cup {new}
          /\ new.turn = job[p].turn
      BY <2>2, ReceiptsWritten
    <3> HIDE DEF new
    <3>2. \A r \in patchReceipts : r.turn # new.turn
      BY <3>1 DEF Patched
    <3>3. QED
      BY <3>1, <3>2 DEF TurnTakesEffectOnce
  <2>3. QED
    BY <2>1, <2>2
<1>3. QED
  BY <1>1, <1>2 DEF TurnTakesEffectOnce

LEMMA GateStep ==
  ASSUME TypeOK, RunsAccepted, GateBeforeWrites, NEW p \in Server, Act(p)
  PROVE  RunsAccepted' /\ GateBeforeWrites'
<1>1. accepted \subseteq accepted'
  BY AcceptedGrows
<1>2. RunsAccepted'
  <2>1. ASSUME NEW q \in Server,
               (pc'[q] = "gate" /\ job'[q].accept) \/ pc'[q] \in PastGate
        PROVE  job'[q].turn \in accepted'
    <3>1. CASE q # p
      BY <1>1, <2>1, <3>1, Locality DEF RunsAccepted
    <3>2. CASE q = p
      BY <1>1, <2>1, <3>2, GateControl DEF RunsAccepted
    <3>3. QED
      BY <3>1, <3>2
  <2>2. QED
    BY <2>1 DEF RunsAccepted
<1>3. \A l \in {"patch write", "turn insert", "active commit", "rag commit"} :
        pc[p] = l => job[p].turn \in accepted
  BY DEF RunsAccepted, PastGate
<1>4. Patched' \subseteq accepted'
  BY <1>1, <1>3, PatchedAfter DEF GateBeforeWrites
<1>5. Recorded' \subseteq accepted'
  BY <1>1, <1>3, RecordedAfter DEF GateBeforeWrites
<1>6. \A l \in Layer : memory'[l] \subseteq accepted'
  <2>1. CASE memory' = memory
    BY <1>1, <2>1 DEF GateBeforeWrites, Layer
  <2>2. CASE ~(memory' = memory)
    <3>1. PICK l \in Layer : memory' = [memory EXCEPT ![l] = @ \cup {job[p].turn}]
      BY <2>2, MemoryWritten
    <3>2. job[p].turn \in accepted
      BY <1>3, <2>2, MemoryWritten
    <3>3. \A k \in Layer : memory[k] \subseteq accepted
      BY DEF GateBeforeWrites, Layer
    <3>4. QED
      BY <1>1, <3>1, <3>2, <3>3 DEF TypeOK
  <2>3. QED
    BY <2>1, <2>2
<1>7. QED
  BY <1>2, <1>4, <1>5, <1>6 DEF GateBeforeWrites, Layer

LEMMA MemoryStep ==
  ASSUME TypeOK, RunsRecorded, MemoryFollowsRecord, NEW p \in Server, Act(p)
  PROVE  RunsRecorded' /\ MemoryFollowsRecord'
<1>1. Recorded \subseteq Recorded'
  BY RecordedAfter
<1>2. RunsRecorded'
  <2>1. ASSUME NEW q \in Server, pc'[q] \in {"active commit", "rag commit"}
        PROVE  job'[q].turn \in Recorded'
    <3>1. CASE q # p
      BY <1>1, <2>1, <3>1, Locality DEF RunsRecorded
    <3>2. CASE q = p
      <4>1. /\ job'[p] = job[p]
            /\ \/ pc[p] = "active commit" /\ turnRecords' = turnRecords
               \/ turnRecords' = turnRecords \cup {NewRecord(p)}
        BY <2>1, <3>2, MemoryControl
      <4>2. CASE pc[p] = "active commit"
        BY <1>1, <3>2, <4>1, <4>2 DEF RunsRecorded
      <4>3. CASE turnRecords' = turnRecords \cup {NewRecord(p)}
        <5>1. NewRecord(p).turn = job[p].turn
          BY DEF NewRecord
        <5>2. QED
          BY <3>2, <4>1, <4>3, <5>1 DEF Recorded
      <4>4. QED
        BY <4>1, <4>2, <4>3
    <3>3. QED
      BY <3>1, <3>2
  <2>2. QED
    BY <2>1 DEF RunsRecorded
<1>3. \A l \in Layer : memory'[l] \subseteq Recorded'
  <2>1. CASE memory' = memory
    BY <1>1, <2>1 DEF MemoryFollowsRecord, Layer
  <2>2. CASE ~(memory' = memory)
    <3>1. PICK l \in Layer : memory' = [memory EXCEPT ![l] = @ \cup {job[p].turn}]
      BY <2>2, MemoryWritten
    <3>2. job[p].turn \in Recorded
      BY <2>2, MemoryWritten DEF RunsRecorded
    <3>3. \A k \in Layer : memory[k] \subseteq Recorded
      BY DEF MemoryFollowsRecord, Layer
    <3>4. QED
      BY <1>1, <3>1, <3>2, <3>3 DEF TypeOK
  <2>3. QED
    BY <2>1, <2>2
<1>4. QED
  BY <1>2, <1>3 DEF MemoryFollowsRecord, Layer

-----------------------------------------------------------------------------
(* SafetyInv is inductive.                                                 *)

LEMMA SafetyInit == Init => SafetyInv
<1> SUFFICES ASSUME Init PROVE SafetyInv
  OBVIOUS
<1>1. TypeOK
  BY MaxRunsAssumption DEF Init, TypeOK, CardRow, PC, Reply, Layer
<1>2. IndexRange
  <2>1. \A s \in Session : Rows(s) = {}
    BY DEF Init, Rows
  <2>2. \A s \in Session : Indices(s) = {}
    BY <2>1 DEF Indices
  <2>3. Max((1..0) \cup {0}) = 0 /\ 1..0 = {}
    BY MaxOfRange
  <2>4. \A s \in Session : MaxIndex(s) = 0
    BY <2>2, <2>3 DEF MaxIndex, Indices
  <2>5. QED
    BY <2>2, <2>3, <2>4, SMTT(30) DEF IndexRange
<1>3. IndexUnique /\ TurnTakesEffectOnce
  BY DEF Init, IndexUnique, TurnTakesEffectOnce, Rows
<1>4. PendingIndex /\ RunsAccepted /\ RunsRecorded
  BY DEF Init, PendingIndex, RunsAccepted, RunsRecorded, PastGate
<1>5. GateBeforeWrites /\ MemoryFollowsRecord
  BY DEF Init, GateBeforeWrites, MemoryFollowsRecord, Patched, Recorded, Layer
<1>6. QED
  BY <1>1, <1>2, <1>3, <1>4, <1>5 DEF SafetyInv

LEMMA SafetyNext == SafetyInv /\ [Next]_vars => SafetyInv'
<1> SUFFICES ASSUME SafetyInv, [Next]_vars PROVE SafetyInv'
  OBVIOUS
<1>1. CASE Next
  <2>1. PICK p \in Server : Act(p)
    BY <1>1, NextActs
  <2>2. TypeOK'
    BY <2>1, ActType DEF SafetyInv
  <2>3. IndexRange' /\ IndexUnique' /\ PendingIndex'
    BY <2>1, IndexStep DEF SafetyInv
  <2>4. TurnTakesEffectOnce'
    BY <2>1, OnceStep DEF SafetyInv
  <2>5. RunsAccepted' /\ GateBeforeWrites'
    BY <2>1, GateStep DEF SafetyInv
  <2>6. RunsRecorded' /\ MemoryFollowsRecord'
    BY <2>1, MemoryStep DEF SafetyInv
  <2>7. QED
    BY <2>2, <2>3, <2>4, <2>5, <2>6 DEF SafetyInv
<1>2. CASE UNCHANGED vars
  BY <1>2 DEF vars, tables, SafetyInv, TypeOK, IndexRange, IndexUnique,
     PendingIndex, TurnTakesEffectOnce, RunsAccepted, GateBeforeWrites,
     RunsRecorded, MemoryFollowsRecord, Indices, MaxIndex, Rows, Recorded,
     Patched
<1>3. QED
  BY <1>1, <1>2

LEMMA SafetyInvariant == Spec => []SafetyInv
  BY SafetyInit, SafetyNext, PTL DEF Spec

-----------------------------------------------------------------------------
(* Type correctness: every row, local variable and answer of the engine    *)
(* keeps its type, and a server has local variables exactly while it runs. *)
THEOREM TypeCorrect == Spec => []TypeOK
<1>1. SafetyInv => TypeOK
  BY DEF SafetyInv
<1>2. QED
  BY <1>1, SafetyInvariant, PTL

(* get_next_turn_index and save, which run in two statements, number the   *)
(* turns of every session 1, 2, ... without gap or repetition, for any     *)
(* number of servers, crashes and failing writes.                          *)
THEOREM IndicesAreDense == Spec => []IndexDense
<1>1. SafetyInv => IndexDense
  BY DEF SafetyInv, IndexDense, IndexRange, IndexUnique, Indices
<1>2. QED
  BY <1>1, SafetyInvariant, PTL

(* However often and wherever a turn id is executed, one patch receipt and *)
(* one turn record at most carry it.                                       *)
THEOREM EffectsAtMostOnce == Spec => []TurnTakesEffectOnce
<1>1. SafetyInv => TurnTakesEffectOnce
  BY DEF SafetyInv
<1>2. QED
  BY <1>1, SafetyInvariant, PTL

(* Nothing is written for a turn no execution of which passed the gate.    *)
THEOREM NoWriteBeforeGate == Spec => []GateBeforeWrites
<1>1. SafetyInv => GateBeforeWrites
  BY DEF SafetyInv
<1>2. QED
  BY <1>1, SafetyInvariant, PTL

(* Both memory layers hold memories of recorded turns only.                *)
THEOREM MemoryOfRecordedTurns == Spec => []MemoryFollowsRecord
<1>1. SafetyInv => MemoryFollowsRecord
  BY DEF SafetyInv
<1>2. QED
  BY <1>1, SafetyInvariant, PTL

=============================================================================
