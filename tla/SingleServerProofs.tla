------------------------- MODULE SingleServerProofs -------------------------
(***************************************************************************)
(* Theorems about PersistentTurn when one server uses the database: what   *)
(* the revision check and the order of the two commits are for.  They hold *)
(* with crashes and failing writes, for any sessions and turns.  The last  *)
(* one shares their lemmas and holds for any number of servers.            *)
(***************************************************************************)
EXTENDS PersistentTurnProofs

SingleServer == \A p, q \in Server : p = q

-----------------------------------------------------------------------------
(* The inductive invariant.  While the turn is generated and until its     *)
(* patch is written, the server holds the stored card state; afterwards    *)
(* the stored state is the one it announces as its result.                 *)

HoldsState == {"snapshot", "generate", "gate", "duplicate check",
               "revision check", "patch write"}

HoldsResult == {"turn index", "turn check", "turn insert"}

Loaded ==
  \A p \in Server :
    pc[p] \in HoldsState
      => /\ Card(p).stored
         /\ job[p].revision = Card(p).revision
         /\ job[p].applied = Card(p).applied
         /\ pc[p] = "patch write" => job[p].current = job[p].revision

ResultStored ==
  \A p \in Server :
    pc[p] \in HoldsResult
      => /\ job[p].result = Card(p).revision
         /\ job[p].revision <= job[p].result
         /\ job[p].result <= job[p].revision + 1
         /\ \A r \in turnRecords :
              r.session = job[p].session => r.result <= job[p].revision

Unstored ==
  \A s \in Session :
    ~cardStates[s].stored =>
      cardStates[s].revision = 0 /\ cardStates[s].applied = {}

SingleInv ==
  /\ SafetyInv
  /\ Unstored
  /\ Loaded
  /\ ResultStored
  /\ StateIsPatchFold
  /\ RevisionChain
  /\ RecordsInRevisionOrder

-----------------------------------------------------------------------------
(* How p comes to hold a card state: it reads the row, it inserts it, or   *)
(* it held it before and has written nothing since.                        *)

ReadsState(p) ==
  /\ UNCHANGED tables
  /\ Card(p).stored
  /\ job'[p].revision = Card(p).revision
  /\ job'[p].applied = Card(p).applied
  /\ pc'[p] = "snapshot"

InsertsState(p) ==
  /\ pc[p] = "insert"
  /\ cardStates' = [cardStates EXCEPT ![job[p].session] =
                      [stored |-> TRUE, revision |-> 0, applied |-> {}]]
  /\ job'[p].revision = 0
  /\ job'[p].applied = {}
  /\ pc'[p] = "snapshot"

KeepsState(p) ==
  /\ pc[p] \in HoldsState
  /\ UNCHANGED tables
  /\ job'[p].revision = job[p].revision
  /\ job'[p].applied = job[p].applied
  /\ pc'[p] = "patch write" => job'[p].current = Card(p).revision

LEMMA ActBusy ==
  ASSUME TypeOK, NEW p \in Server, Act(p), pc'[p] \notin {"idle", "load"}
  PROVE  pc[p] # "idle" /\ job[p] \in Job /\ Card(p) \in CardRow /\ Step(p)
<1>1. Step(p)
  BY DEF Act, Replay, Begin, Crash, Return, Goto, TypeOK
<1>2. pc[p] # "idle"
  BY <1>1 DEF Step, LoadFails, LoadState, InitializeLooks, InitializeInserts,
     BuildSnapshot, GenerationFails, WriteDraft, QualityRejects, Curate,
     ApplyRaises, DuplicateCheck, RevisionCheck, PatchWrite, TurnIndex,
     TurnCheck, TurnInsert, ActiveCommit, RagCommit, PersistTrace
<1>3. QED
  BY <1>1, <1>2, JobType

LEMMA HoldsControl ==
  ASSUME TypeOK, NEW p \in Server, Act(p), pc'[p] \in HoldsState
  PROVE  /\ job[p] \in Job
         /\ job'[p].session = job[p].session
         /\ ReadsState(p) \/ InsertsState(p) \/ KeepsState(p)
<1>1. job[p] \in Job /\ Card(p) \in CardRow /\ Step(p)
  BY ActBusy DEF HoldsState
<1>2. CASE LoadState(p) \/ InitializeLooks(p)
  <2>1. Card(p).stored /\ TakeCardState(p)
    BY <1>2 DEF LoadState, InitializeLooks, Goto, TypeOK, HoldsState
  <2>2. job' = [job EXCEPT ![p].revision = Card(p).revision,
                           ![p].applied = Card(p).applied]
    BY <2>1 DEF TakeCardState
  <2>3. /\ job'[p].revision = Card(p).revision
        /\ job'[p].applied = Card(p).applied
        /\ job'[p].session = job[p].session
    BY <1>1, <2>2 DEF TypeOK, Job
  <2>4. QED
    BY <1>1, <1>2, <2>1, <2>3 DEF ReadsState, LoadState, InitializeLooks,
       TakeCardState, Goto, TypeOK
<1>3. CASE InitializeInserts(p)
  <2>1. /\ cardStates' = [cardStates EXCEPT ![job[p].session] =
                            [stored |-> TRUE, revision |-> 0, applied |-> {}]]
        /\ job' = [job EXCEPT ![p].revision = 0, ![p].applied = {}]
        /\ Goto(p, "snapshot")
    BY <1>3 DEF InitializeInserts, Return, Goto, TypeOK, HoldsState
  <2>2. /\ job'[p].revision = 0
        /\ job'[p].applied = {}
        /\ job'[p].session = job[p].session
    BY <1>1, <2>1 DEF TypeOK, Job
  <2>3. QED
    BY <1>1, <1>3, <2>1, <2>2 DEF InsertsState, InitializeInserts, Goto, TypeOK
<1>4. CASE BuildSnapshot(p)
  <2>1. job' = [job EXCEPT ![p].snapshot = Card(p).revision]
    BY <1>4 DEF BuildSnapshot
  <2>2. /\ job'[p].revision = job[p].revision
        /\ job'[p].applied = job[p].applied
        /\ job'[p].session = job[p].session
    BY <1>1, <2>1 DEF TypeOK, Job
  <2>3. QED
    BY <1>1, <1>4, <2>2 DEF KeepsState, BuildSnapshot, Goto, TypeOK, HoldsState
<1>5. CASE WriteDraft(p)
  <2>1. PICK verdict \in BOOLEAN : job' = [job EXCEPT ![p].accept = verdict]
    BY <1>5 DEF WriteDraft
  <2>2. /\ job'[p].revision = job[p].revision
        /\ job'[p].applied = job[p].applied
        /\ job'[p].session = job[p].session
    BY <1>1, <2>1 DEF TypeOK, Job
  <2>3. QED
    BY <1>1, <1>5, <2>2 DEF KeepsState, WriteDraft, Goto, TypeOK, HoldsState
<1>6. CASE Curate(p)
  <2>1. PICK proposal \in Proposal :
          /\ job' = [job EXCEPT ![p].proposal = proposal,
                                ![p].result = job[p].revision]
          /\ Goto(p, IF proposal.change THEN "duplicate check" ELSE "turn index")
    BY <1>6 DEF Curate
  <2>2. /\ job'[p].revision = job[p].revision
        /\ job'[p].applied = job[p].applied
        /\ job'[p].session = job[p].session
    BY <1>1, <2>1 DEF TypeOK, Job
  <2>3. pc[p] = "gate" /\ pc'[p] # "patch write" /\ UNCHANGED tables
    BY <1>6, <2>1 DEF Curate, Goto, TypeOK
  <2>4. QED
    BY <1>1, <2>2, <2>3 DEF KeepsState, HoldsState
<1>7. CASE DuplicateCheck(p)
  BY <1>1, <1>7 DEF KeepsState, DuplicateCheck, Return, Goto, TypeOK, HoldsState
<1>8. CASE RevisionCheck(p)
  <2>1. job' = [job EXCEPT ![p].current = Card(p).revision]
    BY <1>8 DEF RevisionCheck, Return, Goto, TypeOK, HoldsState
  <2>2. /\ job'[p].revision = job[p].revision
        /\ job'[p].applied = job[p].applied
        /\ job'[p].session = job[p].session
        /\ job'[p].current = Card(p).revision
    BY <1>1, <2>1 DEF TypeOK, Job
  <2>3. QED
    BY <1>1, <1>8, <2>2 DEF KeepsState, RevisionCheck, HoldsState
<1>9. ASSUME ~LoadState(p), ~InitializeLooks(p), ~InitializeInserts(p),
             ~BuildSnapshot(p), ~WriteDraft(p), ~Curate(p), ~DuplicateCheck(p),
             ~RevisionCheck(p)
      PROVE  FALSE
  BY <1>1, <1>9 DEF Step, LoadFails, GenerationFails, QualityRejects,
     ApplyRaises, PatchWrite, WritePatch, TurnIndex, TurnCheck, TurnInsert,
     ActiveCommit, RagCommit, Remember, PersistTrace, Return, Goto, TypeOK,
     HoldsState
<1>10. QED
  BY <1>2, <1>3, <1>4, <1>5, <1>6, <1>7, <1>8, <1>9

LEMMA LoadedStep ==
  ASSUME SingleServer, TypeOK, Loaded, NEW p \in Server, Act(p)
  PROVE  Loaded'
<1>1. SUFFICES ASSUME NEW q \in Server, pc'[q] \in HoldsState
               PROVE  /\ Card(q).stored'
                      /\ job'[q].revision = Card(q).revision'
                      /\ job'[q].applied = Card(q).applied'
                      /\ pc'[q] = "patch write"
                           => job'[q].current = job'[q].revision
  BY DEF Loaded
<1>2. q = p
  BY DEF SingleServer
<1>3. /\ job[p] \in Job
      /\ job'[p].session = job[p].session
      /\ ReadsState(p) \/ InsertsState(p) \/ KeepsState(p)
  BY <1>1, <1>2, HoldsControl
<1>4. CASE ReadsState(p)
  <2>1. Card(p)' = Card(p)
    BY <1>3, <1>4 DEF Card, ReadsState, tables
  <2>2. QED
    BY <1>2, <1>4, <2>1 DEF ReadsState
<1>5. CASE InsertsState(p)
  <2>1. Card(p)' = [stored |-> TRUE, revision |-> 0, applied |-> {}]
    BY <1>3, <1>5 DEF Card, InsertsState, TypeOK, Job
  <2>2. QED
    BY <1>2, <1>5, <2>1 DEF InsertsState
<1>6. CASE KeepsState(p)
  <2>1. Card(p)' = Card(p)
    BY <1>3, <1>6 DEF Card, KeepsState, tables
  <2>2. /\ Card(p).stored
        /\ job[p].revision = Card(p).revision
        /\ job[p].applied = Card(p).applied
    BY <1>6, ZenonT(40) DEF Loaded, KeepsState
  <2>3. QED
    BY <1>2, <1>6, <2>1, <2>2 DEF KeepsState
<1>7. QED
  BY <1>3, <1>4, <1>5, <1>6

-----------------------------------------------------------------------------
(* The three ways card_states and card_state_patch_receipts can change.    *)

PatchRow(p) ==
  [turn |-> job[p].turn, session |-> job[p].session,
   from |-> job[p].current, to |-> job[p].current + 1]

WritesPatch(p) ==
  /\ pc[p] = "patch write"
  /\ job[p].turn \notin Patched
  /\ cardStates' = [cardStates EXCEPT ![job[p].session] =
        [@ EXCEPT !.revision = job[p].current + 1,
                  !.applied = job[p].applied \cup {job[p].turn}]]
  /\ patchReceipts' = patchReceipts \cup {PatchRow(p)}
  /\ turnRecords' = turnRecords
  /\ job' = [job EXCEPT ![p].result = job[p].current + 1]

InsertsRow(p) ==
  /\ pc[p] = "insert"
  /\ ~Card(p).stored
  /\ cardStates' = [cardStates EXCEPT ![job[p].session] =
                      [stored |-> TRUE, revision |-> 0, applied |-> {}]]
  /\ UNCHANGED <<patchReceipts, turnRecords>>

LEMMA CardWritten ==
  ASSUME TypeOK, NEW p \in Server, Act(p)
  PROVE  \/ UNCHANGED <<cardStates, patchReceipts>>
         \/ InsertsRow(p)
         \/ WritesPatch(p)
  BY DEF Act, InsertsRow, WritesPatch, PatchRow, tables, Step, LoadFails,
     LoadState, InitializeLooks, InitializeInserts, BuildSnapshot,
     GenerationFails, WriteDraft, QualityRejects, Curate, ApplyRaises,
     DuplicateCheck, RevisionCheck, PatchWrite, WritePatch, TurnIndex,
     TurnCheck, TurnInsert, ActiveCommit, RagCommit, Remember, PersistTrace,
     Replay, Begin, Crash

(* Row by row: inserting the row of revision 0 changes nothing but its     *)
(* being stored; a patch moves its session one revision on.                *)
LEMMA CardsAfter ==
  ASSUME SingleServer, TypeOK, Unstored, Loaded, NEW p \in Server, Act(p)
  PROVE  \/ /\ \A s \in Session :
                 /\ cardStates'[s].revision = cardStates[s].revision
                 /\ cardStates'[s].applied = cardStates[s].applied
            /\ patchReceipts' = patchReceipts
            /\ Unstored'
         \/ /\ WritesPatch(p)
            /\ job[p] \in Job
            /\ job[p].current = Card(p).revision
            /\ Card(p).revision' = Card(p).revision + 1
            /\ Card(p).applied' = Card(p).applied \cup {job[p].turn}
            /\ \A s \in Session \ {job[p].session} :
                 cardStates'[s] = cardStates[s]
            /\ Unstored'
<1>1. CASE UNCHANGED <<cardStates, patchReceipts>>
  BY <1>1 DEF Unstored
<1>2. CASE InsertsRow(p)
  <2>1. job[p] \in Job /\ job[p].session \in Session
    BY <1>2, JobType DEF InsertsRow, Job
  <2>2. /\ cardStates[job[p].session].revision = 0
        /\ cardStates[job[p].session].applied = {}
    BY <1>2, <2>1 DEF InsertsRow, Unstored, Card
  <2>3. \A s \in Session :
          cardStates'[s] = IF s = job[p].session
                           THEN [stored |-> TRUE, revision |-> 0, applied |-> {}]
                           ELSE cardStates[s]
    BY <1>2, <2>1 DEF InsertsRow, TypeOK
  <2>4. ASSUME NEW s \in Session
        PROVE  /\ cardStates'[s].revision = cardStates[s].revision
               /\ cardStates'[s].applied = cardStates[s].applied
    <3>1. CASE s = job[p].session
      <4>1. cardStates'[s] = [stored |-> TRUE, revision |-> 0, applied |-> {}]
        BY <2>3, <3>1
      <4>2. QED
        BY <2>2, <3>1, <4>1
    <3>2. CASE s # job[p].session
      BY <2>3, <3>2
    <3>3. QED
      BY <3>1, <3>2
  <2>5. Unstored'
    <3>1. ASSUME NEW s \in Session, ~cardStates'[s].stored
          PROVE  cardStates'[s].revision = 0 /\ cardStates'[s].applied = {}
      <4>1. CASE s = job[p].session
        <5>1. cardStates'[s] = [stored |-> TRUE, revision |-> 0, applied |-> {}]
          BY <2>3, <4>1
        <5>2. QED
          BY <5>1
      <4>2. CASE s # job[p].session
        BY <2>3, <3>1, <4>2 DEF Unstored
      <4>3. QED
        BY <4>1, <4>2
    <3>2. QED
      BY <3>1 DEF Unstored
  <2>6. QED
    BY <1>2, <2>4, <2>5 DEF InsertsRow
<1>3. CASE WritesPatch(p)
  <2>1. job[p] \in Job /\ job[p].session \in Session
    BY <1>3, JobType DEF WritesPatch, Job
  <2>2. /\ Card(p).stored
        /\ job[p].current = Card(p).revision
        /\ job[p].applied = Card(p).applied
    BY <1>3 DEF WritesPatch, Loaded, HoldsState
  <2>3. job'[p].session = job[p].session
    BY <1>3, <2>1 DEF WritesPatch, TypeOK, Job
  <2>4. \A s \in Session \ {job[p].session} : cardStates'[s] = cardStates[s]
    BY <1>3, <2>1 DEF WritesPatch, TypeOK
  <2>5. cardStates'[job[p].session] =
          [Card(p) EXCEPT !.revision = job[p].current + 1,
                          !.applied = job[p].applied \cup {job[p].turn}]
    BY <1>3, <2>1 DEF WritesPatch, TypeOK, Card
  <2>6. Card(p) \in CardRow
    BY <2>1 DEF Card, TypeOK
  <2>7. /\ cardStates'[job[p].session].stored
        /\ cardStates'[job[p].session].revision = Card(p).revision + 1
        /\ cardStates'[job[p].session].applied = Card(p).applied \cup {job[p].turn}
    BY <2>2, <2>5, <2>6 DEF CardRow
  <2>8. Unstored'
    BY <2>4, <2>7 DEF Unstored
  <2>9. /\ Card(p).revision' = Card(p).revision + 1
        /\ Card(p).applied' = Card(p).applied \cup {job[p].turn}
    BY <2>3, <2>7 DEF Card
  <2>10. QED
    BY <1>3, <2>1, <2>2, <2>4, <2>8, <2>9
<1>4. QED
  BY <1>1, <1>2, <1>3, CardWritten

LEMMA ReceiptsAfter ==
  ASSUME NEW p \in Server, WritesPatch(p), NEW s \in Session
  PROVE  Receipts(s)' = IF s = job[p].session
                        THEN Receipts(s) \cup {PatchRow(p)} ELSE Receipts(s)
<1>1. PatchRow(p).session = job[p].session
  BY DEF PatchRow
<1>2. patchReceipts' = patchReceipts \cup {PatchRow(p)}
  BY DEF WritesPatch
<1>3. QED
  BY <1>1, <1>2 DEF Receipts

LEMMA PatchFoldStep ==
  ASSUME SingleServer, TypeOK, Unstored, Loaded, StateIsPatchFold,
         NEW p \in Server, Act(p)
  PROVE  StateIsPatchFold'
<1>1. CASE /\ \A s \in Session : cardStates'[s].applied = cardStates[s].applied
           /\ patchReceipts' = patchReceipts
  BY <1>1 DEF StateIsPatchFold, Receipts
<1>2. CASE /\ WritesPatch(p)
           /\ job[p] \in Job
           /\ Card(p).applied' = Card(p).applied \cup {job[p].turn}
           /\ \A s \in Session \ {job[p].session} :
                cardStates'[s] = cardStates[s]
  <2>1. ASSUME NEW s \in Session
        PROVE  cardStates'[s].applied = {r.turn : r \in Receipts(s)'}
    <3>1. CASE s = job[p].session
      <4>1. PatchRow(p).turn = job[p].turn
        BY DEF PatchRow
      <4>2. {r.turn : r \in Receipts(s)'} =
              {r.turn : r \in Receipts(s)} \cup {job[p].turn}
        BY <1>2, <3>1, <4>1, ReceiptsAfter
      <4>3. job'[p].session = s
        BY <1>2, <3>1 DEF WritesPatch, TypeOK, Job
      <4>4. cardStates'[s].applied = cardStates[s].applied \cup {job[p].turn}
        BY <1>2, <3>1, <4>3 DEF Card
      <4>5. QED
        BY <4>2, <4>4 DEF StateIsPatchFold
    <3>2. CASE s # job[p].session
      BY <1>2, <3>2, ReceiptsAfter DEF StateIsPatchFold
    <3>3. QED
      BY <3>1, <3>2
  <2>2. QED
    BY <2>1 DEF StateIsPatchFold
<1>3. QED
  BY <1>1, <1>2, CardsAfter

LEMMA ChainStep ==
  ASSUME SingleServer, TypeOK, Unstored, Loaded, RevisionChain,
         NEW p \in Server, Act(p)
  PROVE  RevisionChain'
<1>1. CASE /\ \A s \in Session : cardStates'[s].revision = cardStates[s].revision
           /\ patchReceipts' = patchReceipts
  BY <1>1 DEF RevisionChain, Receipts
<1>2. CASE /\ WritesPatch(p)
           /\ job[p] \in Job
           /\ job[p].current = Card(p).revision
           /\ Card(p).revision' = Card(p).revision + 1
           /\ \A s \in Session \ {job[p].session} :
                cardStates'[s] = cardStates[s]
  <2>1. ASSUME NEW s \in Session
        PROVE  /\ {r.to : r \in Receipts(s)'} = 1..cardStates'[s].revision
               /\ \A r \in Receipts(s)' : r.to = r.from + 1
               /\ \A r, q \in Receipts(s)' : r.to = q.to => r = q
    <3>1. CASE s = job[p].session
      <4> DEFINE n == cardStates[s].revision
                 new == PatchRow(p)
      <4>1. n \in Nat /\ job[p].current = n
        BY <1>2, <3>1 DEF Card, TypeOK, CardRow
      <4>2. new.from = n /\ new.to = n + 1
        BY <4>1 DEF PatchRow
      <4>3. job'[p].session = s
        BY <1>2, <3>1 DEF WritesPatch, TypeOK, Job
      <4>4. cardStates'[s].revision = n + 1
        BY <1>2, <3>1, <4>3 DEF Card
      <4>5. Receipts(s)' = Receipts(s) \cup {new}
        BY <1>2, <3>1, ReceiptsAfter
      <4>6. /\ {r.to : r \in Receipts(s)} = 1..n
            /\ \A r \in Receipts(s) : r.to = r.from + 1
            /\ \A r, q \in Receipts(s) : r.to = q.to => r = q
        BY DEF RevisionChain
      <4> HIDE DEF n, new
      <4>7. {r.to : r \in Receipts(s)'} = {r.to : r \in Receipts(s)} \cup {n + 1}
        BY <4>2, <4>5
      <4>8. {r.to : r \in Receipts(s)'} = 1..(n + 1)
        BY <4>1, <4>6, <4>7
      <4>9. \A r \in Receipts(s) : r.to # n + 1
        <5>1. \A r \in Receipts(s) : r.to \in 1..n
          BY <4>6
        <5>2. QED
          BY <4>1, <5>1
      <4>10. \A r \in Receipts(s)' : r.to = r.from + 1
        BY <4>2, <4>5, <4>6
      <4>11. \A r, q \in Receipts(s)' : r.to = q.to => r = q
        BY <4>2, <4>5, <4>6, <4>9
      <4>12. QED
        BY <4>4, <4>8, <4>10, <4>11
    <3>2. CASE s # job[p].session
      BY <1>2, <3>2, ReceiptsAfter DEF RevisionChain
    <3>3. QED
      BY <3>1, <3>2
  <2>2. QED
    BY <2>1 DEF RevisionChain
<1>3. QED
  BY <1>1, <1>2, CardsAfter

-----------------------------------------------------------------------------
(* The result the turn records.                                            *)

LEMMA ResultControl ==
  ASSUME TypeOK, NEW p \in Server, Act(p), pc'[p] \in HoldsResult
  PROVE  /\ job[p] \in Job
         /\ job'[p].session = job[p].session
         /\ job'[p].revision = job[p].revision
         /\ \/ /\ pc[p] = "gate"
               /\ UNCHANGED tables
               /\ job'[p].result = job[p].revision
            \/ /\ WritesPatch(p)
               /\ job'[p].result = job[p].current + 1
            \/ /\ pc[p] \in HoldsResult
               /\ UNCHANGED tables
               /\ job'[p].result = job[p].result
<1>1. job[p] \in Job /\ Step(p)
  BY ActBusy DEF HoldsResult
<1>2. CASE Curate(p)
  <2>1. PICK proposal \in Proposal :
          job' = [job EXCEPT ![p].proposal = proposal,
                             ![p].result = job[p].revision]
    BY <1>2 DEF Curate
  <2>2. /\ job'[p].revision = job[p].revision
        /\ job'[p].session = job[p].session
        /\ job'[p].result = job[p].revision
    BY <1>1, <2>1 DEF TypeOK, Job
  <2>3. pc[p] = "gate" /\ UNCHANGED tables
    BY <1>2 DEF Curate
  <2>4. QED
    BY <1>1, <2>2, <2>3
<1>3. CASE PatchWrite(p)
  <2>1. WritesPatch(p)
    BY <1>3 DEF PatchWrite, WritePatch, WritesPatch, PatchRow, Return, Goto,
       TypeOK, HoldsResult
  <2>2. /\ job'[p].revision = job[p].revision
        /\ job'[p].session = job[p].session
        /\ job'[p].result = job[p].current + 1
    BY <1>1, <2>1 DEF WritesPatch, TypeOK, Job
  <2>3. QED
    BY <1>1, <2>1, <2>2
<1>4. CASE TurnIndex(p)
  <2>1. job' = [job EXCEPT ![p].index = MaxIndex(job[p].session) + 1]
    BY <1>4 DEF TurnIndex
  <2>2. /\ job'[p].revision = job[p].revision
        /\ job'[p].session = job[p].session
        /\ job'[p].result = job[p].result
    BY <1>1, <2>1 DEF TypeOK, Job
  <2>3. pc[p] \in HoldsResult /\ UNCHANGED tables
    BY <1>4 DEF TurnIndex, HoldsResult
  <2>4. QED
    BY <1>1, <2>2, <2>3
<1>5. CASE TurnCheck(p)
  BY <1>1, <1>5 DEF TurnCheck, Return, Goto, TypeOK, HoldsResult
<1>6. ASSUME ~Curate(p), ~PatchWrite(p), ~TurnIndex(p), ~TurnCheck(p)
      PROVE  FALSE
  BY <1>1, <1>6 DEF Step, LoadFails, LoadState, InitializeLooks,
     InitializeInserts, TakeCardState, BuildSnapshot, GenerationFails,
     WriteDraft, QualityRejects, ApplyRaises, DuplicateCheck, RevisionCheck,
     TurnInsert, ActiveCommit, RagCommit, Remember, PersistTrace, Return, Goto,
     TypeOK, HoldsResult
<1>7. QED
  BY <1>2, <1>3, <1>4, <1>5, <1>6

LEMMA ResultStep ==
  ASSUME SingleServer, TypeOK, Unstored, Loaded, ResultStored,
         RecordsInRevisionOrder, NEW p \in Server, Act(p)
  PROVE  ResultStored'
<1>1. SUFFICES ASSUME NEW q \in Server, pc'[q] \in HoldsResult
               PROVE  /\ job'[q].result = Card(q).revision'
                      /\ job'[q].revision <= job'[q].result
                      /\ job'[q].result <= job'[q].revision + 1
                      /\ \A r \in turnRecords' :
                           r.session = job'[q].session
                             => r.result <= job'[q].revision
  BY DEF ResultStored
<1>2. q = p
  BY DEF SingleServer
<1>3. /\ job[p] \in Job
      /\ job'[p].session = job[p].session
      /\ job'[p].revision = job[p].revision
  BY <1>1, <1>2, ResultControl
<1>4. job[p].revision \in Nat /\ Card(p).revision \in Nat
  BY <1>3 DEF Job, Card, TypeOK, CardRow
<1>5. \A r \in turnRecords :
        r.session = job[p].session => r.result <= Card(p).revision
  BY <1>3 DEF RecordsInRevisionOrder, Rows, Card, Job
<1>6. CASE /\ pc[p] = "gate"
           /\ UNCHANGED tables
           /\ job'[p].result = job[p].revision
  <2>1. Card(p)' = Card(p) /\ turnRecords' = turnRecords
    BY <1>3, <1>6 DEF Card, tables
  <2>2. job[p].revision = Card(p).revision
    BY <1>6 DEF Loaded, HoldsState
  <2>3. QED
    BY <1>2, <1>3, <1>4, <1>5, <1>6, <2>1, <2>2
<1>7. CASE WritesPatch(p) /\ job'[p].result = job[p].current + 1
  <2>1. /\ job[p].current = Card(p).revision
        /\ Card(p).revision' = Card(p).revision + 1
        /\ turnRecords' = turnRecords
    <3>1. patchReceipts' # patchReceipts
      <4>1. PatchRow(p).turn \notin Patched
        BY <1>7 DEF WritesPatch, PatchRow
      <4>2. PatchRow(p) \notin patchReceipts
        BY <4>1 DEF Patched
      <4>3. QED
        BY <1>7, <4>2 DEF WritesPatch
    <3>2. QED
      BY <1>7, <3>1, CardsAfter DEF WritesPatch
  <2>2. job[p].revision = Card(p).revision
    BY <1>7 DEF WritesPatch, Loaded, HoldsState
  <2>3. QED
    BY <1>2, <1>3, <1>4, <1>5, <1>7, <2>1, <2>2
<1>8. CASE /\ pc[p] \in HoldsResult
           /\ UNCHANGED tables
           /\ job'[p].result = job[p].result
  <2>1. Card(p)' = Card(p) /\ turnRecords' = turnRecords
    BY <1>3, <1>8 DEF Card, tables
  <2>2. QED
    BY <1>2, <1>3, <1>8, <2>1 DEF ResultStored
<1>9. QED
  BY <1>1, <1>2, <1>6, <1>7, <1>8, ResultControl

LEMMA OnePast ==
  ASSUME NEW n \in Nat, NEW i \in 1..(n + 1), i \notin 1..n
  PROVE  i = n + 1 /\ \A k \in 1..n : k < i
<1>1. i = n + 1
  OBVIOUS
<1>2. QED
  BY <1>1

(* The row a server inserts comes after every row of its session.          *)
LEMMA NewIndexIsLast ==
  ASSUME TypeOK, IndexRange, PendingIndex, NEW p \in Server,
         pc[p] = "turn insert", NEW s \in Session, s = job[p].session,
         ~\E r \in Rows(s) : r.index = job[p].index
  PROVE  /\ job[p].index = MaxIndex(s) + 1
         /\ \A r \in Rows(s) : r.index < job[p].index
<1>1. MaxIndex(s) \in Nat /\ Indices(s) = 1..MaxIndex(s)
  BY DEF IndexRange
<1>2. job[p].index \in 1..(MaxIndex(s) + 1)
  BY DEF PendingIndex
<1>3. job[p].index \notin Indices(s)
  BY DEF Indices
<1>4. \A r \in Rows(s) : r.index \in 1..MaxIndex(s)
  BY <1>1 DEF Indices
<1> DEFINE n == MaxIndex(s)
           i == job[p].index
<1>5. n \in Nat /\ i \in 1..(n + 1) /\ i \notin 1..n
  BY <1>1, <1>2, <1>3
<1> HIDE DEF n, i
<1>6. i = n + 1 /\ \A k \in 1..n : k < i
  BY <1>5, OnePast
<1>7. QED
  BY <1>4, <1>6 DEF n, i

LEMMA OrderStep ==
  ASSUME SingleServer, TypeOK, IndexRange, PendingIndex, Unstored, Loaded,
         ResultStored, RecordsInRevisionOrder, NEW p \in Server, Act(p)
  PROVE  RecordsInRevisionOrder'
<1>1. CASE turnRecords' = turnRecords
  <2>1. \A s \in Session : cardStates[s].revision \in Nat
    BY DEF TypeOK, CardRow
  <2>2. \A s \in Session : \/ cardStates'[s].revision = cardStates[s].revision
                           \/ cardStates'[s].revision = cardStates[s].revision + 1
    <3>1. CASE /\ WritesPatch(p)
               /\ job[p] \in Job
               /\ job[p].current = Card(p).revision
      BY <3>1, ZenonT(40) DEF WritesPatch, TypeOK, Job, Card, CardRow
    <3>2. QED
      BY <3>1, CardsAfter
  <2>3. \A r \in turnRecords : r.result \in Nat
    BY DEF TypeOK, Record
  <2>4. \A s \in Session : Rows(s)' = Rows(s)
    BY <1>1, MaxIndexSame
  <2>5. \A s \in Session : \A r \in Rows(s) : r \in turnRecords
    BY DEF Rows
  <2>6. QED
    BY <2>1, <2>2, <2>3, <2>4, <2>5 DEF RecordsInRevisionOrder
<1>2. CASE /\ pc[p] = "turn insert"
           /\ ~\E r \in Rows(job[p].session) : r.index = job[p].index
           /\ turnRecords' = turnRecords \cup {NewRecord(p)}
  <2>1. job[p] \in Job
    BY <1>2, JobType
  <2>2. PICK s \in Session : s = job[p].session
    BY <2>1 DEF Job
  <2> DEFINE new == NewRecord(p)
  <2>3. /\ new.session = s /\ new.index = job[p].index
        /\ new.base = job[p].revision /\ new.result = job[p].result
    BY <2>2 DEF NewRecord
  <2>4. /\ new.base \in Nat /\ new.result \in Nat
        /\ new.index \in Nat
    BY <2>1, <2>3 DEF Job
  <2>5. /\ new.result = cardStates[s].revision
        /\ new.base <= new.result
        /\ \A r \in Rows(s) : r.result <= new.base
    BY <1>2, <2>2, <2>3 DEF ResultStored, HoldsResult, Card, Rows
  <2>6. \A r \in Rows(s) : r.index < new.index
    BY <1>2, <2>2, <2>3, NewIndexIsLast
  <2>7. \A t \in Session : cardStates'[t].revision = cardStates[t].revision
    BY <1>2, CardsAfter DEF WritesPatch
  <2> HIDE DEF new
  <2>8. \A t \in Session : Rows(t)' = Rows(t) \cup (IF t = s THEN {new} ELSE {})
    BY <1>2, <2>3 DEF Rows, new
  <2>9. \A r \in Rows(s) : r.index \in Nat
    BY DEF Rows, TypeOK, Record
  <2>10. ASSUME NEW t \in Session
         PROVE  /\ \A r, q \in Rows(t)' : r.index < q.index => r.result <= q.base
                /\ \A r \in Rows(t)' : /\ r.base <= r.result
                                       /\ r.result <= cardStates'[t].revision
    <3>1. CASE t = s
      <4>1. Rows(t)' = Rows(s) \cup {new}
        BY <2>8, <3>1
      <4>2. \A r \in Rows(s) : ~(new.index < r.index)
        BY <2>4, <2>6, <2>9
      <4>3. \A r, q \in Rows(t)' : r.index < q.index => r.result <= q.base
        BY <2>4, <2>5, <4>1, <4>2 DEF RecordsInRevisionOrder
      <4>4. \A r \in Rows(t)' : /\ r.base <= r.result
                               /\ r.result <= cardStates'[t].revision
        BY <2>4, <2>5, <2>7, <3>1, <4>1 DEF RecordsInRevisionOrder
      <4>5. QED
        BY <4>3, <4>4
    <3>2. CASE t # s
      BY <2>7, <2>8, <3>2 DEF RecordsInRevisionOrder
    <3>3. QED
      BY <3>1, <3>2
  <2>11. QED
    BY <2>10 DEF RecordsInRevisionOrder
<1>3. QED
  BY <1>1, <1>2, RecordsWritten

-----------------------------------------------------------------------------
(* SingleInv is inductive.                                                 *)

LEMMA SingleInit == Init => SingleInv
<1> SUFFICES ASSUME Init PROVE SingleInv
  OBVIOUS
<1>1. SafetyInv
  BY SafetyInit
<1>2. Unstored /\ Loaded /\ ResultStored
  BY DEF Init, Unstored, Loaded, ResultStored, HoldsState,
     HoldsResult
<1>3. StateIsPatchFold
  BY DEF Init, StateIsPatchFold, Receipts
<1>4. RevisionChain
  <2>1. \A s \in Session : Receipts(s) = {} /\ cardStates[s].revision = 0
    BY DEF Init, Receipts
  <2>2. 1..0 = {}
    OBVIOUS
  <2>3. QED
    BY <2>1, <2>2 DEF RevisionChain
<1>5. RecordsInRevisionOrder
  BY DEF Init, RecordsInRevisionOrder, Rows
<1>6. QED
  BY <1>1, <1>2, <1>3, <1>4, <1>5 DEF SingleInv

LEMMA SingleNext ==
  ASSUME SingleServer
  PROVE  SingleInv /\ [Next]_vars => SingleInv'
<1> SUFFICES ASSUME SingleInv, [Next]_vars PROVE SingleInv'
  OBVIOUS
<1>1. SafetyInv'
  BY SafetyNext DEF SingleInv
<1>2. CASE Next
  <2>1. PICK p \in Server : Act(p)
    BY <1>2, NextActs
  <2>2. /\ TypeOK /\ IndexRange /\ PendingIndex
        /\ Unstored /\ Loaded /\ ResultStored
    BY DEF SingleInv, SafetyInv
  <2>3. Unstored'
    BY <2>1, <2>2, CardsAfter
  <2>4. Loaded'
    BY <2>1, <2>2, LoadedStep
  <2>5. ResultStored' /\ RecordsInRevisionOrder'
    BY <2>1, <2>2, ResultStep, OrderStep DEF SingleInv
  <2>6. StateIsPatchFold'
    BY <2>1, <2>2, PatchFoldStep DEF SingleInv
  <2>7. RevisionChain'
    BY <2>1, <2>2, ChainStep DEF SingleInv
  <2>8. QED
    BY <1>1, <2>3, <2>4, <2>5, <2>6, <2>7 DEF SingleInv
<1>3. CASE UNCHANGED vars
  <2>1. UNCHANGED <<cardStates, patchReceipts, turnRecords, pc, job>>
    BY <1>3 DEF vars, tables
  <2>2. Unstored' /\ Loaded' /\ ResultStored'
    BY <2>1 DEF SingleInv, Unstored, Loaded, ResultStored, Card
  <2>3. StateIsPatchFold' /\ RevisionChain'
    BY <2>1 DEF SingleInv, StateIsPatchFold, RevisionChain, Receipts
  <2>4. RecordsInRevisionOrder'
    BY <2>1 DEF SingleInv, RecordsInRevisionOrder, Rows
  <2>5. QED
    BY <1>1, <2>2, <2>3, <2>4 DEF SingleInv
<1>4. QED
  BY <1>2, <1>3

LEMMA SingleInvariant ==
  ASSUME SingleServer
  PROVE  Spec => []SingleInv
<1>1. Init => SingleInv
  BY SingleInit
<1>2. SingleInv /\ [Next]_vars => SingleInv'
  BY SingleNext
<1>3. QED
  BY <1>1, <1>2, PTL DEF Spec

(* With one server no committed patch is lost: the stored card state holds *)
(* exactly the patches of its receipts.                                    *)
THEOREM NoLostUpdate ==
  ASSUME SingleServer
  PROVE  Spec => []StateIsPatchFold
<1>1. SingleInv => StateIsPatchFold
  BY DEF SingleInv
<1>2. QED
  BY <1>1, SingleInvariant, PTL

(* With one server the receipts of a session lead from revision 0 to the   *)
(* stored revision, one step each.                                         *)
THEOREM RevisionsFormChain ==
  ASSUME SingleServer
  PROVE  Spec => []RevisionChain
<1>1. SingleInv => RevisionChain
  BY DEF SingleInv
<1>2. QED
  BY <1>1, SingleInvariant, PTL

(* With one server the order of the turn indices is the order of the       *)
(* revisions the turns were written from.                                  *)
THEOREM RecordsFollowRevisions ==
  ASSUME SingleServer
  PROVE  Spec => []RecordsInRevisionOrder
<1>1. SingleInv => RecordsInRevisionOrder
  BY DEF SingleInv
<1>2. QED
  BY <1>1, SingleInvariant, PTL

-----------------------------------------------------------------------------
(* With one server a turn is recorded at the revision the session has when *)
(* the record is written, with or without a change of state.               *)
THEOREM RecordedAtCurrent ==
  ASSUME SingleServer
  PROVE  Spec => RecordedAtCurrentRevision
<1> DEFINE Good == \A r \in turnRecords' \ turnRecords :
                     r.result = cardStates[r.session].revision
<1>1. SingleInv /\ [Next]_vars => [Good]_vars
  <2> SUFFICES ASSUME SingleInv, Next PROVE Good
    OBVIOUS
  <2>1. PICK p \in Server : Act(p)
    BY NextActs
  <2>2. TypeOK /\ ResultStored
    BY DEF SingleInv, SafetyInv
  <2>3. CASE turnRecords' = turnRecords
    BY <2>3
  <2>4. CASE pc[p] = "turn insert" /\ turnRecords' = turnRecords \cup {NewRecord(p)}
    <3>1. NewRecord(p).result = cardStates[NewRecord(p).session].revision
      BY <2>2, <2>4 DEF ResultStored, HoldsResult, NewRecord, Card
    <3>2. QED
      BY <2>4, <3>1
  <2>5. QED
    BY <2>1, <2>2, <2>3, <2>4, RecordsWritten
<1>2. QED
  BY <1>1, SingleInvariant, PTL DEF Spec, RecordedAtCurrentRevision

-----------------------------------------------------------------------------
(* Records and receipts tell the same story.  What the two commits leave   *)
(* between them has to be known of the execution under way: that its turn  *)
(* has no receipt before its patch is written, none or the one it          *)
(* announces until its record is, and a free index.                        *)

BeforePatch == {"load", "initialize", "insert", "snapshot", "generate", "gate",
                "duplicate check", "revision check", "patch write"}

Unpatched ==
  \A p \in Server : pc[p] \in BeforePatch => job[p].turn \notin Patched \ cut

Unrecorded ==
  \A p \in Server : pc[p] \in BeforePatch \cup HoldsResult => job[p].turn \notin Recorded

Announced ==
  \A p \in Server :
    pc[p] \in HoldsResult /\ job[p].turn \notin cut =>
      IF job[p].turn \in Patched
      THEN [turn |-> job[p].turn, session |-> job[p].session,
            from |-> job[p].revision, to |-> job[p].result] \in patchReceipts
      ELSE job[p].revision = job[p].result

AfterRecord ==
  \A p \in Server :
    pc[p] \in {"active commit", "rag commit", "trace"} => job[p].turn \in Recorded

FreeIndex ==
  \A p \in Server : pc[p] \in {"turn check", "turn insert"} =>
    \A r \in Rows(job[p].session) : r.index # job[p].index

MatchInv ==
  /\ SingleInv
  /\ Unpatched
  /\ Unrecorded
  /\ Announced
  /\ AfterRecord
  /\ FreeIndex
  /\ TurnsMatchPatches

(* What an action of p is, as far as receipts and records are concerned.   *)

LeavesRows == UNCHANGED <<patchReceipts, turnRecords, cut>>

Starts(p) ==
  /\ LeavesRows
  /\ pc[p] = "idle"
  /\ pc'[p] = "idle" \/ (pc'[p] = "load" /\ job'[p].turn \notin Recorded)

Prepares(p) ==
  /\ LeavesRows
  /\ pc[p] \in BeforePatch /\ pc'[p] \in BeforePatch
  /\ job'[p].turn = job[p].turn

ProposesNothing(p) ==
  /\ LeavesRows
  /\ pc[p] = "gate" /\ pc'[p] = "turn index"
  /\ job'[p].turn = job[p].turn /\ job'[p].session = job[p].session
  /\ job'[p].revision = job[p].revision /\ job'[p].result = job[p].revision

Patches(p) ==
  /\ WritesPatch(p)
  /\ pc'[p] = "turn index" /\ cut' = cut
  /\ job'[p].turn = job[p].turn /\ job'[p].session = job[p].session
  /\ job'[p].revision = job[p].revision /\ job'[p].result = job[p].current + 1

FindsIndex(p) ==
  /\ LeavesRows
  /\ \/ /\ pc[p] = "turn index" /\ pc'[p] = "turn check"
        /\ job'[p].index = MaxIndex(job[p].session) + 1
     \/ /\ pc[p] = "turn check" /\ pc'[p] = "turn insert"
        /\ job'[p].index = job[p].index
  /\ job'[p].turn = job[p].turn /\ job'[p].session = job[p].session
  /\ job'[p].revision = job[p].revision /\ job'[p].result = job[p].result

RecordsTurn(p) ==
  /\ pc[p] = "turn insert" /\ pc'[p] = "active commit"
  /\ job'[p] = job[p]
  /\ turnRecords' = turnRecords \cup {NewRecord(p)}
  /\ UNCHANGED <<patchReceipts, cut>>

Remembers(p) ==
  /\ LeavesRows
  /\ pc[p] \in {"active commit", "rag commit"} /\ pc'[p] \in {"rag commit", "trace"}
  /\ job'[p] = job[p]

Ends(p) ==
  /\ UNCHANGED <<patchReceipts, turnRecords>>
  /\ pc[p] # "idle" /\ pc'[p] = "idle"
  /\ cut' = cut \/ cut' = cut \cup {job[p].turn}
  /\ \/ job[p].turn \in cut' \cup Recorded
     \/ pc[p] \in BeforePatch \cup {"trace"}
     \/ pc[p] = "turn insert" /\ \E r \in Rows(job[p].session) : r.index = job[p].index

LEMMA Outcomes ==
  ASSUME TypeOK, NEW p \in Server, Act(p)
  PROVE  \/ Starts(p) \/ Prepares(p) \/ ProposesNothing(p) \/ Patches(p)
         \/ FindsIndex(p) \/ RecordsTurn(p) \/ Remembers(p) \/ Ends(p)
<1>1. ASSUME NEW s \in Session, NEW t \in Turn, Replay(p, s, t)
      PROVE  Starts(p)
  BY <1>1 DEF Replay, Return, Goto, Starts, LeavesRows, tables, TypeOK
<1>2. ASSUME NEW s \in Session, NEW t \in Turn, Begin(p, s, t)
      PROVE  Starts(p)
  <2> DEFINE new == [session |-> s, turn |-> t, revision |-> 0, applied |-> {},
                     snapshot |-> 0, accept |-> FALSE, proposal |-> NoProposal,
                     current |-> 0, result |-> 0, index |-> 0]
  <2>1. job' = [job EXCEPT ![p] = new] /\ new.turn = t
    BY <1>2 DEF Begin
  <2>2. job'[p].turn = t
    <3> HIDE DEF new
    <3> QED
      BY <2>1 DEF TypeOK
  <2> QED
    BY <1>2, <2>2 DEF Begin, Goto, Starts, LeavesRows, tables, TypeOK
<1>3. CASE LoadState(p) \/ InitializeLooks(p) \/ InitializeInserts(p)
  <2>1. job[p] \in Job
    BY <1>3, JobType DEF LoadState, InitializeLooks, InitializeInserts
  <2>2. CASE pc'[p] = "idle"
    BY <1>3, <2>2 DEF LoadState, InitializeLooks, InitializeInserts, TakeCardState,
                      Ends, BeforePatch, tables
  <2>3. CASE pc'[p] # "idle"
    <3>1. \/ job' = job
          \/ \E v, w : job' = [job EXCEPT ![p].revision = v, ![p].applied = w]
      BY <1>3, <2>3 DEF LoadState, InitializeLooks, InitializeInserts, TakeCardState,
                        Return, Goto, TypeOK
    <3>2. job'[p].turn = job[p].turn
      BY <2>1, <3>1, ZenonT(40) DEF TypeOK, Job
    <3>3. pc'[p] \in BeforePatch /\ pc[p] \in BeforePatch /\ LeavesRows
      BY <1>3, <2>3 DEF LoadState, InitializeLooks, InitializeInserts, TakeCardState,
                        Return, Goto, TypeOK, BeforePatch, LeavesRows, tables
    <3> QED
      BY <3>2, <3>3 DEF Prepares
  <2> QED
    BY <2>2, <2>3
<1>4. CASE BuildSnapshot(p) \/ WriteDraft(p)
  <2>1. job[p] \in Job
    BY <1>4, JobType DEF BuildSnapshot, WriteDraft
  <2>2. \/ \E v : job' = [job EXCEPT ![p].snapshot = v]
        \/ \E v : job' = [job EXCEPT ![p].accept = v]
    BY <1>4 DEF BuildSnapshot, WriteDraft
  <2>3. job'[p].turn = job[p].turn
    BY <2>1, <2>2 DEF TypeOK, Job
  <2> QED
    BY <1>4, <2>3 DEF BuildSnapshot, WriteDraft, Goto, TypeOK, Prepares, BeforePatch,
                      LeavesRows, tables
<1>5. CASE Curate(p)
  <2>1. job[p] \in Job
    BY <1>5, JobType DEF Curate
  <2>2. PICK proposal \in Proposal :
          /\ job' = [job EXCEPT ![p].proposal = proposal, ![p].result = job[p].revision]
          /\ Goto(p, IF proposal.change THEN "duplicate check" ELSE "turn index")
    BY <1>5 DEF Curate
  <2>3. /\ job'[p].turn = job[p].turn /\ job'[p].session = job[p].session
        /\ job'[p].revision = job[p].revision /\ job'[p].result = job[p].revision
    BY <2>1, <2>2 DEF TypeOK, Job
  <2>4. LeavesRows /\ pc[p] = "gate"
    BY <1>5 DEF Curate, LeavesRows, tables
  <2>5. pc'[p] \in {"duplicate check", "turn index"}
    BY <2>2 DEF Goto, TypeOK
  <2> QED
    BY <2>3, <2>4, <2>5 DEF Prepares, ProposesNothing, BeforePatch
<1>6. CASE DuplicateCheck(p) \/ RevisionCheck(p)
  <2>1. job[p] \in Job
    BY <1>6, JobType DEF DuplicateCheck, RevisionCheck
  <2>2. pc[p] \in BeforePatch /\ LeavesRows
    BY <1>6 DEF DuplicateCheck, RevisionCheck, BeforePatch, LeavesRows, tables
  <2>3. CASE pc'[p] = "idle"
    BY <2>2, <2>3 DEF Ends, LeavesRows, BeforePatch
  <2>4. CASE pc'[p] # "idle"
    <3>1. /\ \/ job' = job
             \/ \E v : job' = [job EXCEPT ![p].current = v]
          /\ pc'[p] \in BeforePatch
      BY <1>6, <2>4 DEF DuplicateCheck, RevisionCheck, Return, Goto, TypeOK, BeforePatch
    <3>2. job'[p].turn = job[p].turn
      BY <2>1, <3>1 DEF TypeOK, Job
    <3> QED
      BY <2>2, <3>1, <3>2 DEF Prepares
  <2> QED
    BY <2>3, <2>4
<1>7. CASE PatchWrite(p)
  <2>1. job[p] \in Job
    BY <1>7, JobType DEF PatchWrite
  <2>2. CASE Return(p, "internal error") /\ UNCHANGED <<tables, runs, accepted, cut>>
    BY <1>7, <2>2 DEF PatchWrite, Return, Goto, TypeOK, Ends, BeforePatch, tables
  <2>3. CASE job[p].turn \notin Patched
             /\ WritePatch(p, job[p].current + 1, job[p].applied \cup {job[p].turn},
                           job[p].current + 1)
    <3>1. WritesPatch(p) /\ cut' = cut /\ pc'[p] = "turn index"
      BY <1>7, <2>3 DEF PatchWrite, WritePatch, WritesPatch, PatchRow, Goto, TypeOK
    <3>2. job' = [job EXCEPT ![p].result = job[p].current + 1]
      BY <3>1 DEF WritesPatch
    <3>3. /\ job'[p].turn = job[p].turn /\ job'[p].session = job[p].session
          /\ job'[p].revision = job[p].revision /\ job'[p].result = job[p].current + 1
      BY <2>1, <3>2 DEF TypeOK, Job
    <3> QED
      BY <3>1, <3>3 DEF Patches
  <2> QED
    BY <1>7, <2>2, <2>3 DEF PatchWrite
<1>8. CASE TurnIndex(p)
  <2>1. job[p] \in Job
    BY <1>8, JobType DEF TurnIndex
  <2>2. job' = [job EXCEPT ![p].index = MaxIndex(job[p].session) + 1]
    BY <1>8 DEF TurnIndex
  <2>3. /\ job'[p].turn = job[p].turn /\ job'[p].session = job[p].session
        /\ job'[p].revision = job[p].revision /\ job'[p].result = job[p].result
        /\ job'[p].index = MaxIndex(job[p].session) + 1
    <3> DEFINE top == MaxIndex(job[p].session) + 1
    <3>1. job' = [job EXCEPT ![p].index = top]
      BY <2>2
    <3> HIDE DEF top
    <3>2. /\ job'[p].turn = job[p].turn /\ job'[p].session = job[p].session
          /\ job'[p].revision = job[p].revision /\ job'[p].result = job[p].result
          /\ job'[p].index = top
      BY <2>1, <3>1 DEF TypeOK, Job
    <3> QED
      BY <3>2 DEF top
  <2> QED
    BY <1>8, <2>3 DEF TurnIndex, Goto, TypeOK, FindsIndex, LeavesRows, tables
<1>9. CASE TurnCheck(p)
  BY <1>9 DEF TurnCheck, Return, Goto, TypeOK, FindsIndex, Ends, LeavesRows, tables
<1>10. CASE TurnInsert(p)
  BY <1>10 DEF TurnInsert, Return, Goto, TypeOK, RecordsTurn, Ends
<1>11. CASE ActiveCommit(p) \/ RagCommit(p)
  BY <1>11 DEF ActiveCommit, RagCommit, Remember, Goto, TypeOK, Remembers, LeavesRows
<1>12. CASE \/ LoadFails(p) \/ GenerationFails(p) \/ QualityRejects(p) \/ ApplyRaises(p)
            \/ PersistTrace(p)
  BY <1>12 DEF LoadFails, GenerationFails, QualityRejects, ApplyRaises, PersistTrace,
               Return, Goto, TypeOK, Ends, BeforePatch, tables
<1>13. CASE Crash(p)
  BY <1>13 DEF Crash, Return, Goto, TypeOK, Ends, tables
<1> QED
  BY <1>1, <1>2, <1>3, <1>4, <1>5, <1>6, <1>7, <1>8, <1>9, <1>10, <1>11, <1>12, <1>13
     DEF Act, Step

(* An index that is the largest plus one is free.                          *)
LEMMA NextIndexIsFree ==
  ASSUME IndexRange, NEW s \in Session, NEW r \in Rows(s)
  PROVE  r.index # MaxIndex(s) + 1
<1>1. r.index \in Indices(s)
  BY DEF Indices
<1>2. r.index \in 1..MaxIndex(s) /\ MaxIndex(s) \in Nat
  BY <1>1 DEF IndexRange
<1> QED
  BY <1>2

(* Records and receipts after a step that leaves both tables alone.        *)
LEMMA RowsLeft ==
  ASSUME UNCHANGED <<patchReceipts, turnRecords>>
  PROVE  Patched' = Patched /\ Recorded' = Recorded /\ \A s : Rows(s)' = Rows(s)
BY DEF Patched, Recorded, Rows

RecordsMatch ==
  \A r \in turnRecords : r.turn \notin cut =>
    IF r.turn \in Patched
    THEN [turn |-> r.turn, session |-> r.session, from |-> r.base,
          to |-> r.result] \in patchReceipts
    ELSE r.base = r.result

ReceiptsBelong ==
  \A r \in patchReceipts :
    \/ r.turn \in Recorded \cup cut
    \/ \E p \in Server : pc[p] # "idle" /\ job[p].turn = r.turn

LEMMA TurnsMatch == TurnsMatchPatches <=> RecordsMatch /\ ReceiptsBelong
BY DEF TurnsMatchPatches, RecordsMatch, ReceiptsBelong

(* What each outcome does to the parts of the invariant.                   *)

LEMMA MatchStarts ==
  ASSUME SingleServer, MatchInv, NEW p \in Server, Starts(p)
  PROVE  /\ Unpatched' /\ Unrecorded' /\ Announced' /\ AfterRecord' /\ FreeIndex'
         /\ RecordsMatch' /\ ReceiptsBelong'
<1>1. \A q \in Server : q = p
  BY DEF SingleServer
<1>2. /\ Patched' = Patched /\ Recorded' = Recorded /\ cut' = cut
      /\ patchReceipts' = patchReceipts /\ turnRecords' = turnRecords
  BY RowsLeft DEF Starts, LeavesRows
<1>3. RecordsMatch /\ ReceiptsBelong
  BY TurnsMatch DEF MatchInv
<1>4. \A r \in patchReceipts : r.turn \in Recorded \cup cut
  BY <1>1, <1>3 DEF ReceiptsBelong, Starts
<1>5. RecordsMatch' /\ ReceiptsBelong'
  BY <1>2, <1>3, <1>4 DEF RecordsMatch, ReceiptsBelong
<1>6. Patched \subseteq Recorded \cup cut
  BY <1>4 DEF Patched
<1>7. pc'[p] \in BeforePatch \cup HoldsResult => job'[p].turn \notin Recorded
  BY DEF Starts, BeforePatch, HoldsResult
<1>8. Unpatched' /\ Unrecorded'
  BY <1>1, <1>2, <1>6, <1>7 DEF Unpatched, Unrecorded
<1>9. Announced' /\ AfterRecord' /\ FreeIndex'
  BY <1>1 DEF Starts, Announced, AfterRecord, FreeIndex, HoldsResult
<1> QED
  BY <1>5, <1>8, <1>9

LEMMA MatchPrepares ==
  ASSUME SingleServer, MatchInv, NEW p \in Server, Prepares(p) \/ ProposesNothing(p)
  PROVE  /\ Unpatched' /\ Unrecorded' /\ Announced' /\ AfterRecord' /\ FreeIndex'
         /\ RecordsMatch' /\ ReceiptsBelong'
<1>1. \A q \in Server : q = p
  BY DEF SingleServer
<1>2. /\ Patched' = Patched /\ Recorded' = Recorded /\ cut' = cut
      /\ patchReceipts' = patchReceipts /\ turnRecords' = turnRecords
      /\ job'[p].turn = job[p].turn /\ pc[p] \in BeforePatch
      /\ pc'[p] \in BeforePatch \cup {"turn index"}
  BY RowsLeft DEF Prepares, ProposesNothing, LeavesRows, BeforePatch
<1>3. RecordsMatch /\ ReceiptsBelong
  BY TurnsMatch DEF MatchInv
<1>4. RecordsMatch'
  BY <1>2, <1>3 DEF RecordsMatch
<1>5. ReceiptsBelong'
  BY <1>1, <1>2, <1>3 DEF ReceiptsBelong, BeforePatch
<1>6. job[p].turn \notin Patched \ cut /\ job[p].turn \notin Recorded
  BY <1>2 DEF MatchInv, Unpatched, Unrecorded
<1>7. Unpatched' /\ Unrecorded'
  BY <1>1, <1>2, <1>6 DEF Unpatched, Unrecorded
<1>8. Announced'
  BY <1>1, <1>2, <1>6 DEF Announced, Prepares, ProposesNothing, HoldsResult, BeforePatch
<1>9. AfterRecord' /\ FreeIndex'
  BY <1>1, <1>2 DEF AfterRecord, FreeIndex, BeforePatch
<1> QED
  BY <1>4, <1>5, <1>7, <1>8, <1>9

LEMMA MatchPatches ==
  ASSUME SingleServer, MatchInv, NEW p \in Server, Patches(p)
  PROVE  /\ Unpatched' /\ Unrecorded' /\ Announced' /\ AfterRecord' /\ FreeIndex'
         /\ RecordsMatch' /\ ReceiptsBelong'
<1>1. \A q \in Server : q = p
  BY DEF SingleServer
<1>2. /\ pc[p] = "patch write" /\ pc'[p] = "turn index" /\ cut' = cut
      /\ turnRecords' = turnRecords /\ Recorded' = Recorded
      /\ patchReceipts' = patchReceipts \cup {PatchRow(p)}
  BY DEF Patches, WritesPatch, Recorded
<1>3. PatchRow(p).turn = job[p].turn
  BY DEF PatchRow
<1>4. Patched' = Patched \cup {job[p].turn}
  BY <1>2, <1>3 DEF Patched
<1>5. RecordsMatch /\ ReceiptsBelong
  BY TurnsMatch DEF MatchInv
<1>6. job[p].turn \notin Recorded
  BY <1>2 DEF MatchInv, Unrecorded, BeforePatch
<1>7. RecordsMatch'
  <2>1. \A r \in turnRecords : r.turn # job[p].turn
    BY <1>6 DEF Recorded
  <2> QED
    BY <1>2, <1>4, <1>5, <2>1 DEF RecordsMatch
<1>8. ReceiptsBelong'
  <2>1. job'[p].turn = job[p].turn
    BY DEF Patches
  <2> QED
    BY <1>1, <1>2, <1>3, <1>5, <2>1 DEF ReceiptsBelong
<1>9. Unrecorded' /\ Unpatched'
  BY <1>1, <1>2, <1>6 DEF Unrecorded, Unpatched, BeforePatch, Patches
<1>10. Announced'
  <2>1. job[p].current = job[p].revision
    BY <1>2 DEF MatchInv, SingleInv, Loaded, HoldsState
  <2>2. [turn |-> job'[p].turn, session |-> job'[p].session,
         from |-> job'[p].revision, to |-> job'[p].result] = PatchRow(p)
    BY <2>1 DEF Patches, PatchRow
  <2>3. job'[p].turn \in Patched'
    BY <1>4 DEF Patches
  <2> QED
    BY <1>1, <1>2, <2>2, <2>3 DEF Announced
<1>11. AfterRecord' /\ FreeIndex'
  BY <1>1, <1>2 DEF AfterRecord, FreeIndex
<1> QED
  BY <1>7, <1>8, <1>9, <1>10, <1>11

LEMMA MatchFindsIndex ==
  ASSUME SingleServer, MatchInv, NEW p \in Server, FindsIndex(p)
  PROVE  /\ Unpatched' /\ Unrecorded' /\ Announced' /\ AfterRecord' /\ FreeIndex'
         /\ RecordsMatch' /\ ReceiptsBelong'
<1>1. \A q \in Server : q = p
  BY DEF SingleServer
<1>2. /\ Patched' = Patched /\ Recorded' = Recorded /\ cut' = cut
      /\ patchReceipts' = patchReceipts /\ turnRecords' = turnRecords
      /\ \A s : Rows(s)' = Rows(s)
  BY RowsLeft DEF FindsIndex, LeavesRows
<1>3. /\ pc[p] \in {"turn index", "turn check"} /\ pc'[p] \in {"turn check", "turn insert"}
      /\ job'[p].turn = job[p].turn /\ job'[p].session = job[p].session
      /\ job'[p].revision = job[p].revision /\ job'[p].result = job[p].result
  BY DEF FindsIndex
<1>4. RecordsMatch /\ ReceiptsBelong
  BY TurnsMatch DEF MatchInv
<1>5. RecordsMatch'
  BY <1>2, <1>4 DEF RecordsMatch
<1>6. ReceiptsBelong'
  BY <1>1, <1>2, <1>3, <1>4 DEF ReceiptsBelong
<1>7. Unpatched' /\ Unrecorded'
  <2>1. job[p].turn \notin Recorded
    BY <1>3 DEF MatchInv, Unrecorded, HoldsResult
  <2> QED
    BY <1>1, <1>2, <1>3, <2>1 DEF Unpatched, Unrecorded, BeforePatch
<1>8. Announced'
  <2>1. job[p].turn \notin cut =>
          IF job[p].turn \in Patched
          THEN [turn |-> job[p].turn, session |-> job[p].session,
                from |-> job[p].revision, to |-> job[p].result] \in patchReceipts
          ELSE job[p].revision = job[p].result
    BY <1>3 DEF MatchInv, Announced, HoldsResult
  <2> QED
    BY <1>1, <1>2, <1>3, <2>1 DEF Announced
<1>9. FreeIndex'
  <2>1. job[p].session \in Session
    BY <1>3, JobType DEF MatchInv, SingleInv, SafetyInv, Job
  <2>2. \A r \in Rows(job[p].session) : r.index # job'[p].index
    <3>1. CASE job'[p].index = MaxIndex(job[p].session) + 1
      BY <2>1, <3>1, NextIndexIsFree DEF MatchInv, SingleInv, SafetyInv
    <3>2. CASE pc[p] = "turn check" /\ job'[p].index = job[p].index
      BY <3>2 DEF MatchInv, FreeIndex
    <3> QED
      BY <3>1, <3>2 DEF FindsIndex
  <2> QED
    BY <1>1, <1>2, <1>3, <2>2 DEF FreeIndex
<1>10. AfterRecord'
  BY <1>1, <1>3 DEF AfterRecord
<1> QED
  BY <1>5, <1>6, <1>7, <1>8, <1>9, <1>10

LEMMA MatchRecordsTurn ==
  ASSUME SingleServer, MatchInv, NEW p \in Server, RecordsTurn(p) \/ Remembers(p)
  PROVE  /\ Unpatched' /\ Unrecorded' /\ Announced' /\ AfterRecord' /\ FreeIndex'
         /\ RecordsMatch' /\ ReceiptsBelong'
<1>1. \A q \in Server : q = p
  BY DEF SingleServer
<1>2. /\ patchReceipts' = patchReceipts /\ Patched' = Patched /\ cut' = cut
      /\ job'[p] = job[p]
      /\ pc[p] # "idle" /\ pc'[p] \in {"active commit", "rag commit", "trace"}
  BY DEF RecordsTurn, Remembers, LeavesRows, Patched
<1>3. RecordsMatch /\ ReceiptsBelong
  BY TurnsMatch DEF MatchInv
<1>4. job[p].turn \in Recorded' /\ Recorded \subseteq Recorded' /\ RecordsMatch'
  <2>1. CASE RecordsTurn(p)
    <3> DEFINE new == NewRecord(p)
    <3>1. /\ new.turn = job[p].turn /\ new.session = job[p].session
          /\ new.base = job[p].revision /\ new.result = job[p].result
      BY DEF NewRecord
    <3>2. turnRecords' = turnRecords \cup {new} /\ pc[p] = "turn insert"
      BY <2>1 DEF RecordsTurn
    <3>3. new.turn \notin cut =>
            IF new.turn \in Patched
            THEN [turn |-> new.turn, session |-> new.session, from |-> new.base,
                  to |-> new.result] \in patchReceipts
            ELSE new.base = new.result
      BY <3>1, <3>2 DEF MatchInv, Announced, HoldsResult
    <3> HIDE DEF new
    <3>4. RecordsMatch'
      BY <1>2, <1>3, <3>2, <3>3 DEF RecordsMatch
    <3>5. Recorded' = Recorded \cup {job[p].turn}
      BY <3>1, <3>2 DEF Recorded
    <3> QED
      BY <3>4, <3>5
  <2>2. CASE Remembers(p)
    <3>1. turnRecords' = turnRecords /\ Recorded' = Recorded
      BY <2>2 DEF Remembers, LeavesRows, Recorded
    <3>2. job[p].turn \in Recorded
      BY <2>2 DEF Remembers, MatchInv, AfterRecord
    <3> QED
      BY <1>2, <1>3, <3>1, <3>2 DEF RecordsMatch
  <2> QED
    BY <2>1, <2>2
<1>5. ReceiptsBelong'
  BY <1>1, <1>2, <1>3, <1>4 DEF ReceiptsBelong
<1>6. AfterRecord' /\ Unpatched' /\ Unrecorded' /\ Announced' /\ FreeIndex'
  BY <1>1, <1>2, <1>4
     DEF AfterRecord, Unpatched, Unrecorded, Announced, FreeIndex, BeforePatch, HoldsResult
<1> QED
  BY <1>4, <1>5, <1>6

LEMMA MatchEnds ==
  ASSUME SingleServer, MatchInv, NEW p \in Server, Ends(p)
  PROVE  /\ Unpatched' /\ Unrecorded' /\ Announced' /\ AfterRecord' /\ FreeIndex'
         /\ RecordsMatch' /\ ReceiptsBelong'
<1>1. \A q \in Server : q = p
  BY DEF SingleServer
<1>2. /\ Patched' = Patched /\ Recorded' = Recorded /\ cut \subseteq cut'
      /\ patchReceipts' = patchReceipts /\ turnRecords' = turnRecords
      /\ pc'[p] = "idle"
  BY RowsLeft DEF Ends
<1>3. RecordsMatch /\ ReceiptsBelong
  BY TurnsMatch DEF MatchInv
<1>4. RecordsMatch'
  BY <1>2, <1>3 DEF RecordsMatch
<1>5. job[p].turn \in Patched => job[p].turn \in Recorded \cup cut'
  <2>1. CASE pc[p] \in BeforePatch
    BY <1>2, <2>1 DEF MatchInv, Unpatched
  <2>2. CASE pc[p] = "trace"
    BY <2>2 DEF MatchInv, AfterRecord
  <2>3. CASE pc[p] = "turn insert" /\ \E r \in Rows(job[p].session) : r.index = job[p].index
    BY <2>3 DEF MatchInv, FreeIndex
  <2> QED
    BY <2>1, <2>2, <2>3 DEF Ends
<1>6. ReceiptsBelong'
  <2>1. \A r \in patchReceipts : r.turn \in Patched
    BY DEF Patched
  <2>2. \A r \in patchReceipts : r.turn \in Recorded \cup cut'
    BY <1>1, <1>2, <1>3, <1>5, <2>1 DEF ReceiptsBelong
  <2> QED
    BY <1>2, <2>2 DEF ReceiptsBelong
<1>7. AfterRecord' /\ Unpatched' /\ Unrecorded' /\ Announced' /\ FreeIndex'
  BY <1>1, <1>2
     DEF AfterRecord, Unpatched, Unrecorded, Announced, FreeIndex, BeforePatch, HoldsResult
<1> QED
  BY <1>4, <1>6, <1>7

LEMMA MatchInit == Init => MatchInv
<1> SUFFICES ASSUME Init PROVE MatchInv
  OBVIOUS
<1>1. SingleInv
  BY SingleInit
<1>2. RecordsMatch /\ ReceiptsBelong
  BY DEF Init, RecordsMatch, ReceiptsBelong
<1>3. Unpatched /\ Unrecorded /\ Announced /\ AfterRecord /\ FreeIndex
  BY DEF Init, Unpatched, Unrecorded, Announced, AfterRecord, FreeIndex, BeforePatch,
         HoldsResult
<1> QED
  BY <1>1, <1>2, <1>3, TurnsMatch DEF MatchInv

LEMMA MatchNext ==
  ASSUME SingleServer
  PROVE  MatchInv /\ [Next]_vars => MatchInv'
<1> SUFFICES ASSUME MatchInv, [Next]_vars PROVE MatchInv'
  OBVIOUS
<1>1. SingleInv'
  BY SingleNext DEF MatchInv
<1>2. ASSUME NEW p \in Server, Act(p)
      PROVE  /\ Unpatched' /\ Unrecorded' /\ Announced' /\ AfterRecord' /\ FreeIndex'
             /\ RecordsMatch' /\ ReceiptsBelong'
  <2>1. TypeOK
    BY DEF MatchInv, SingleInv, SafetyInv
  <2> QED
    BY <1>2, <2>1, Outcomes, MatchStarts, MatchPrepares, MatchPatches, MatchFindsIndex,
       MatchRecordsTurn, MatchEnds
<1>3. ASSUME UNCHANGED vars
      PROVE  /\ Unpatched' /\ Unrecorded' /\ Announced' /\ AfterRecord' /\ FreeIndex'
             /\ RecordsMatch' /\ ReceiptsBelong'
  <2> USE DEF vars, tables
  <2>1. Patched' = Patched /\ Recorded' = Recorded /\ \A s : Rows(s)' = Rows(s)
    BY <1>3, RowsLeft
  <2>2. Unpatched' /\ Unrecorded' /\ AfterRecord'
    BY <1>3, <2>1 DEF MatchInv, Unpatched, Unrecorded, AfterRecord
  <2>3. Announced'
    BY <1>3, <2>1 DEF MatchInv, Announced
  <2>4. FreeIndex'
    BY <1>3, <2>1 DEF MatchInv, FreeIndex
  <2>5. RecordsMatch'
    BY <1>3, <2>1, TurnsMatch DEF MatchInv, RecordsMatch
  <2>6. ReceiptsBelong'
    BY <1>3, <2>1, TurnsMatch DEF MatchInv, ReceiptsBelong
  <2> QED
    BY <2>2, <2>3, <2>4, <2>5, <2>6
<1>4. /\ Unpatched' /\ Unrecorded' /\ Announced' /\ AfterRecord' /\ FreeIndex'
      /\ RecordsMatch' /\ ReceiptsBelong'
  BY <1>2, <1>3, NextActs
<1>5. TurnsMatchPatches'
  BY <1>4 DEF TurnsMatchPatches, RecordsMatch, ReceiptsBelong
<1> QED
  BY <1>1, <1>4, <1>5 DEF MatchInv

(* With one server a turn that was never cut short has, record and receipt *)
(* together, one story: the record names the revisions its patch leads     *)
(* from and to, or the same revision twice when it has none, and a receipt *)
(* without a record belongs to the execution under way.                    *)
THEOREM RecordsMatchReceipts ==
  ASSUME SingleServer
  PROVE  Spec => []TurnsMatchPatches
<1>1. MatchInv => TurnsMatchPatches
  BY DEF MatchInv
<1>2. MatchInv /\ [Next]_vars => MatchInv'
  BY MatchNext
<1> QED
  BY <1>1, <1>2, MatchInit, PTL DEF Spec

-----------------------------------------------------------------------------
(* The engine implements the ledger.  The patch transaction is the ledger  *)
(* Patch, the insert of the turn record its Append, and each memory commit *)
(* its Remember; every other step leaves the ledger alone.                 *)

LedgerState ==
  [s \in Session |-> [revision |-> cardStates[s].revision,
                      applied  |-> cardStates[s].applied]]

LEMMA LedgerInit == Init => Ledger!Init
  BY DEF Init, Ledger!Init, Layer, Ledger!Layer

LEMMA PatchIsLedgerPatch ==
  ASSUME SingleServer, SingleInv, NEW p \in Server, Act(p), WritesPatch(p)
  PROVE  Ledger!Next \/ UNCHANGED Ledger!ledgerVars
<1>1. /\ TypeOK /\ Unstored /\ Loaded
  BY DEF SingleInv, SafetyInv
<1>2. patchReceipts' # patchReceipts
  <2>1. PatchRow(p).turn \notin Patched
    BY DEF WritesPatch, PatchRow
  <2>2. PatchRow(p) \notin patchReceipts
    BY <2>1 DEF Patched
  <2>3. QED
    BY <2>2 DEF WritesPatch
<1>3. job[p] \in Job /\ job[p].current = Card(p).revision
  BY <1>1, <1>2, CardsAfter
<1>4. PICK s \in Session, t \in Turn : s = job[p].session /\ t = job[p].turn
  BY <1>3 DEF Job
<1>5. job[p].applied = cardStates[s].applied /\ job[p].current = cardStates[s].revision
  BY <1>1, <1>3, <1>4 DEF WritesPatch, Loaded, HoldsState, Card
<1>6. \A r \in Session :
        cardStates'[r] = IF r = s
                         THEN [cardStates[s] EXCEPT
                                 !.revision = cardStates[s].revision + 1,
                                 !.applied = cardStates[s].applied \cup {t}]
                         ELSE cardStates[r]
  BY <1>1, <1>4, <1>5 DEF WritesPatch, TypeOK
<1>7. LedgerState' = [LedgerState EXCEPT
                        ![s] = [revision |-> @.revision + 1,
                                applied  |-> @.applied \cup {t}]]
  <2>1. \A r \in Session : cardStates[r] \in CardRow
    BY <1>1 DEF TypeOK
  <2>2. \A r \in Session \ {s} : LedgerState'[r] = LedgerState[r]
    BY <1>6 DEF LedgerState
  <2>3. /\ cardStates'[s].revision = cardStates[s].revision + 1
        /\ cardStates'[s].applied = cardStates[s].applied \cup {t}
    BY <1>6, <2>1 DEF CardRow
  <2>4. LedgerState'[s] = [revision |-> cardStates[s].revision + 1,
                           applied  |-> cardStates[s].applied \cup {t}]
    BY <2>3 DEF LedgerState
  <2>5. LedgerState[s] = [revision |-> cardStates[s].revision,
                          applied  |-> cardStates[s].applied]
    BY DEF LedgerState
  <2>6. QED
    BY <2>2, <2>4, <2>5 DEF LedgerState
<1>8. \A r \in Session : t \notin LedgerState[r].applied
  <2>1. t \notin Patched
    BY <1>4 DEF WritesPatch
  <2>2. \A r \in Session : cardStates[r].applied \subseteq Patched
    BY DEF SingleInv, StateIsPatchFold, Receipts, Patched
  <2>3. QED
    BY <2>1, <2>2 DEF LedgerState
<1>9. turnRecords' = turnRecords /\ memory' = memory
  BY MemoryWritten, <1>1 DEF WritesPatch
<1>10. Ledger!Patch(s, t)
  BY <1>7, <1>8, <1>9 DEF Ledger!Patch, LedgerState
<1>11. QED
  BY <1>10 DEF Ledger!Next

LEMMA OneApart ==
  ASSUME NEW a \in Nat, NEW b \in Nat, a <= b, b <= a + 1
  PROVE  a \in {b, b - 1}
  OBVIOUS

LEMMA InsertIsLedgerAppend ==
  ASSUME SingleServer, SingleInv, NEW p \in Server, Act(p),
         pc[p] = "turn insert", job[p].turn \notin Recorded,
         ~\E r \in Rows(job[p].session) : r.index = job[p].index,
         turnRecords' = turnRecords \cup {NewRecord(p)}
  PROVE  Ledger!Next \/ UNCHANGED Ledger!ledgerVars
<1>1. /\ TypeOK /\ Unstored /\ Loaded /\ ResultStored
      /\ IndexRange /\ PendingIndex
  BY DEF SingleInv, SafetyInv
<1>2. job[p] \in Job
  BY <1>1, JobType
<1>3. PICK s \in Session, t \in Turn : s = job[p].session /\ t = job[p].turn
  BY <1>2 DEF Job
<1>4. job[p].index = MaxIndex(s) + 1
  <2>1. ~\E r \in Rows(s) : r.index = job[p].index
    BY <1>3
  <2>2. QED
    BY <1>1, <1>3, <2>1, NewIndexIsLast
<1>5. Ledger!LastIndex(s) = MaxIndex(s)
  BY DEF Ledger!LastIndex, Ledger!Entries, Ledger!Max, MaxIndex, Rows, Max
<1>6. /\ job[p].result = cardStates[s].revision
      /\ job[p].revision \in {cardStates[s].revision, cardStates[s].revision - 1}
      /\ job[p].revision \in Nat
  <2>1. /\ job[p].result = cardStates[s].revision
        /\ job[p].revision <= job[p].result
        /\ job[p].result <= job[p].revision + 1
    BY <1>1, <1>3 DEF ResultStored, HoldsResult, Card
  <2>2. job[p].revision \in Nat /\ job[p].result \in Nat
    BY <1>2 DEF Job
  <2>3. job[p].revision \in {job[p].result, job[p].result - 1}
    BY <2>1, <2>2, OneApart
  <2>4. QED
    BY <2>1, <2>2, <2>3
<1>7. LedgerState[s].revision = cardStates[s].revision
  BY DEF LedgerState
<1>8. NewRecord(p) = [session |-> s, turn |-> t, index |-> MaxIndex(s) + 1,
                      base |-> job[p].revision,
                      result |-> cardStates[s].revision]
  BY <1>3, <1>4, <1>6 DEF NewRecord
<1>9. t \notin Ledger!Logged
  BY <1>3 DEF Ledger!Logged, Recorded
<1>10. LedgerState' = LedgerState
  BY <1>1, CardsAfter DEF WritesPatch, LedgerState
<1>11. memory' = memory
  BY <1>1, MemoryWritten
<1>12. Ledger!Append(s, t)
  BY <1>5, <1>6, <1>7, <1>8, <1>9, <1>10, <1>11 DEF Ledger!Append, LedgerState
<1>13. QED
  BY <1>12 DEF Ledger!Next

LEMMA RestIsLedgerStep ==
  ASSUME SingleServer, SingleInv, NEW p \in Server, Act(p),
         turnRecords' = turnRecords, ~WritesPatch(p)
  PROVE  Ledger!Next \/ UNCHANGED Ledger!ledgerVars
<1>1. TypeOK /\ Unstored /\ Loaded /\ RunsRecorded
  BY DEF SingleInv, SafetyInv
<1>2. LedgerState' = LedgerState
  BY <1>1, CardsAfter DEF LedgerState
<1>3. CASE memory' = memory
  BY <1>2, <1>3 DEF Ledger!ledgerVars, LedgerState
<1>4. CASE ~(memory' = memory)
  <2>1. /\ pc[p] \in {"active commit", "rag commit"}
        /\ \E l \in Layer : memory' = [memory EXCEPT ![l] = @ \cup {job[p].turn}]
    BY <1>1, <1>4, MemoryWritten
  <2>2. job[p] \in Job /\ job[p].turn \in Recorded
    BY <1>1, <2>1, JobType DEF RunsRecorded
  <2>3. PICK t \in Turn : t = job[p].turn
    BY <2>2 DEF Job
  <2>4. PICK l \in Layer : memory' = [memory EXCEPT ![l] = @ \cup {t}]
    BY <2>1, <2>3
  <2>5. Ledger!Remember(l, t)
    BY <1>2, <2>2, <2>3, <2>4 DEF Ledger!Remember, Ledger!Logged, Recorded,
       LedgerState
  <2>6. QED
    BY <2>4, <2>5 DEF Ledger!Next, Layer, Ledger!Layer
<1>5. QED
  BY <1>3, <1>4

(* With one server the engine implements the ledger: despite its separate  *)
(* transactions, crashes and failing writes, card states, turn records and *)
(* memories only change the way TurnLedger allows.                         *)
THEOREM ImplementsLedger ==
  ASSUME SingleServer
  PROVE  Spec => LedgerSpec
<1>1. Init => Ledger!Init
  BY LedgerInit
<1>2. SingleInv /\ [Next]_vars => [Ledger!Next]_(Ledger!ledgerVars)
  <2> SUFFICES ASSUME SingleInv, [Next]_vars
               PROVE  Ledger!Next \/ UNCHANGED Ledger!ledgerVars
    OBVIOUS
  <2>1. CASE UNCHANGED vars
    BY <2>1 DEF vars, tables, Ledger!ledgerVars
  <2>2. CASE Next
    <3>1. PICK p \in Server : Act(p)
      BY <2>2, NextActs
    <3>2. TypeOK
      BY DEF SingleInv, SafetyInv
    <3>3. CASE WritesPatch(p)
      BY <3>1, <3>3, PatchIsLedgerPatch
    <3>4. CASE turnRecords' = turnRecords /\ ~WritesPatch(p)
      BY <3>1, <3>4, RestIsLedgerStep
    <3>5. CASE ~(turnRecords' = turnRecords)
      BY <3>1, <3>2, <3>5, RecordsWritten, InsertIsLedgerAppend
    <3>6. QED
      BY <3>3, <3>4, <3>5
  <2>3. QED
    BY <2>1, <2>2
<1>3. QED
  BY <1>1, <1>2, SingleInvariant, PTL DEF Spec, LedgerSpec, Ledger!Spec

-----------------------------------------------------------------------------
(* The snapshot of the director and the writer, for any number of servers. *)

Early == {"idle", "load", "initialize", "insert", "snapshot"}

LEMMA SnapshotControl ==
  ASSUME TypeOK, NEW p \in Server, Act(p), pc'[p] \notin Early
  PROVE  \/ /\ pc[p] = "snapshot"
            /\ job'[p].revision = job[p].revision
            /\ job'[p].snapshot = Card(p).revision
         \/ /\ pc[p] \notin Early
            /\ job'[p].revision = job[p].revision
            /\ job'[p].snapshot = job[p].snapshot
<1>1. job[p] \in Job /\ Step(p)
  BY ActBusy DEF Early
<1>2. CASE BuildSnapshot(p)
  <2>1. job' = [job EXCEPT ![p].snapshot = Card(p).revision]
    BY <1>2 DEF BuildSnapshot
  <2>2. QED
    BY <1>1, <1>2, <2>1 DEF BuildSnapshot, TypeOK, Job
<1>3. CASE WriteDraft(p)
  <2>1. PICK verdict \in BOOLEAN : job' = [job EXCEPT ![p].accept = verdict]
    BY <1>3 DEF WriteDraft
  <2>2. QED
    BY <1>1, <1>3, <2>1 DEF WriteDraft, TypeOK, Job, Early
<1>4. CASE Curate(p)
  <2>1. PICK proposal \in Proposal :
          job' = [job EXCEPT ![p].proposal = proposal,
                             ![p].result = job[p].revision]
    BY <1>4 DEF Curate
  <2>2. /\ job'[p].revision = job[p].revision
        /\ job'[p].snapshot = job[p].snapshot
    BY <1>1, <2>1 DEF TypeOK, Job
  <2>3. pc[p] \notin Early
    BY <1>4 DEF Curate, Early
  <2>4. QED
    BY <2>2, <2>3
<1>5. CASE RevisionCheck(p)
  <2>1. job' = [job EXCEPT ![p].current = Card(p).revision]
    BY <1>5 DEF RevisionCheck, Return, Goto, TypeOK, Early
  <2>2. QED
    BY <1>1, <1>5, <2>1 DEF RevisionCheck, TypeOK, Job, Early
<1>6. CASE PatchWrite(p)
  <2>1. job' = [job EXCEPT ![p].result = job[p].current + 1]
    BY <1>6 DEF PatchWrite, WritePatch, Return, Goto, TypeOK, Early
  <2>2. QED
    BY <1>1, <1>6, <2>1 DEF PatchWrite, TypeOK, Job, Early
<1>7. CASE TurnIndex(p)
  <2>1. job' = [job EXCEPT ![p].index = MaxIndex(job[p].session) + 1]
    BY <1>7 DEF TurnIndex
  <2>2. QED
    BY <1>1, <1>7, <2>1 DEF TurnIndex, TypeOK, Job, Early
<1>8. ASSUME ~BuildSnapshot(p), ~WriteDraft(p), ~Curate(p), ~RevisionCheck(p),
             ~PatchWrite(p), ~TurnIndex(p)
      PROVE  pc[p] \notin Early /\ job'[p] = job[p]
  BY <1>1, <1>8 DEF Step, LoadFails, LoadState, InitializeLooks,
     InitializeInserts, TakeCardState, GenerationFails, QualityRejects,
     ApplyRaises, DuplicateCheck, TurnCheck, TurnInsert, ActiveCommit,
     RagCommit, Remember, PersistTrace, Return, Goto, TypeOK, Early
<1>9. QED
  BY <1>2, <1>3, <1>4, <1>5, <1>6, <1>7, <1>8

LEMMA CheckControl ==
  ASSUME TypeOK, NEW p \in Server, Act(p), pc'[p] = "patch write"
  PROVE  Card(p).revision = job[p].revision
<1>1. Step(p)
  BY ActBusy
<1>2. RevisionCheck(p)
  BY <1>1 DEF Step, LoadFails, LoadState, InitializeLooks, InitializeInserts,
     TakeCardState, BuildSnapshot, GenerationFails, WriteDraft, QualityRejects,
     Curate, ApplyRaises, DuplicateCheck, PatchWrite, WritePatch, TurnIndex,
     TurnCheck, TurnInsert, ActiveCommit, RagCommit, Remember, PersistTrace,
     Return, Goto, TypeOK
<1>3. QED
  BY <1>2 DEF RevisionCheck, Return, Goto, TypeOK

LEMMA OrderOfRevisions ==
  /\ \A a \in Nat : a <= a
  /\ \A a, b, c \in Nat : a <= b /\ b <= c => a <= c
  /\ \A a, b \in Nat : a <= b /\ b <= a => a = b
OBVIOUS

(* While no update of a session is lost, its receipts come from every      *)
(* revision before the stored one, and a revision that was read is never   *)
(* above the stored one.                                                   *)
ForkFree(s) == \A r, q \in Receipts(s) : r.from = q.from => r = q

Reached(s) ==
  \A k \in Nat : k < cardStates[s].revision => \E r \in Receipts(s) : r.from = k

ReadEarlier(p) ==
  /\ job[p].revision <= Card(p).revision
  /\ pc[p] # "snapshot" => /\ job[p].revision <= job[p].snapshot
                           /\ job[p].snapshot <= Card(p).revision
  /\ pc[p] = "patch write" => /\ job[p].current = job[p].revision
                              /\ job[p].snapshot = job[p].revision

FitsInv ==
  /\ TypeOK
  /\ Unstored
  /\ \A s \in Session : ForkFree(s) => Reached(s)
  /\ \A p \in Server : pc[p] \in HoldsState =>
       /\ Card(p).stored
       /\ ForkFree(job[p].session) => ReadEarlier(p)

(* Under the invariant the revision of a session without lost updates only *)
(* grows.                                                                  *)
LEMMA RevisionGrows ==
  ASSUME FitsInv, NEW p \in Server, Act(p), NEW s \in Session
  PROVE  /\ cardStates[s].stored => cardStates'[s].stored
         /\ ~cardStates'[s].stored =>
              cardStates'[s].revision = 0 /\ cardStates'[s].applied = {}
         /\ ForkFree(s)' =>
              /\ ForkFree(s) /\ Reached(s)'
              /\ cardStates[s].revision <= cardStates'[s].revision
<1>0. TypeOK /\ cardStates[s].revision \in Nat
  BY DEF FitsInv, TypeOK, CardRow
<1>1. CASE UNCHANGED <<cardStates, patchReceipts>>
  BY <1>0, <1>1 DEF FitsInv, Unstored, ForkFree, Reached, Receipts
<1>2. CASE InsertsRow(p)
  <2>1. job[p] \in Job /\ job[p].session \in Session
    BY <1>0, <1>2, JobType DEF InsertsRow, Job
  <2>2. cardStates'[s] = IF s = job[p].session
                         THEN [stored |-> TRUE, revision |-> 0, applied |-> {}]
                         ELSE cardStates[s]
    BY <1>0, <1>2, <2>1 DEF InsertsRow, TypeOK
  <2>3. s = job[p].session => cardStates[s].revision = 0
    BY <1>2 DEF InsertsRow, FitsInv, Unstored, Card
  <2>4. cardStates'[s].revision = cardStates[s].revision
    BY <2>2, <2>3
  <2>5. Receipts(s)' = Receipts(s)
    BY <1>2 DEF InsertsRow, Receipts
  <2>6. /\ cardStates[s].stored => cardStates'[s].stored
        /\ ~cardStates'[s].stored =>
              cardStates'[s].revision = 0 /\ cardStates'[s].applied = {}
    BY <2>2 DEF FitsInv, Unstored
  <2>7. QED
    BY <1>0, <2>4, <2>5, <2>6 DEF FitsInv, ForkFree, Reached
<1>3. CASE WritesPatch(p)
  <2>1. job[p] \in Job /\ job[p].session \in Session /\ job[p].current \in Nat
    BY <1>0, <1>3, JobType DEF WritesPatch, Job
  <2>2. CASE s # job[p].session
    <3>1. cardStates'[s] = cardStates[s] /\ Receipts(s)' = Receipts(s)
      BY <1>0, <1>3, <2>1, <2>2, ReceiptsAfter DEF WritesPatch, TypeOK
    <3>2. QED
      BY <1>0, <3>1 DEF FitsInv, Unstored, ForkFree, Reached
  <2>3. CASE s = job[p].session
    <3> DEFINE c == job[p].current
               n == cardStates[s].revision
    <3>1. cardStates'[s] = [cardStates[s] EXCEPT !.revision = c + 1,
                                 !.applied = job[p].applied \cup {job[p].turn}]
      BY <1>0, <1>3, <2>1, <2>3 DEF WritesPatch, TypeOK
    <3>2. /\ cardStates'[s].revision = c + 1
          /\ cardStates'[s].stored = cardStates[s].stored /\ cardStates[s].stored
      <4>1. cardStates[s] \in CardRow
        BY <1>0 DEF TypeOK
      <4>2. cardStates[s].stored
        BY <1>3, <2>3 DEF FitsInv, WritesPatch, HoldsState, Card
      <4>3. QED
        BY <3>1, <4>1, <4>2 DEF CardRow
    <3>3. Receipts(s)' = Receipts(s) \cup {PatchRow(p)} /\ PatchRow(p).from = c
      BY <1>3, <2>3, ReceiptsAfter DEF PatchRow
    <3>4. PatchRow(p) \notin Receipts(s)
      <4>1. job[p].turn \notin Patched /\ PatchRow(p).turn = job[p].turn
        BY <1>3 DEF WritesPatch, PatchRow
      <4>2. \A r \in Receipts(s) : r.turn \in Patched
        BY DEF Receipts, Patched
      <4>3. QED
        BY <4>1, <4>2
    <3>5. ASSUME ForkFree(s)'
          PROVE  ForkFree(s) /\ Reached(s)' /\ n <= c + 1
      <4>1. ForkFree(s)
        BY <3>3, <3>5 DEF ForkFree
      <4>2. Reached(s) /\ c <= n
        BY <1>3, <2>3, <4>1 DEF FitsInv, WritesPatch, HoldsState, ReadEarlier, Card
      <4>3. \A r \in Receipts(s) : r.from # c
        BY <3>3, <3>4, <3>5 DEF ForkFree
      <4>4. ~(c < n)
        BY <2>1, <4>2, <4>3 DEF Reached
      <4>5. c = n
        BY <1>0, <2>1, <4>2, <4>4
      <4>6. ASSUME NEW k \in Nat, k < c + 1
            PROVE  \E r \in Receipts(s)' : r.from = k
        <5>1. k < n \/ k = c
          BY <1>0, <2>1, <4>5, <4>6
        <5>2. QED
          BY <3>3, <4>2, <5>1 DEF Reached
      <4>7. Reached(s)'
        BY <3>2, <4>6 DEF Reached
      <4>8. QED
        BY <1>0, <2>1, <4>1, <4>5, <4>7
    <3>6. QED
      BY <3>2, <3>5
  <2>4. QED
    BY <2>2, <2>3
<1>4. QED
  BY <1>0, <1>1, <1>2, <1>3, CardWritten

LEMMA FitsStep ==
  ASSUME FitsInv, TypeOK', NEW p \in Server, Act(p)
  PROVE  FitsInv'
<1>0. TypeOK
  BY DEF FitsInv
<1>1. Unstored' /\ \A s \in Session : ForkFree(s)' => Reached(s)'
  BY RevisionGrows DEF Unstored
<1>2. ASSUME NEW q \in Server \ {p}, pc'[q] \in HoldsState
      PROVE  /\ Card(q).stored'
             /\ ForkFree(job[q].session)' => ReadEarlier(q)'
  <2>1. pc'[q] = pc[q] /\ job'[q] = job[q]
    BY <1>0, <1>2, Locality
  <2>2. /\ job[q] \in Job /\ job[q].session \in Session /\ Card(q) \in CardRow
        /\ {job[q].revision, job[q].snapshot, Card(q).revision} \subseteq Nat
    BY <1>0, <1>2, <2>1, JobType DEF HoldsState, Job, CardRow
  <2>3. Card(q)' = cardStates'[job[q].session] /\ Card(q).revision' \in Nat
    BY <2>1, <2>2 DEF Card, TypeOK, CardRow
  <2>4. /\ Card(q).stored
        /\ ForkFree(job[q].session) => ReadEarlier(q)
    BY <1>2, <2>1 DEF FitsInv
  <2>5. /\ Card(q).stored => Card(q).stored'
        /\ ForkFree(job[q].session)' =>
             /\ ForkFree(job[q].session)
             /\ Card(q).revision <= Card(q).revision'
    BY <2>1, <2>2, <2>3, RevisionGrows DEF Card, ForkFree
  <2>6. ASSUME ForkFree(job[q].session)'
        PROVE  ReadEarlier(q)'
    <3>1. ReadEarlier(q) /\ Card(q).revision <= Card(q).revision'
      BY <2>4, <2>5, <2>6
    <3>2. \A n \in Nat : n <= Card(q).revision => n <= Card(q).revision'
      BY <2>2, <2>3, <3>1, OrderOfRevisions
    <3>3. QED
      BY <2>1, <2>2, <3>1, <3>2, Zenon DEF ReadEarlier
  <2>7. QED
    BY <2>4, <2>5, <2>6
<1>3. ASSUME pc'[p] \in HoldsState
      PROVE  /\ Card(p).stored'
             /\ ForkFree(job[p].session)' => ReadEarlier(p)'
  <2>1. /\ job[p] \in Job /\ Card(p) \in CardRow /\ job'[p].session = job[p].session
        /\ job'[p] \in Job
        /\ ReadsState(p) \/ InsertsState(p) \/ KeepsState(p)
    BY <1>0, <1>3, ActBusy, HoldsControl, JobType DEF HoldsState, TypeOK
  <2>2. CASE ReadsState(p)
    <3>1. Card(p)' = Card(p)
      BY <2>1, <2>2 DEF Card, ReadsState, tables
    <3>2. QED
      BY <2>1, <2>2, <3>1 DEF ReadsState, ReadEarlier, CardRow
  <2>3. CASE InsertsState(p)
    <3>1. Card(p)' = [stored |-> TRUE, revision |-> 0, applied |-> {}]
      BY <1>0, <2>1, <2>3 DEF Card, InsertsState, TypeOK, Job
    <3>2. QED
      BY <2>3, <3>1 DEF InsertsState, ReadEarlier
  <2>4. CASE KeepsState(p)
    <3>1. /\ Card(p)' = Card(p)
          /\ ForkFree(job[p].session)' => ForkFree(job[p].session)
      BY <2>1, <2>4 DEF Card, KeepsState, tables, ForkFree, Receipts
    <3>2. /\ Card(p).stored
          /\ ForkFree(job[p].session) => ReadEarlier(p)
      BY <2>4 DEF FitsInv, KeepsState
    <3>3. {job[p].revision, job[p].snapshot, Card(p).revision} \subseteq Nat
      BY <2>1 DEF Job, CardRow
    <3>4. ASSUME ForkFree(job[p].session)'
          PROVE  ReadEarlier(p)'
      <4>1. ReadEarlier(p)
        BY <3>1, <3>2, <3>4
      <4>2. /\ job'[p].revision = job[p].revision
            /\ job[p].revision <= Card(p).revision
        BY <2>4, <4>1 DEF KeepsState, ReadEarlier
      <4>3. ASSUME pc'[p] # "snapshot"
            PROVE  /\ job[p].revision <= job'[p].snapshot
                   /\ job'[p].snapshot <= Card(p).revision
        <5>1. pc'[p] \notin Early
          BY <1>3, <4>3 DEF HoldsState, Early
        <5>2. \/ job'[p].snapshot = Card(p).revision
              \/ pc[p] # "snapshot" /\ job'[p].snapshot = job[p].snapshot
          BY <1>0, <5>1, SnapshotControl DEF Early
        <5>3. QED
          BY <3>3, <4>1, <4>2, <5>2, OrderOfRevisions, Zenon DEF ReadEarlier
      <4>4. ASSUME pc'[p] = "patch write"
            PROVE  /\ job'[p].current = job[p].revision
                   /\ job'[p].snapshot = job[p].revision
        <5>1. Card(p).revision = job[p].revision
          BY <1>0, <4>4, CheckControl
        <5>2. job'[p].current = Card(p).revision
          BY <2>4, <4>4 DEF KeepsState
        <5>3. job'[p].snapshot \in Nat
          BY <2>1 DEF Job
        <5>4. /\ job[p].revision <= job'[p].snapshot
              /\ job'[p].snapshot <= job[p].revision
          BY <4>3, <4>4, <5>1
        <5>5. QED
          BY <3>3, <5>1, <5>2, <5>3, <5>4, OrderOfRevisions, Zenon
      <4>5. QED
        BY <3>1, <4>2, <4>3, <4>4 DEF ReadEarlier
    <3>5. QED
      BY <3>1, <3>2, <3>4
  <2>5. QED
    BY <2>1, <2>2, <2>3, <2>4
<1>4. QED
  BY <1>1, <1>2, <1>3 DEF FitsInv

(* A patch is written only by a turn whose text comes from the state the   *)
(* patch is for, unless an update of the session was lost before: for any  *)
(* number of servers, with crashes and failing writes.                     *)
THEOREM PatchesFitSnapshots == Spec => []PatchFitsSnapshot
<1>1. SafetyInv /\ Init => FitsInv
  BY DEF SafetyInv, Init, FitsInv, Unstored, Reached, HoldsState
<1>2. SafetyInv /\ SafetyInv' /\ FitsInv /\ [Next]_vars => FitsInv'
  <2>1. SUFFICES ASSUME SafetyInv, SafetyInv', FitsInv, [Next]_vars PROVE FitsInv'
    OBVIOUS
  <2>2. CASE Next
    <3>1. PICK p \in Server : Act(p)
      BY <2>2, NextActs
    <3>2. QED
      BY <2>1, <3>1, FitsStep DEF SafetyInv
  <2>3. CASE UNCHANGED vars
    <3>1. UNCHANGED <<cardStates, patchReceipts, pc, job>> /\ TypeOK'
      BY <2>1, <2>3 DEF vars, tables, SafetyInv
    <3>2. Unstored' /\ \A s \in Session : ForkFree(s)' => Reached(s)'
      BY <2>1, <3>1 DEF FitsInv, Unstored, ForkFree, Reached, Receipts
    <3>3. \A p \in Server : pc'[p] \in HoldsState =>
            /\ Card(p).stored'
            /\ ForkFree(job[p].session)' => ReadEarlier(p)'
      BY <2>1, <3>1, ZenonT(40) DEF FitsInv, ForkFree, Receipts, ReadEarlier, Card
    <3>4. QED
      BY <3>1, <3>2, <3>3 DEF FitsInv
  <2>4. QED
    BY <2>1, <2>2, <2>3
<1>3. FitsInv => PatchFitsSnapshot
  <2>1. SUFFICES ASSUME FitsInv, NEW p \in Server, pc[p] = "patch write",
                        ForkFree(job[p].session)
                 PROVE  job[p].snapshot = job[p].revision
    BY DEF PatchFitsSnapshot, ForkFree
  <2>2. QED
    BY <2>1 DEF FitsInv, HoldsState, ReadEarlier
<1>4. QED
  BY <1>1, <1>2, <1>3, SafetyInvariant, PTL DEF Spec

=============================================================================
