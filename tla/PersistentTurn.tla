--------------------------- MODULE PersistentTurn ---------------------------
(***************************************************************************)
(* The persistent turn engine and the SQLite stores it commits to.         *)
(*                                                                         *)
(* A server is one operating-system process: it owns one connection to the *)
(* shared database file and runs one turn node at a time, so the only      *)
(* interleavings are those of several servers over one file, of a server   *)
(* with its own earlier, crashed attempts, and of clients that send a turn *)
(* id again.  Every action is one database statement or transaction        *)
(* together with the decisions the code takes on its result.               *)
(***************************************************************************)
EXTENDS Integers, FiniteSetsExt

CONSTANTS
  Server,    \* processes that opened the database file
  Session,   \* session ids
  Bound,     \* sessions with a ready binding, opening and worldbook binding
  Turn,      \* turn ids
  NoJob,     \* the local variables of a server that runs nothing
  MaxRuns,   \* bound of the model: node executions started
  Faults     \* what may go wrong: "crash", "raise" (a write statement fails)

ASSUME BoundAssumption == Bound \subseteq Session
ASSUME MaxRunsAssumption == MaxRuns \in Nat
ASSUME FaultsAssumption == Faults \subseteq {"crash", "raise"}

VARIABLES
  cardStates,    \* cardStates[s]: row of table card_states
  patchReceipts, \* rows of card_state_patch_receipts
  turnRecords,   \* rows of turn_records
  memory,        \* memory[layer]: turns with candidates stored in that layer
  pc,            \* pc[p]: the statement server p executes next
  job,           \* job[p]: the local variables of the execution p runs
  reply,         \* reply[p]: how the last execution of p ended
  runs,          \* executions started, bounds the model
  accepted,      \* history: turns an execution of which passed the gate
  cut            \* history: turns an execution of which died or could not be
                 \* recorded

tables == <<cardStates, patchReceipts, turnRecords, memory>>
vars == <<tables, pc, job, reply, runs, accepted, cut>>

Layer == {"active", "rag"}

(* The curator's proposal: whether it carries patch operations, the layers *)
(* it has candidates for, and whether the plan compiled from them passes   *)
(* MemoryPolicy.validate_commit_plan (one plan serves both layers).        *)
Proposal == [change: BOOLEAN, layers: SUBSET Layer, valid: BOOLEAN]

NoProposal == [change |-> FALSE, layers |-> {}, valid |-> TRUE]

Job == [session: Session, turn: Turn,
        revision: Nat,         \* card_state.revision, read by the load
        applied: SUBSET Turn,  \* content of that card_state
        snapshot: Nat,         \* snapshot.base_card_state_revision
        accept: BOOLEAN,       \* quality_decision.allows_side_effects()
        proposal: Proposal,
        current: Nat,          \* current_revision of the commit
        result: Nat,           \* result_revision
        index: Nat]            \* next_turn_index

ASSUME NoJobAssumption == NoJob \notin Job

PC == {"idle", "load", "initialize", "insert", "snapshot", "generate", "gate",
       "duplicate check", "revision check", "patch write", "turn index",
       "turn check", "turn insert", "active commit", "rag commit", "trace"}

Reply == {"none", "replayed", "session binding conflict", "load failed",
          "exception", "generation failed", "quality rejected",
          "duplicate patch", "revision conflict", "validation failed",
          "internal error", "duplicate turn", "turn failed", "success",
          "crashed"}

Rows(s) == {r \in turnRecords : r.session = s}

Recorded == {r.turn : r \in turnRecords}

Patched == {r.turn : r \in patchReceipts}

(* MAX(turn_index) over the session, 0 when it has no row.                 *)
MaxIndex(s) == Max({r.index : r \in Rows(s)} \cup {0})

Init ==
  /\ cardStates = [s \in Session |->
                     [stored |-> FALSE, revision |-> 0, applied |-> {}]]
  /\ patchReceipts = {}
  /\ turnRecords = {}
  /\ memory = [l \in Layer |-> {}]
  /\ pc = [p \in Server |-> "idle"]
  /\ job = [p \in Server |-> NoJob]
  /\ reply = [p \in Server |-> "none"]
  /\ runs = 0
  /\ accepted = {}
  /\ cut = {}

Goto(p, label) == pc' = [pc EXCEPT ![p] = label]

(* The node returns to its caller: nothing local survives.                 *)
Return(p, answer) ==
  /\ Goto(p, "idle")
  /\ job' = [job EXCEPT ![p] = NoJob]
  /\ reply' = [reply EXCEPT ![p] = answer]

-----------------------------------------------------------------------------
(* The turn node: idempotent replay, or a fresh execution.                 *)

(* turn_record_store.load(turn_id) finds a row: the turn is replayed for   *)
(* its own session and refused for any other, and nothing is written.      *)
Replay(p, s, t) ==
  /\ pc[p] = "idle"
  /\ t \in Recorded
  /\ Return(p, IF s \in Bound /\ \E r \in Rows(s) : r.turn = t
               THEN "replayed" ELSE "session binding conflict")
  /\ UNCHANGED <<tables, runs, accepted, cut>>

Begin(p, s, t) ==
  /\ pc[p] = "idle"
  /\ t \notin Recorded
  /\ runs < MaxRuns
  /\ runs' = runs + 1
  /\ job' = [job EXCEPT ![p] =
              [session |-> s, turn |-> t, revision |-> 0, applied |-> {},
               snapshot |-> 0, accept |-> FALSE, proposal |-> NoProposal,
               current |-> 0, result |-> 0, index |-> 0]]
  /\ reply' = [reply EXCEPT ![p] = "none"]
  /\ Goto(p, "load")
  /\ UNCHANGED <<tables, accepted, cut>>

(* SessionRuntimeLoad.load up to the first read of the card state.         *)
Card(p) == cardStates[job[p].session]

TakeCardState(p) ==
  /\ job' = [job EXCEPT ![p].revision = Card(p).revision,
                        ![p].applied = Card(p).applied]
  /\ Goto(p, "snapshot")
  /\ UNCHANGED reply

LoadFails(p) ==
  /\ pc[p] = "load"
  /\ job[p].session \notin Bound
  /\ Return(p, "load failed")
  /\ UNCHANGED <<tables, runs, accepted, cut>>

LoadState(p) ==
  /\ pc[p] = "load"
  /\ job[p].session \in Bound
  /\ IF Card(p).stored
     THEN TakeCardState(p)
     ELSE Goto(p, "initialize") /\ UNCHANGED <<job, reply>>
  /\ UNCHANGED <<tables, runs, accepted, cut>>

(* CardStateStore.initialize looks once more before it inserts.            *)
InitializeLooks(p) ==
  /\ pc[p] = "initialize"
  /\ IF Card(p).stored
     THEN TakeCardState(p)
     ELSE Goto(p, "insert") /\ UNCHANGED <<job, reply>>
  /\ UNCHANGED <<tables, runs, accepted, cut>>

(* The insert of revision 0; a row another server inserted meanwhile makes *)
(* it raise, and nothing up to the node catches it.                        *)
InitializeInserts(p) ==
  /\ pc[p] = "insert"
  /\ \/ /\ ~Card(p).stored
        /\ cardStates' = [cardStates EXCEPT ![job[p].session] =
                            [stored |-> TRUE, revision |-> 0, applied |-> {}]]
        /\ job' = [job EXCEPT ![p].revision = 0, ![p].applied = {}]
        /\ Goto(p, "snapshot")
        /\ UNCHANGED reply
     \/ /\ Card(p).stored \/ "raise" \in Faults
        /\ Return(p, "exception")
        /\ UNCHANGED cardStates
  /\ UNCHANGED <<patchReceipts, turnRecords, memory, runs, accepted, cut>>

(* RoundSnapshotBuilder.build reads the card state a second time.          *)
BuildSnapshot(p) ==
  /\ pc[p] = "snapshot"
  /\ job' = [job EXCEPT ![p].snapshot = Card(p).revision]
  /\ Goto(p, "generate")
  /\ UNCHANGED <<tables, reply, runs, accepted, cut>>

-----------------------------------------------------------------------------
(* Director, agents, writer and quality gate: no table of this module is   *)
(* touched until the gate has accepted.                                    *)

GenerationFails(p) ==
  /\ pc[p] = "generate"
  /\ Return(p, "generation failed")
  /\ UNCHANGED <<tables, runs, accepted, cut>>

WriteDraft(p) ==
  /\ pc[p] = "generate"
  /\ \E verdict \in BOOLEAN :
       /\ job' = [job EXCEPT ![p].accept = verdict]
       /\ accepted' = IF verdict THEN accepted \cup {job[p].turn} ELSE accepted
  /\ Goto(p, "gate")
  /\ UNCHANGED <<tables, reply, runs, cut>>

QualityRejects(p) ==
  /\ pc[p] = "gate"
  /\ ~job[p].accept
  /\ Return(p, "quality rejected")
  /\ UNCHANGED <<tables, runs, accepted, cut>>

(* Mutations of Curate: the verdict is not looked at; the result revision  *)
(* is left unset.                                                          *)
CurateWithoutGate(p) ==
  /\ pc[p] = "gate"
  /\ \E proposal \in Proposal :
       /\ job' = [job EXCEPT ![p].proposal = proposal,
                             ![p].result = job[p].revision]
       /\ Goto(p, IF proposal.change THEN "duplicate check" ELSE "turn index")
  /\ UNCHANGED <<tables, reply, runs, accepted, cut>>

CurateWithoutResult(p) ==
  /\ pc[p] = "gate"
  /\ job[p].accept
  /\ \E proposal \in Proposal :
       /\ job' = [job EXCEPT ![p].proposal = proposal]
       /\ Goto(p, IF proposal.change THEN "duplicate check" ELSE "turn index")
  /\ UNCHANGED <<tables, reply, runs, accepted, cut>>

(* TurnEvolutionCurator.curate.  A proposal without operations leaves the  *)
(* card state alone: result_revision is the revision of the load.          *)
Curate(p) ==
  /\ pc[p] = "gate"
  /\ job[p].accept
  /\ \E proposal \in Proposal :
       /\ job' = [job EXCEPT ![p].proposal = proposal,
                             ![p].result = job[p].revision]
       /\ Goto(p, IF proposal.change THEN "duplicate check" ELSE "turn index")
  /\ UNCHANGED <<tables, reply, runs, accepted, cut>>

(* Building the new state raises on an operation the stored value does not *)
(* allow (INCREMENT of a text), after the gate and before any write.       *)
ApplyRaises(p) ==
  /\ pc[p] = "duplicate check"
  /\ Return(p, "exception")
  /\ UNCHANGED <<tables, runs, accepted, cut>>

-----------------------------------------------------------------------------
(* SqliteCardStateStore.commit.  patch_id is derived from the turn id.     *)

DuplicateCheck(p) ==
  /\ pc[p] = "duplicate check"
  /\ IF job[p].turn \in Patched
     THEN Return(p, "duplicate patch")
     ELSE Goto(p, "revision check") /\ UNCHANGED <<job, reply>>
  /\ UNCHANGED <<tables, runs, accepted, cut>>

(* Mutation of RevisionCheck: the commit is built from the snapshot.       *)
RevisionCheckOfSnapshot(p) ==
  /\ pc[p] = "revision check"
  /\ IF Card(p).revision # job[p].snapshot
     THEN Return(p, "revision conflict")
     ELSE /\ job' = [job EXCEPT ![p].current = Card(p).revision]
          /\ Goto(p, "patch write")
          /\ UNCHANGED reply
  /\ UNCHANGED <<tables, runs, accepted, cut>>

(* The stored revision is compared with the one the turn was loaded at,    *)
(* then the operations are validated against the stored state.             *)
RevisionCheck(p) ==
  /\ pc[p] = "revision check"
  /\ \/ /\ Card(p).revision # job[p].revision
        /\ Return(p, "revision conflict")
     \/ /\ Card(p).revision = job[p].revision
        /\ Return(p, "validation failed")
     \/ /\ Card(p).revision = job[p].revision
        /\ job' = [job EXCEPT ![p].current = Card(p).revision]
        /\ Goto(p, "patch write")
        /\ UNCHANGED reply
  /\ UNCHANGED <<tables, runs, accepted, cut>>

(* The transaction: UPDATE card_states, which does not look at the stored  *)
(* revision again, and INSERT of the receipt.                              *)
WritePatch(p, revision, applied, result) ==
  /\ cardStates' = [cardStates EXCEPT ![job[p].session] =
        [@ EXCEPT !.revision = revision, !.applied = applied]]
  /\ patchReceipts' = patchReceipts \cup
        {[turn |-> job[p].turn, session |-> job[p].session,
          from |-> job[p].current, to |-> job[p].current + 1]}
  /\ job' = [job EXCEPT ![p].result = result]
  /\ Goto(p, "turn index")
  /\ UNCHANGED <<turnRecords, memory, reply, runs, accepted, cut>>

(* Mutations of PatchWrite: the new state holds the operations of this     *)
(* turn only; the revision is incremented by the engine and again by the   *)
(* store; the receipt replaces an existing one; result_revision is not     *)
(* taken over.                                                             *)
PatchWriteForgetsState(p) ==
  /\ pc[p] = "patch write" /\ job[p].turn \notin Patched
  /\ WritePatch(p, job[p].current + 1, {job[p].turn}, job[p].current + 1)

PatchWriteBumpsTwice(p) ==
  /\ pc[p] = "patch write" /\ job[p].turn \notin Patched
  /\ WritePatch(p, job[p].current + 2, job[p].applied \cup {job[p].turn},
                job[p].current + 1)

PatchWriteReplaces(p) ==
  /\ pc[p] = "patch write"
  /\ WritePatch(p, job[p].current + 1, job[p].applied \cup {job[p].turn},
                job[p].current + 1)

PatchWriteKeepsResult(p) ==
  /\ pc[p] = "patch write" /\ job[p].turn \notin Patched
  /\ WritePatch(p, job[p].current + 1, job[p].applied \cup {job[p].turn},
                job[p].result)

(* The new state is the loaded one plus this turn's operations.  A receipt *)
(* that exists by now violates the primary key and rolls back.             *)
PatchWrite(p) ==
  /\ pc[p] = "patch write"
  /\ \/ /\ job[p].turn \notin Patched
        /\ WritePatch(p, job[p].current + 1, job[p].applied \cup {job[p].turn},
                      job[p].current + 1)
     \/ /\ job[p].turn \in Patched \/ "raise" \in Faults
        /\ Return(p, "internal error")
        /\ UNCHANGED <<tables, runs, accepted, cut>>

-----------------------------------------------------------------------------
(* SqliteTurnRecordStore: the index is read, then the record is saved.     *)

(* Mutation of TurnIndex: MAX(turn_index) itself.                          *)
TurnIndexWithoutIncrement(p) ==
  /\ pc[p] = "turn index"
  /\ job' = [job EXCEPT ![p].index = MaxIndex(job[p].session)]
  /\ Goto(p, "turn check")
  /\ UNCHANGED <<tables, reply, runs, accepted, cut>>

TurnIndex(p) ==
  /\ pc[p] = "turn index"
  /\ job' = [job EXCEPT ![p].index = MaxIndex(job[p].session) + 1]
  /\ Goto(p, "turn check")
  /\ UNCHANGED <<tables, reply, runs, accepted, cut>>

TurnCheck(p) ==
  /\ pc[p] = "turn check"
  /\ IF job[p].turn \in Recorded
     THEN Return(p, "duplicate turn")
     ELSE Goto(p, "turn insert") /\ UNCHANGED <<job, reply>>
  /\ UNCHANGED <<tables, runs, accepted, cut>>

NewRecord(p) ==
  [session |-> job[p].session, turn |-> job[p].turn, index |-> job[p].index,
   base |-> job[p].revision, result |-> job[p].result]

(* Mutations of TurnInsert: no unique index over (session, turn_index); a  *)
(* failed save does not return.                                            *)
TurnInsertWithoutIndex(p) ==
  /\ pc[p] = "turn insert"
  /\ job[p].turn \notin Recorded
  /\ turnRecords' = turnRecords \cup {NewRecord(p)}
  /\ Goto(p, "active commit")
  /\ UNCHANGED <<cardStates, patchReceipts, memory, job, reply, runs, accepted,
                 cut>>

TurnInsertGoesOn(p) ==
  /\ pc[p] = "turn insert"
  /\ turnRecords' = IF \/ job[p].turn \in Recorded
                       \/ \E r \in Rows(job[p].session) : r.index = job[p].index
                    THEN turnRecords
                    ELSE turnRecords \cup {NewRecord(p)}
  /\ Goto(p, "active commit")
  /\ UNCHANGED <<cardStates, patchReceipts, memory, job, reply, runs, accepted,
                 cut>>

(* turn_id is the primary key and (session, turn_index) is unique.         *)
TurnInsert(p) ==
  LET taken == \/ job[p].turn \in Recorded
               \/ \E r \in Rows(job[p].session) : r.index = job[p].index
  IN
  /\ pc[p] = "turn insert"
  /\ \/ /\ ~taken
        /\ turnRecords' = turnRecords \cup {NewRecord(p)}
        /\ Goto(p, "active commit")
        /\ UNCHANGED <<job, reply, cut>>
     \/ /\ taken \/ "raise" \in Faults
        /\ Return(p, "turn failed")
        /\ cut' = IF taken THEN cut ELSE cut \cup {job[p].turn}
        /\ UNCHANGED turnRecords
  /\ UNCHANGED <<cardStates, patchReceipts, memory, runs, accepted>>

-----------------------------------------------------------------------------
(* _run_memory_commit: the active layer, then the RAG layer.  A layer with *)
(* no candidates or an invalid plan writes nothing, and the active layer   *)
(* refuses every plan once it is over its limit (MemoryCommit); an         *)
(* exception leaves some or none of the candidates behind and, in the      *)
(* active layer, skips the RAG layer.  The turn succeeds whatever happens. *)

Remember(p, layer, next) ==
  LET writes == layer \in job[p].proposal.layers /\ job[p].proposal.valid
      stored == [memory EXCEPT ![layer] = @ \cup {job[p].turn}]
  IN
  /\ \/ /\ memory' = IF writes THEN stored ELSE memory
        /\ Goto(p, next)
     \/ /\ writes /\ layer = "active"
        /\ Goto(p, next)
        /\ UNCHANGED memory
     \/ /\ writes /\ "raise" \in Faults
        /\ memory' \in {memory, stored}
        /\ Goto(p, "trace")
  /\ UNCHANGED <<cardStates, patchReceipts, turnRecords, job, reply, runs,
                 accepted, cut>>

ActiveCommit(p) == pc[p] = "active commit" /\ Remember(p, "active", "rag commit")

RagCommit(p) == pc[p] = "rag commit" /\ Remember(p, "rag", "trace")

(* _persist_trace swallows its exceptions; the receipt is returned.        *)
PersistTrace(p) ==
  /\ pc[p] = "trace"
  /\ Return(p, "success")
  /\ UNCHANGED <<tables, runs, accepted, cut>>

-----------------------------------------------------------------------------
(* The process dies between two statements; SQLite drops what was not      *)
(* committed, so only the local state is lost.                             *)
Crash(p) ==
  /\ "crash" \in Faults
  /\ pc[p] # "idle"
  /\ Return(p, "crashed")
  /\ cut' = cut \cup {job[p].turn}
  /\ UNCHANGED <<tables, runs, accepted>>

Step(p) ==
  \/ LoadFails(p) \/ LoadState(p) \/ InitializeLooks(p) \/ InitializeInserts(p)
  \/ BuildSnapshot(p) \/ GenerationFails(p) \/ WriteDraft(p)
  \/ QualityRejects(p) \/ Curate(p) \/ ApplyRaises(p)
  \/ DuplicateCheck(p) \/ RevisionCheck(p) \/ PatchWrite(p)
  \/ TurnIndex(p) \/ TurnCheck(p) \/ TurnInsert(p)
  \/ ActiveCommit(p) \/ RagCommit(p) \/ PersistTrace(p)

Next ==
  \E p \in Server :
    \/ \E s \in Session, t \in Turn : Replay(p, s, t) \/ Begin(p, s, t)
    \/ Step(p)
    \/ Crash(p)

Spec == Init /\ [][Next]_vars

(* A node execution is a sequential program: once begun it goes on.        *)
FairSpec == Spec /\ \A p \in Server : WF_vars(Step(p))

-----------------------------------------------------------------------------
(* Every variable has its type; a server has local variables exactly while *)
(* an execution is under way.                                              *)
CardRow == [stored: BOOLEAN, revision: Nat, applied: SUBSET Turn]

Receipt == [turn: Turn, session: Session, from: Nat, to: Nat]

Record == [session: Session, turn: Turn, index: Nat, base: Nat, result: Nat]

TypeOK ==
  /\ cardStates \in [Session -> CardRow]
  /\ patchReceipts \subseteq Receipt
  /\ turnRecords \subseteq Record
  /\ memory \in [Layer -> SUBSET Turn]
  /\ pc \in [Server -> PC]
  /\ job \in [Server -> Job \cup {NoJob}]
  /\ \A p \in Server : (pc[p] = "idle") <=> (job[p] = NoJob)
  /\ reply \in [Server -> Reply]
  /\ runs \in 0..MaxRuns
  /\ accepted \subseteq Turn
  /\ cut \subseteq Turn

(* Properties for any number of servers, crashes and failing writes.       *)

(* The turn indices of a session are 1, 2, ... without a gap and without a *)
(* repetition, although the index is read in one statement and inserted in *)
(* a later one (get_next_turn_index, save).                                *)
IndexDense ==
  \A s \in Session :
    /\ \A r \in Rows(s) : \A i \in 1..r.index : \E q \in Rows(s) : q.index = i
    /\ \A r, q \in Rows(s) : r.index = q.index => r = q

(* A turn id changes a card state at most once and is recorded at most     *)
(* once, over all sessions, however often it is sent and whichever servers *)
(* run it at the same time.                                                *)
TurnTakesEffectOnce ==
  /\ \A r, q \in patchReceipts : r.turn = q.turn => r = q
  /\ \A r, q \in turnRecords : r.turn = q.turn => r = q

(* The quality gate is the only way to a write: a turn no execution of     *)
(* which was accepted leaves no patch, no record and no memory.            *)
GateBeforeWrites ==
  Patched \cup Recorded \cup memory["active"] \cup memory["rag"] \subseteq accepted

(* Memories only come from turns that are in the turn records, so a failed *)
(* or crashed commit never leaves a memory of a turn that did not happen.  *)
MemoryFollowsRecord == memory["active"] \cup memory["rag"] \subseteq Recorded

(* Properties of one server, with crashes and failing writes.              *)

Receipts(s) == {r \in patchReceipts : r.session = s}

(* The stored card state holds the patches of its receipts, all of them    *)
(* and no other: no committed patch is ever overwritten by a later one.    *)
StateIsPatchFold ==
  \A s \in Session : cardStates[s].applied = {r.turn : r \in Receipts(s)}

(* The receipts of a session lead from revision 0 to the stored revision,  *)
(* each from one revision to the next.                                     *)
RevisionChain ==
  \A s \in Session :
    /\ {r.to : r \in Receipts(s)} = 1..cardStates[s].revision
    /\ \A r \in Receipts(s) : r.to = r.from + 1
    /\ \A r, q \in Receipts(s) : r.to = q.to => r = q

(* The turn records of a session are in revision order: a later turn was   *)
(* written from a state that has every earlier turn in it.                 *)
RecordsInRevisionOrder ==
  \A s \in Session :
    /\ \A r, q \in Rows(s) : r.index < q.index => r.result <= q.base
    /\ \A r \in Rows(s) : r.base <= r.result /\ r.result <= cardStates[s].revision

(* The load reads the card state for the commit, the snapshot reads it     *)
(* again for director and writer, and another server may commit in         *)
(* between.  A patch is written nevertheless only by a turn whose text     *)
(* comes from the state the patch is for, until an update of the session   *)
(* is lost (two receipts from one revision) and its revision moves back.   *)
PatchFitsSnapshot ==
  \A p \in Server :
    /\ pc[p] = "patch write"
    /\ \A r, q \in Receipts(job[p].session) : r.from = q.from => r = q
    => job[p].snapshot = job[p].revision

(* A turn is recorded at the revision the session has at that moment,      *)
(* whether its proposal changed the state or not.                          *)
RecordedAtCurrentRevision ==
  [][\A r \in turnRecords' \ turnRecords :
       r.result = cardStates[r.session].revision]_vars

(* The engine implements the ledger: state, log and memories change as if  *)
(* each were updated in one step.                                          *)
Ledger == INSTANCE TurnLedger WITH
  state <- [s \in Session |-> [revision |-> cardStates[s].revision,
                               applied  |-> cardStates[s].applied]],
  log <- turnRecords,
  remembered <- memory

LedgerSpec == Ledger!Spec

(* Properties of one server and the turns that were never cut short,       *)
(* whatever happened to the others.                                        *)

(* The record of a turn names the revisions of its patch: base_revision,   *)
(* result_revision and the receipt say the same, and a turn without patch  *)
(* has the same revision twice.  No state changes without its turn: a      *)
(* committed patch whose turn is not in the turn records belongs to an     *)
(* execution that is still under way.                                      *)
TurnsMatchPatches ==
  /\ \A r \in {q \in turnRecords : q.turn \notin cut} :
       IF r.turn \in Patched
       THEN [turn |-> r.turn, session |-> r.session, from |-> r.base,
             to |-> r.result] \in patchReceipts
       ELSE r.base = r.result
  /\ \A r \in patchReceipts :
       \/ r.turn \in Recorded \cup cut
       \/ \E p \in Server : pc[p] # "idle" /\ job[p].turn = r.turn

(* A patch_id sent again gives the result of the first time: the retry of  *)
(* a turn is not told that its patch is a duplicate while the turn itself  *)
(* is not in the turn records.                                             *)
RetryGivesSameResult ==
  [][\A p \in Server :
       reply'[p] = "duplicate patch" /\ reply[p] # "duplicate patch"
         => job[p].turn \in Recorded]_vars

(* Every execution ends with an answer, and an accepted one whose patch is *)
(* written in a session of its own ends with the turn recorded.            *)
RequestAnswered ==
  \A p \in Server :
    /\ (pc[p] = "load") ~> (pc[p] = "idle")
    /\ \A t \in Turn :
         (pc[p] = "turn index" /\ job[p].turn = t) ~> (t \in Recorded \cup cut)

=============================================================================
