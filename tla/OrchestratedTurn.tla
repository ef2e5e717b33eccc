--------------------------- MODULE OrchestratedTurn ---------------------------
(***************************************************************************)
(* TurnOrchestrator.execute_turn around its sub-agents: the snapshot, the  *)
(* loop of writer and critic, then state, record and memory, committed one *)
(* after the other.  Other turns of the session commit to the same card    *)
(* state: each compares and writes, in this order but not in one step.     *)
(***************************************************************************)
EXTENDS Integers

CONSTANTS
  MaxRetries, \* max_retries of the orchestrator
  Rival,      \* the other turns of the session
  NoRecord    \* the turn has no record

ASSUME OrchestratorAssumption == MaxRetries \in Nat

VARIABLES
  turnStage, \* where execute_turn is
  base,      \* revision of the snapshot
  retries,   \* retry_count
  verdict,   \* verdict of the last quality decision
  operations,\* does the patch have operations
  loaded,    \* the state CardStateCommitRuntime built the new state from
  state,     \* the stored card state and whose changes it holds
  record,    \* the turn's record: revisions before and after
  memory,    \* layers the turn's memories are stored in
  outcome,   \* how execute_turn ended
  rivalStage,  \* where the commit of another turn is
  rivalLoaded, \* the state it was built from
  overlap      \* history: a turn wrote while another had compared, not yet written

rivals == <<rivalStage, rivalLoaded, overlap>>
turnVars == <<turnStage, base, retries, verdict, operations, loaded, state, record,
              memory, outcome, rivals>>

TurnStage == {"waiting", "agents", "writing", "checking", "proposing", "loading",
              "committing", "storing", "recording", "active memory", "rag memory", "ended"}
RivalStage == {"away", "loaded", "compared", "done"}
Verdict == {"none", "accept", "revise", "reject"}
TurnOutcome == {"none", "success", "rejected", "commit failed", "exception"}

(* Revision, is the turn's patch in it, and how many other turns' are.     *)
CardState == [revision: Nat, mine: BOOLEAN, others: Nat]

RecordRevisions == [before: Nat, after: Nat]

ASSUME NoRecordAssumption == NoRecord \notin RecordRevisions

TurnInit ==
  /\ turnStage = "waiting"
  /\ base = 0
  /\ retries = 0
  /\ verdict = "none"
  /\ operations = FALSE
  /\ state = [revision |-> 0, mine |-> FALSE, others |-> 0]
  /\ loaded = state
  /\ record = NoRecord
  /\ memory = {}
  /\ outcome = "none"
  /\ rivalStage = [r \in Rival |-> "away"]
  /\ rivalLoaded = [r \in Rival |-> state]
  /\ overlap = FALSE

End(how) == turnStage' = "ended" /\ outcome' = how

-----------------------------------------------------------------------------
BuildSnapshot ==
  /\ turnStage = "waiting"
  /\ base' = state.revision
  /\ turnStage' = "agents"
  /\ UNCHANGED <<retries, verdict, operations, loaded, state, record, memory, outcome, rivals>>

(* The sub-agents are done.                                                *)
StartWriting ==
  /\ turnStage = "agents"
  /\ turnStage' = "writing"
  /\ UNCHANGED <<base, retries, verdict, operations, loaded, state, record, memory, outcome, rivals>>

Write ==
  /\ turnStage = "writing"
  /\ turnStage' = "checking"
  /\ UNCHANGED <<base, retries, verdict, operations, loaded, state, record, memory, outcome, rivals>>

Accept ==
  /\ turnStage = "checking"
  /\ verdict' = "accept"
  /\ turnStage' = "proposing"
  /\ UNCHANGED <<base, retries, operations, loaded, state, record, memory, outcome, rivals>>

(* QualityDecision.can_retry; the provider may forbid a retry.             *)
CanRetry(allowed) == allowed /\ retries < MaxRetries

(* Mutation of Retry: the loop counts only in the decision.                *)
RetryUncounted(allowed) ==
  /\ turnStage = "checking" /\ CanRetry(allowed)
  /\ verdict' = "revise"
  /\ turnStage' = "writing"
  /\ UNCHANGED <<base, retries, operations, loaded, state, record, memory, outcome, rivals>>

(* The writer runs again, with the arguments of the first time.            *)
Retry(allowed) ==
  /\ turnStage = "checking" /\ CanRetry(allowed)
  /\ verdict' = "revise"
  /\ retries' = retries + 1
  /\ turnStage' = "writing"
  /\ UNCHANGED <<base, operations, loaded, state, record, memory, outcome, rivals>>

(* The provider rejects, or asks for a revision that is not to be had.  A  *)
(* text that fails the critic's own checks raises instead: the decision    *)
(* has no rejection_reasons to extend.                                     *)
Reject(answer, allowed) ==
  /\ turnStage = "checking"
  /\ answer = "reject" \/ (answer = "revise" /\ ~CanRetry(allowed))
  /\ verdict' = answer
  /\ End("rejected")
  /\ UNCHANGED <<base, retries, operations, loaded, state, record, memory, rivals>>

-----------------------------------------------------------------------------
(* Operations of a type the runtime does not know are dropped; without any *)
(* the state is not committed.                                             *)
Propose(some) ==
  /\ turnStage = "proposing"
  /\ operations' = some
  /\ turnStage' = IF some THEN "loading" ELSE "recording"
  /\ UNCHANGED <<base, retries, verdict, loaded, state, record, memory, outcome, rivals>>

(* CardStateCommitRuntime builds the new state from the one it loads...    *)
LoadState ==
  /\ turnStage = "loading"
  /\ loaded' = state
  /\ turnStage' = "committing"
  /\ UNCHANGED <<base, retries, verdict, operations, state, record, memory, outcome, rivals>>

(* Mutation of CheckState: the revision loaded last is the one expected.   *)
CheckLoaded(valid) ==
  /\ turnStage = "committing"
  /\ IF valid /\ state.revision = loaded.revision
     THEN turnStage' = "storing" /\ UNCHANGED outcome
     ELSE End("commit failed")
  /\ UNCHANGED <<base, retries, verdict, operations, loaded, state, record, memory, rivals>>

(* ... the store compares the revision it finds with that of the snapshot  *)
(* and validates the patch ...                                             *)
CheckState(valid) ==
  /\ turnStage = "committing"
  /\ IF valid /\ state.revision = base
     THEN turnStage' = "storing" /\ UNCHANGED outcome
     ELSE End("commit failed")
  /\ UNCHANGED <<base, retries, verdict, operations, loaded, state, record, memory, rivals>>

Compared == {r \in Rival : rivalStage[r] = "compared"}

(* ... and replaces the row without comparing again, unless the database   *)
(* refuses.                                                                *)
WriteState ==
  /\ turnStage = "storing"
  /\ \/ /\ state' = [revision |-> base + 1, mine |-> TRUE, others |-> loaded.others]
        /\ overlap' = (overlap \/ Compared # {})
        /\ turnStage' = "recording" /\ UNCHANGED outcome
     \/ End("commit failed") /\ UNCHANGED <<state, overlap>>
  /\ UNCHANGED <<base, retries, verdict, operations, loaded, record, memory,
                 rivalStage, rivalLoaded>>

(* Without operations the record says the revision stayed at the           *)
(* snapshot's, even if another turn has moved it.                          *)
RecordTurn ==
  /\ turnStage = "recording"
  /\ record' = [before |-> base, after |-> IF operations THEN base + 1 ELSE base]
  /\ turnStage' = "active memory"
  /\ UNCHANGED <<base, retries, verdict, operations, loaded, state, memory, outcome, rivals>>

(* commit_request answers with a status nobody looks at.                   *)
CommitActive(stores) ==
  /\ turnStage = "active memory"
  /\ memory' = IF stores THEN memory \cup {"active"} ELSE memory
  /\ turnStage' = "rag memory"
  /\ UNCHANGED <<base, retries, verdict, operations, loaded, state, record, outcome, rivals>>

CommitRag(stores) ==
  /\ turnStage = "rag memory"
  /\ memory' = IF stores THEN memory \cup {"rag"} ELSE memory
  /\ End("success")
  /\ UNCHANGED <<base, retries, verdict, operations, loaded, state, record, rivals>>

(* The except clause: the error is reported, what was written stays.       *)
Raise ==
  /\ turnStage \notin {"waiting", "ended"}
  /\ End("exception")
  /\ UNCHANGED <<base, retries, verdict, operations, loaded, state, record, memory, rivals>>

-----------------------------------------------------------------------------
(* The commit of another turn of the session, from its load on.            *)

generated == <<turnStage, base, retries, verdict, operations, loaded, record, memory, outcome>>

RivalLoads(r) ==
  /\ rivalStage[r] = "away"
  /\ rivalStage' = [rivalStage EXCEPT ![r] = "loaded"]
  /\ rivalLoaded' = [rivalLoaded EXCEPT ![r] = state]
  /\ UNCHANGED <<generated, state, overlap>>

RivalCompares(r, valid) ==
  /\ rivalStage[r] = "loaded"
  /\ rivalStage' = [rivalStage EXCEPT ![r] =
       IF valid /\ state.revision = rivalLoaded[r].revision THEN "compared" ELSE "done"]
  /\ UNCHANGED <<generated, state, rivalLoaded, overlap>>

RivalWrites(r) ==
  /\ rivalStage[r] = "compared"
  /\ rivalStage' = [rivalStage EXCEPT ![r] = "done"]
  /\ state' = [rivalLoaded[r] EXCEPT !.revision = @ + 1, !.others = @ + 1]
  /\ overlap' = (overlap \/ turnStage = "storing" \/ Compared # {r})
  /\ UNCHANGED <<generated, rivalLoaded>>

OtherTurns ==
  \E r \in Rival : \/ RivalLoads(r) \/ RivalWrites(r)
                   \/ \E valid \in BOOLEAN : RivalCompares(r, valid)

TurnStep ==
  \/ Write
  \/ Accept
  \/ \E allowed \in BOOLEAN :
       Retry(allowed) \/ \E answer \in {"revise", "reject"} : Reject(answer, allowed)
  \/ \E some \in BOOLEAN : Propose(some)
  \/ LoadState
  \/ \E valid \in BOOLEAN : CheckState(valid)
  \/ WriteState
  \/ RecordTurn
  \/ \E stores \in BOOLEAN : CommitActive(stores) \/ CommitRag(stores)

-----------------------------------------------------------------------------
TurnTypeOK ==
  /\ turnStage \in TurnStage
  /\ {base, retries} \subseteq Nat
  /\ verdict \in Verdict
  /\ operations \in BOOLEAN
  /\ {loaded, state} \subseteq CardState
  /\ record \in RecordRevisions \cup {NoRecord}
  /\ memory \subseteq {"active", "rag"}
  /\ outcome \in TurnOutcome
  /\ rivalStage \in [Rival -> RivalStage] /\ rivalLoaded \in [Rival -> CardState]
  /\ overlap \in BOOLEAN

(* Whatever other turns commit meanwhile and wherever an error ends the    *)
(* turn: it writes nothing before the critic accepts; memories only after  *)
(* the record; success means that all it had to write was written.  Unless *)
(* two turns have both compared before either has written (the store does  *)
(* not prevent it, see PersistentTurn), the state also has the patch its   *)
(* record speaks of, and no turn's changes are lost under another's, even  *)
(* if state and snapshot were read at different revisions.                 *)
WritesFollowGate ==
  /\ state.mine \/ record # NoRecord \/ memory # {} => verdict = "accept"
  /\ memory # {} => record # NoRecord
  /\ record # NoRecord =>
       record.after = record.before + (IF operations THEN 1 ELSE 0)
  /\ outcome = "success" => record # NoRecord
  /\ outcome \in {"rejected", "commit failed"} => ~state.mine /\ record = NoRecord
  /\ ~overlap =>
       /\ record # NoRecord => state.mine = operations /\ state.revision >= record.after
       /\ state.revision = state.others + (IF state.mine THEN 1 ELSE 0)

=============================================================================
