----------------------------- MODULE StatePatch -----------------------------
(***************************************************************************)
(* How an accepted turn changes the content of a card state: what the      *)
(* curator makes of the model's answer, which operations pass validation,  *)
(* what the persistent turn engine makes of them, and what the store then  *)
(* writes.  Servers are as in PersistentTurn, which has the crashes and    *)
(* the retries; here the content is what matters.  The store reads,        *)
(* compares and validates first and writes later, without comparing again: *)
(* a second server may write in between, and its update is lost.           *)
(***************************************************************************)
EXTENDS Integers, SequencesExt

CONSTANTS
  Server,   \* processes that opened the database file
  Key,      \* second segments of paths: variables, events, stages, fields
  Offered,  \* the operations a model's answer is made of
  Seed,     \* initial_state_seed: the variables a bootstrap may be given
  Nothing,  \* no entry, no seed yet, no job
  MaxOps,   \* bound of the model: operations of one answer
  MaxTurns  \* bound of the model: accepted turns

(* A value by the Python type the code tells apart; n is the number, or    *)
(* which text it is (0 is the empty one).                                  *)
Value == [kind: {"number", "text", "list", "none"}, n: Int]
Number(n) == [kind |-> "number", n |-> n]
Text(n) == [kind |-> "text", n |-> n]
List == [kind |-> "list", n |-> 0]
None == [kind |-> "none", n |-> 0]

(* SCENE_FIELD_TYPES, one field of each of its types.                      *)
SceneField == {"location", "active_npcs"}
FieldType == [f \in SceneField |-> IF f = "location" THEN "text" ELSE "list"]

Content == [variables: [Key -> Value \cup {Nothing}],
            flags: SUBSET Key,
            stages: SUBSET Key,
            scene: [SceneField -> Value]]

Empty == [variables |-> [x \in Key |-> Nothing], flags |-> {}, stages |-> {},
          scene |-> [f \in SceneField |->
                       IF FieldType[f] = "text" THEN Text(0) ELSE List]]

PatchOpType == {"set", "remove", "increment", "append_unique", "set_flag",
                "activate_stage", "deactivate_stage", "set_scene_field"}

(* Names a model's answer may use in their place.                          *)
Alias == {"set_variable", "increment_variable", "set_event_flag", "set_scene"}

(* An operation; prefix "" is a path without a dot.  An operation on the   *)
(* stages has the stage id as its key and as its value.                    *)
OperationOf(types) ==
  [op: types, key: Key, value: Value,
   prefix: {"", "variables", "event_flags", "active_stage_ids", "scene_state"}]

Operation == OperationOf(PatchOpType)

Op(op, prefix, key, value) ==
  [op |-> op, prefix |-> prefix, key |-> key, value |-> value]

VARIABLES
  seed,     \* the seed the session was bootstrapped with, or Nothing
  state,    \* the row of table card_states
  receipts, \* rows of card_state_patch_receipts, in the order of revisions
  pc,       \* pc[p]: the step server p executes next
  job,      \* job[p]: the local variables of the turn p commits
  reply,    \* reply[p]: how the last turn of p ended
  turns     \* accepted turns started, bounds the model

vars == <<seed, state, receipts, pc, job, reply, turns>>

Job == [base: Nat,            \* card_state.revision of the load
        loaded: Content,      \* content of that card_state
        offline: BOOLEAN,     \* the deterministic curator, no model
        rejected: BOOLEAN,    \* PATCH_VALIDATION_FAILED
        ops: Seq(Operation),  \* the proposal's operations
        next: Nat \ {0},      \* the operation the engine applies next
        content: Content]     \* new_card_state_dict

ASSUME KeyAssumption == {"trust", "event_combat"} \cup SceneField \subseteq Key
ASSUME OfferedAssumption == Offered \subseteq OperationOf(PatchOpType \cup Alias)
ASSUME SeedAssumption == Nothing \notin Seed
ASSUME NothingAssumption == Nothing \notin Job \cup Value
ASSUME BoundsAssumption == MaxOps \in Nat /\ MaxTurns \in Nat

(* How a turn ends: "exception" and "malformed_answer" are raised through  *)
(* the engine, by an operation and by the parser; "unwritable" and         *)
(* "database_error" are the store's INTERNAL_ERROR.                        *)
Reply == {"none", "success", "exception", "malformed_answer",
          "revision_conflict", "validation_failed", "unwritable",
          "database_error"}

Init ==
  /\ seed = Nothing
  /\ state = [stored |-> FALSE, revision |-> 0, content |-> Empty]
  /\ receipts = <<>>
  /\ pc = [p \in Server |-> "idle"]
  /\ job = [p \in Server |-> Nothing]
  /\ reply = [p \in Server |-> "none"]
  /\ turns = 0

(* CardSessionBootstrapPipeline.bootstrap builds a card state from the     *)
(* seed for its receipt and saves the opening, the worldbook binding, the  *)
(* session binding and the receipt (module SessionBootstrap).              *)
Bootstrap(chosen) ==
  /\ seed = Nothing
  /\ seed' = chosen
  /\ UNCHANGED <<state, receipts, pc, job, reply, turns>>

(* SessionRuntimeLoad.load: the stored row, or the one that initialize     *)
(* inserts for a session without a row.                                    *)
Load(p) ==
  /\ pc[p] = "idle"
  /\ seed # Nothing
  /\ turns < MaxTurns
  /\ turns' = turns + 1
  /\ state' = [state EXCEPT !.stored = TRUE]
  /\ job' = [job EXCEPT ![p] =
               [base |-> state.revision, loaded |-> state.content,
                offline |-> FALSE, rejected |-> FALSE, ops |-> <<>>,
                next |-> 1, content |-> state.content]]
  /\ pc' = [pc EXCEPT ![p] = "curate"]
  /\ reply' = [reply EXCEPT ![p] = "none"]
  /\ UNCHANGED <<seed, receipts>>

-----------------------------------------------------------------------------
(* The curator.                                                            *)

CuratorAllowedOps == {"set", "increment", "set_flag", "set_scene_field"}

OpName(o) ==
  CASE o.op = "set_variable" -> "set"
    [] o.op = "increment_variable" -> "increment"
    [] o.op = "set_event_flag" -> "set_flag"
    [] o.op = "set_scene" -> "set_scene_field"
    [] OTHER -> o.op

Prefix(o) ==
  IF o.prefix # "" THEN o.prefix
  ELSE IF OpName(o) \in {"set", "increment"} THEN "variables"
  ELSE IF OpName(o) = "set_flag" THEN "event_flags"
  ELSE ""

Normalized(o) == [o EXCEPT !.op = OpName(o), !.prefix = Prefix(o)]

(* OP_SPECS[op]["allowed_prefixes"].                                       *)
AllowedPrefixes(op) ==
  CASE op \in {"set", "increment"} -> {"variables"}
    [] op = "remove" -> {"variables", "event_flags"}
    [] op = "set_flag" -> {"event_flags"}
    [] op \in {"append_unique", "activate_stage", "deactivate_stage"} ->
         {"active_stage_ids"}
    [] op = "set_scene_field" -> {"scene_state"}

(* validate_patch_operations, for one operation against a stored state.    *)
Invalid(o, c) ==
  \/ o.prefix \notin AllowedPrefixes(o.op)
  \/ o.op = "set" /\ o.value = None
  \/ o.op = "remove" /\ o.prefix = "variables" /\ c.variables[o.key] = Nothing
  \/ o.op = "remove" /\ o.prefix = "event_flags" /\ o.key \notin c.flags
  \/ o.op = "increment" /\ \/ c.variables[o.key] = Nothing
                           \/ o.value.kind \notin {"none", "number"}
  \/ o.op \in {"append_unique", "activate_stage", "deactivate_stage"} /\
       \/ o.value.kind # "text"
       \/ o.value.n = 0
  \/ o.op = "deactivate_stage" /\ o.key \notin c.stages
  \/ o.op = "set_scene_field" /\ \/ o.key \notin SceneField
                                 \/ o.value.kind \notin {"none", FieldType[o.key]}

Errors(ops, c) == {i \in DOMAIN ops : Invalid(ops[i], c)}

(* The node returns to its caller: nothing local survives.                 *)
Return(p, answer) ==
  /\ pc' = [pc EXCEPT ![p] = "idle"]
  /\ job' = [job EXCEPT ![p] = Nothing]
  /\ reply' = [reply EXCEPT ![p] = answer]

(* Mutation of ParseOne: operations of every known kind are let through.   *)
ParseAny(p) ==
  /\ pc[p] = "curate"
  /\ Len(job[p].ops) < MaxOps
  /\ \E o \in Offered :
       job' = [job EXCEPT ![p].ops = Append(@, Normalized(o))]
  /\ UNCHANGED <<seed, state, receipts, pc, reply, turns>>

(* _parse_llm_response, for the next operation of the answer: an operation *)
(* of a kind the curator may not propose is skipped.                       *)
ParseOne(p) ==
  /\ pc[p] = "curate"
  /\ Len(job[p].ops) < MaxOps
  /\ \E o \in Offered :
       job' = [job EXCEPT ![p].ops =
                 IF OpName(o) \in CuratorAllowedOps
                 THEN Append(@, Normalized(o)) ELSE @]
  /\ UNCHANGED <<seed, state, receipts, pc, reply, turns>>

(* The answer, a list in it, an operation or a memory candidate has not    *)
(* the shape the parser expects: what it raises is caught nowhere.         *)
CuratorRaises(p) ==
  /\ pc[p] = "curate"
  /\ Return(p, "malformed_answer")
  /\ UNCHANGED <<seed, state, receipts, turns>>

(* _curate_deterministic: operations for the keywords heard in the text.   *)
OfflineScene(c) ==
  IF c.scene["location"] = Text(1) THEN <<>>
  ELSE <<Op("set_scene_field", "scene_state", "location", Text(1))>>

OfflineEvent(c) ==
  IF "event_combat" \in c.flags THEN <<>>
  ELSE <<Op("set_flag", "event_flags", "event_combat", None)>>

(* Mutation of OfflineTrust: the variable is taken to exist.               *)
OfflineTrustIncrement(c) ==
  <<Op("increment", "variables", "trust", Number(1))>>

OfflineTrust(c) ==
  <<Op(IF c.variables["trust"] = Nothing THEN "set" ELSE "increment",
       "variables", "trust", Number(1))>>

OfflineOps(heard, c) ==
  (IF "scene" \in heard THEN OfflineScene(c) ELSE <<>>)
  \o (IF "event" \in heard THEN OfflineEvent(c) ELSE <<>>)
  \o (IF "trust" \in heard THEN OfflineTrust(c) ELSE <<>>)

CurateOffline(p) ==
  /\ pc[p] = "curate"
  /\ job[p].ops = <<>>
  /\ \E heard \in SUBSET {"scene", "event", "trust"} :
       job' = [job EXCEPT ![p].ops = OfflineOps(heard, job[p].loaded),
                          ![p].offline = TRUE]
  /\ pc' = [pc EXCEPT ![p] = "validate"]
  /\ UNCHANGED <<seed, state, receipts, reply, turns>>

(* Mutation of Validate: the operations are taken as they are.             *)
ValidateNothing(p) ==
  /\ pc[p] \in {"curate", "validate"}
  /\ pc' = [pc EXCEPT ![p] = "apply"]
  /\ UNCHANGED <<seed, state, receipts, job, reply, turns>>

(* _validate_proposal: one error empties the proposal.                     *)
Validate(p) ==
  /\ pc[p] \in {"curate", "validate"}
  /\ LET failed == Errors(job[p].ops, job[p].loaded) # {}
     IN job' = [job EXCEPT ![p].rejected = failed,
                           ![p].ops = IF failed THEN <<>> ELSE @]
  /\ pc' = [pc EXCEPT ![p] = "apply"]
  /\ UNCHANGED <<seed, state, receipts, reply, turns>>

-----------------------------------------------------------------------------
(* The engine.                                                             *)

(* delta = pop.value if pop.value is not None else 1.                      *)
Delta(o) == IF o.value = None THEN 1 ELSE o.value.n

(* Mutation of Raises: the default of the delta is forgotten.              *)
RaisesOnDefault(o, c) ==
  /\ o.op = "increment" /\ c.variables[o.key] # Nothing
  /\ c.variables[o.key].kind # "number" \/ o.value = None

(* A number is added to a text or a list: TypeError.                       *)
Raises(o, c) ==
  /\ o.op = "increment" /\ c.variables[o.key] # Nothing
  /\ c.variables[o.key].kind # "number"

(* The engine's branches over op and prefix; other kinds change nothing.   *)
Applied(o, c) ==
  CASE o.op = "set" /\ o.prefix = "variables" ->
         [c EXCEPT !.variables[o.key] = o.value]
    [] /\ o.op = "increment" /\ o.prefix = "variables"
       /\ c.variables[o.key] # Nothing ->
         [c EXCEPT !.variables[o.key] = Number(@.n + Delta(o))]
    [] o.op = "set_flag" /\ o.prefix = "event_flags" ->
         [c EXCEPT !.flags = @ \cup {o.key}]
    [] o.op = "set_scene_field" /\ o.prefix = "scene_state" ->
         [c EXCEPT !.scene[o.key] = o.value]
    [] OTHER -> c

Operations(p) == job[p].ops

ApplyOne(p) ==
  /\ pc[p] = "apply"
  /\ job[p].next <= Len(Operations(p))
  /\ LET o == Operations(p)[job[p].next]
     IN IF Raises(o, job[p].content)
        THEN Return(p, "exception")
        ELSE /\ job' = [job EXCEPT ![p].next = @ + 1,
                                   ![p].content = Applied(o, @)]
             /\ UNCHANGED <<pc, reply>>
  /\ UNCHANGED <<seed, state, receipts, turns>>

(* new_state.to_dict() copies the list: dict(None) and list(None) raise.   *)
Unwritable(c) == c.scene["active_npcs"] = None

(* SqliteCardStateStore.commit up to its first write: the row is read, its *)
(* revision compared and the patch validated against its content.          *)
Check(p) ==
  /\ pc[p] = "apply"
  /\ Operations(p) # <<>>
  /\ job[p].next > Len(Operations(p))
  /\ IF state.revision # job[p].base
     THEN Return(p, "revision_conflict")
     ELSE IF Errors(Operations(p), state.content) # {}
          THEN Return(p, "validation_failed")
          ELSE /\ pc' = [pc EXCEPT ![p] = "write"]
               /\ UNCHANGED <<job, reply>>
  /\ UNCHANGED <<seed, state, receipts, turns>>

(* Mutation of Store: the content is put on top of the row's revision, and *)
(* the receipt says so.                                                    *)
StoreOnTop(p) ==
  /\ state' = [state EXCEPT !.revision = @ + 1, !.content = job[p].content]
  /\ receipts' = Append(receipts, [from |-> state.revision, ops |-> Operations(p)])

(* The transaction of UPDATE, INSERT and commit.  The row is not read      *)
(* again: the new revision follows the one that was compared.              *)
Store(p) ==
  /\ state' = [state EXCEPT !.revision = job[p].base + 1,
                            !.content = job[p].content]
  /\ receipts' = Append(receipts, [from |-> job[p].base, ops |-> Operations(p)])

(* Behind the commit the engine walks through the proposal's events, and   *)
(* raises when one is no object: the text is lost, the state written.      *)
Write(p) ==
  /\ pc[p] = "write"
  /\ IF Unwritable(job[p].content)
     THEN Return(p, "unwritable") /\ UNCHANGED <<state, receipts>>
     ELSE /\ Store(p)
          /\ \E answer \in {"success", "malformed_answer"} : Return(p, answer)
  /\ UNCHANGED <<seed, turns>>

(* A statement of the store raises, the file being locked or full, and the *)
(* transaction is rolled back.                                             *)
StoreRaises(p) ==
  /\ \/ pc[p] = "write"
     \/ pc[p] = "apply" /\ Operations(p) # <<>> /\ job[p].next > Len(Operations(p))
  /\ Return(p, "database_error")
  /\ UNCHANGED <<seed, state, receipts, turns>>

(* The call of the model fails, its answer says is_no_state_change, or no  *)
(* operation is left: nothing is committed, and the turn is recorded at    *)
(* the revision it was loaded at (the insert is in PersistentTurn).        *)
NoStateChange(p) ==
  /\ pc[p] = "curate" \/ (pc[p] = "apply" /\ Operations(p) = <<>>)
  /\ Return(p, "success")
  /\ UNCHANGED <<seed, state, receipts, turns>>

Next ==
  \/ \E chosen \in Seed : Bootstrap(chosen)
  \/ \E p \in Server : \/ Load(p) \/ ParseOne(p) \/ CuratorRaises(p)
                       \/ CurateOffline(p) \/ Validate(p) \/ ApplyOne(p)
                       \/ Check(p) \/ Write(p) \/ StoreRaises(p)
                       \/ NoStateChange(p)

Spec == Init /\ [][Next]_vars

-----------------------------------------------------------------------------
TypeOK ==
  /\ seed \in Seed \cup {Nothing}
  /\ state \in [stored: BOOLEAN, revision: Nat, content: Content]
  /\ receipts \in Seq([from: Nat, ops: Seq(Operation)])
  /\ pc \in [Server -> {"idle", "curate", "validate", "apply", "write"}]
  /\ job \in [Server -> Job \cup {Nothing}]
  /\ \A p \in Server : job[p] = Nothing <=> pc[p] = "idle"
  /\ reply \in [Server -> Reply]
  /\ turns \in 0..MaxTurns

(* CardStateCommitRuntime._apply_operations, which the contracts name as   *)
(* the one way to change a card state and which knows every kind of        *)
(* operation.                                                              *)
RuntimeApplied(c, o) ==
  CASE o.op = "set" /\ o.prefix = "variables" ->
         [c EXCEPT !.variables[o.key] = o.value]
    [] o.op = "remove" /\ o.prefix = "variables" ->
         [c EXCEPT !.variables[o.key] = Nothing]
    [] o.op = "remove" /\ o.prefix = "event_flags" ->
         [c EXCEPT !.flags = @ \ {o.key}]
    [] /\ o.op = "increment" /\ o.prefix = "variables"
       /\ c.variables[o.key] # Nothing ->
         [c EXCEPT !.variables[o.key] = Number(@.n + Delta(o))]
    [] o.op = "set_flag" /\ o.prefix = "event_flags" ->
         [c EXCEPT !.flags = @ \cup {o.key}]
    [] /\ o.op \in {"append_unique", "activate_stage"}
       /\ o.prefix = "active_stage_ids" ->
         [c EXCEPT !.stages = @ \cup {o.key}]
    [] o.op = "deactivate_stage" /\ o.prefix = "active_stage_ids" ->
         [c EXCEPT !.stages = @ \ {o.key}]
    [] o.op = "set_scene_field" /\ o.prefix = "scene_state" ->
         [c EXCEPT !.scene[o.key] = o.value]
    [] OTHER -> c

Replay(c, ops) == FoldLeft(RuntimeApplied, c, ops)

(* The operations of the receipts in S, in order, applied from nothing.    *)
Replayed(S) ==
  FoldLeft(Replay, Empty, [i \in DOMAIN receipts |->
                             IF i \in S THEN receipts[i].ops ELSE <<>>])

(* The receipts in S lead from revision to revision, up to n.              *)
Leads(S, n) ==
  /\ {receipts[i].from : i \in S} = 0..(n - 1)
  /\ \A i, j \in S : i < j => receipts[i].from < receipts[j].from

(* The accepted patches explain the stored state, with any number of       *)
(* servers and whichever updates they lose to each other: the content is   *)
(* what one line of receipts, one from each revision up to the stored one, *)
(* makes of the empty state when the other implementation of patch         *)
(* application replays it.  A lost update is lost in full and never mixed  *)
(* with the one that overwrote it; no operation of the line is without     *)
(* effect, none takes effect twice, no content comes from anywhere else.   *)
LogReplays ==
  \E S \in SUBSET DOMAIN receipts :
    Leads(S, state.revision) /\ state.content = Replayed(S)

(* What the operations do in order, said without executing them: an        *)
(* increment meets the last value set before it, or else the stored one.   *)
SetBefore(ops, i) ==
  {j \in 1..(i - 1) : ops[j].op = "set" /\ ops[j].key = ops[i].key}

ListWrites(ops) ==
  {i \in DOMAIN ops : ops[i].op = "set_scene_field" /\ ops[i].key = "active_npcs"}

Applicable(ops, c) ==
  /\ \A i \in DOMAIN ops :
       ops[i].op = "increment" =>
         IF SetBefore(ops, i) = {}
         THEN c.variables[ops[i].key].kind = "number"
         ELSE ops[Max(SetBefore(ops, i))].value.kind = "number"
  /\ ListWrites(ops) # {} => ops[Max(ListWrites(ops))].value # None

(* A turn that passed the gate with a patch ends in success, and keeps its *)
(* text, unless the state moved on under it; or its operations, all valid  *)
(* one by one, cannot be executed in their order; or an update was lost    *)
(* and the content is not the loaded one although the revision is; or the  *)
(* answer is malformed; or the database raises.  A rejected patch never    *)
(* costs the text, and no patch of operations that cannot be executed in   *)
(* their order is ever accepted.                                           *)
TextLostWithReason ==
  [][\A p \in Server :
       pc[p] \in {"apply", "write"} /\ pc'[p] = "idle" =>
         CASE reply'[p] = "success" ->
                Applicable(Operations(p), job[p].loaded)
           [] reply'[p] = "revision_conflict" -> state.revision # job[p].base
           [] reply'[p] \in {"exception", "unwritable"} ->
                ~Applicable(Operations(p), job[p].loaded)
           [] reply'[p] = "validation_failed" ->
                state.revision = job[p].base /\ state.content # job[p].loaded
           [] OTHER -> reply'[p] \in {"malformed_answer", "database_error"}]_vars

(* No update was lost so far: each accepted patch came from the revision   *)
(* the one before it made.                                                 *)
NoUpdateLost == \A i \in DOMAIN receipts : receipts[i].from = i - 1

(* The store validates against the row it reads, the curator validated     *)
(* against the row of the load: as long as no update is lost, the store    *)
(* never refuses what the curator let through, whatever other servers      *)
(* committed in between.                                                   *)
StoreAcceptsValidated ==
  NoUpdateLost => \A p \in Server : reply[p] # "validation_failed"

(* The deterministic curator only proposes what validation accepts.        *)
OfflineNeverRejected ==
  \A p \in Server :
    job[p] # Nothing => ~(job[p].offline /\ job[p].rejected)

(* "Bootstrap creates CardState from seed only": the variables of the seed *)
(* are in the state a session is first loaded with.                        *)
SeedReachesState ==
  state.stored /\ state.revision = 0 => state.content.variables = seed

=============================================================================
