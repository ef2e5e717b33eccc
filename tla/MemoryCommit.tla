------------------------------ MODULE MemoryCommit ------------------------------
(***************************************************************************)
(* Long-term memory of one session: _run_memory_commit with the two commit *)
(* runtimes it calls, ActiveMemoryCommitRuntime.commit_request (layer L2,  *)
(* a bounded number of slots) and RagMemoryCommitRuntime.commit_request    *)
(* (layer L3).  Every statement of the stores commits by itself.           *)
(***************************************************************************)
EXTENDS Integers, FiniteSets

CONSTANTS
  Server,     \* processes that opened the database file
  Key,        \* idempotency keys; a key belongs to one plan
  Memory,     \* memory ids
  New,        \* New[k]: memory ids of new_active_entries of plan k
  Updated,    \* Updated[k]: memory ids of updated_active_entries of plan k
  Resolved,   \* Resolved[k]: resolved_active_ids of plan k
  Rag,        \* Rag[k]: memory ids of new_rag_entries of plan k
  Rank,       \* Rank[m]: place of m in the retention order, higher is kept: by
              \* score, and of equal scores the earlier row of get_all's query
  Limit,      \* MAX_ACTIVE_MEMORIES
  Idle,       \* the local variables of a server that commits nothing
  Faults      \* "crash": the process dies; "raise": a write statement fails

ASSUME PlansAssumption ==
  /\ New \in [Key -> SUBSET Memory]
  /\ Updated \in [Key -> SUBSET Memory]
  /\ Resolved \in [Key -> SUBSET Memory]
  /\ Rag \in [Key -> SUBSET Memory]
ASSUME MemoryAssumption == IsFiniteSet(Memory)
ASSUME RankAssumption ==
  /\ Rank \in [Memory -> Nat]
  /\ \A m, n \in Memory : Rank[m] = Rank[n] => m = n
ASSUME LimitAssumption == Limit \in Nat \ {0}
ASSUME FaultsAssumption == Faults \subseteq {"crash", "raise"}

VARIABLES
  status,       \* status[m]: column status of active_memory_records
  receipts,     \* rows of active_memory_commit_receipts
  rag,          \* memory ids in rag_memory_records
  ragReceipts,  \* keys in rag_memory_commit_receipts
  pc,           \* pc[p]: the statement server p executes next
  job,          \* job[p]: the local variables of the commit p runs
  reply,        \* reply[p]: result of the active layer of p's last commit
  disturbed     \* history: whether commits overlapped, or one was cut short

vars == <<status, receipts, rag, ragReceipts, pc, job, reply, disturbed>>

Status == {"absent", "active", "resolved", "evicted"}

(* What is left of the plan, and the ids to evict.                         *)
Job == [key: Key, wellFormed: BOOLEAN, resolve: SUBSET Memory,
        store: SUBSET Memory, evict: SUBSET Memory, evicted: SUBSET Memory,
        index: SUBSET Memory]

ASSUME IdleAssumption == Idle \notin Job

PC == {"idle", "validate", "find receipt", "resolve", "store", "count", "choose",
       "evict", "receipt", "rag find receipt", "rag store", "rag receipt"}

Active == {m \in Memory : status[m] = "active"}

Init ==
  /\ status = [m \in Memory |-> "absent"]
  /\ receipts = {}
  /\ rag = {}
  /\ ragReceipts = {}
  /\ pc = [p \in Server |-> "idle"]
  /\ job = [p \in Server |-> Idle]
  /\ reply = [p \in Server |-> "none"]
  /\ disturbed = {}

Goto(p, label) == pc' = [pc EXCEPT ![p] = label]

(* The commit of the active layer is over: on to the other layer, if the   *)
(* plan is one that layer accepts and has entries for it.                  *)
Leave(p, answer) ==
  /\ reply' = [reply EXCEPT ![p] = answer]
  /\ IF job[p].wellFormed /\ Rag[job[p].key] # {}
     THEN Goto(p, "rag find receipt") /\ UNCHANGED job
     ELSE Goto(p, "idle") /\ job' = [job EXCEPT ![p] = Idle]

(* An exception or a dead process: nothing local survives.                 *)
Abort(p, answer) ==
  /\ Goto(p, "idle")
  /\ job' = [job EXCEPT ![p] = Idle]
  /\ reply' = [reply EXCEPT ![p] = answer]

(* The entries of a plan that are upserted, the new ones and the updates.  *)
Entries(k) == New[k] \cup Updated[k]

-----------------------------------------------------------------------------
(* A compiled plan arrives.  The gates of commit_request pass: the engine  *)
(* comes here behind an accepted quality gate and a saved turn record.  A  *)
(* plan is well formed if the entries of both layers pass the policy.      *)
Begin(p, k) ==
  /\ pc[p] = "idle"
  /\ \E wellFormed \in BOOLEAN :
       job' = [job EXCEPT ![p] =
                 [key |-> k, wellFormed |-> wellFormed, resolve |-> Resolved[k],
                  store |-> Entries(k), evict |-> {}, evicted |-> {}, index |-> Rag[k]]]
  /\ reply' = [reply EXCEPT ![p] = "none"]
  /\ Goto(p, IF New[k] = {} THEN "rag find receipt" ELSE "validate")
  /\ disturbed' = IF \E q \in Server : pc[q] # "idle"
                  THEN disturbed \cup {"overlap"} ELSE disturbed
  /\ UNCHANGED <<status, receipts, rag, ragReceipts>>

(* Mutation of FitsLimit: the limit holds before retention.                *)
FitsWithoutRetention(count, k) ==
  count + Cardinality(New[k]) - Cardinality(Resolved[k]) <= Limit

(* MemoryPolicy.validate_commit_plan: retention can evict as many memories *)
(* as the plan brings; an overflow beyond that is an error.                *)
FitsLimit(count, k) ==
  LET projected == count + Cardinality(New[k]) - Cardinality(Resolved[k]) IN
  projected > Limit => projected - Limit <= Cardinality(New[k])

Validate(p) ==
  /\ pc[p] = "validate"
  /\ IF job[p].wellFormed /\ FitsLimit(Cardinality(Active), job[p].key)
     THEN Goto(p, "find receipt") /\ UNCHANGED <<job, reply>>
     ELSE Leave(p, "blocked validation")
  /\ UNCHANGED <<status, receipts, rag, ragReceipts, disturbed>>

(* Mutation of FindReceipt: the key is not looked up.                      *)
FindNoReceipt(p) ==
  /\ pc[p] = "find receipt"
  /\ Goto(p, "resolve")
  /\ UNCHANGED <<status, receipts, rag, ragReceipts, job, reply, disturbed>>

FindReceipt(p) ==
  /\ pc[p] = "find receipt"
  /\ IF \E r \in receipts : r.key = job[p].key
     THEN Leave(p, "replay")
     ELSE Goto(p, "resolve") /\ UNCHANGED <<job, reply>>
  /\ UNCHANGED <<status, receipts, rag, ragReceipts, disturbed>>

(* UPDATE ... SET status, a no-op where there is no row.                   *)
SetStatus(m, value) ==
  status' = [status EXCEPT ![m] = IF @ = "absent" THEN @ ELSE value]

Resolve(p) ==
  /\ pc[p] = "resolve"
  /\ \/ /\ job[p].resolve = {}
        /\ Goto(p, "store")
        /\ UNCHANGED <<status, job>>
     \/ \E m \in job[p].resolve :
          /\ SetStatus(m, "resolved")
          /\ job' = [job EXCEPT ![p].resolve = @ \ {m}]
          /\ UNCHANGED pc
  /\ UNCHANGED <<receipts, rag, ragReceipts, reply, disturbed>>

(* INSERT OR REPLACE of an entry with status active, whatever became of    *)
(* the row before.                                                         *)
Store(p) ==
  /\ pc[p] = "store"
  /\ \/ /\ job[p].store = {}
        /\ Goto(p, "count")
        /\ UNCHANGED <<status, job>>
     \/ \E m \in job[p].store :
          /\ status' = [status EXCEPT ![m] = "active"]
          /\ job' = [job EXCEPT ![p].store = @ \ {m}]
          /\ UNCHANGED pc
  /\ UNCHANGED <<receipts, rag, ragReceipts, reply, disturbed>>

(* _enforce_retention: count, then read the active memories again, keep    *)
(* the Limit best, and evict the others one by one.                        *)
Count(p) ==
  /\ pc[p] = "count"
  /\ Goto(p, IF Cardinality(Active) <= Limit THEN "receipt" ELSE "choose")
  /\ UNCHANGED <<status, receipts, rag, ragReceipts, job, reply, disturbed>>

Outranked(m, set) == {n \in set : Rank[n] > Rank[m]}

(* Mutation of Choose: the best are evicted.                               *)
ChooseBest(p) ==
  /\ pc[p] = "choose"
  /\ job' = [job EXCEPT ![p].evict =
       {m \in Active : Cardinality(Active) - Cardinality(Outranked(m, Active)) > Limit}]
  /\ Goto(p, "evict")
  /\ UNCHANGED <<status, receipts, rag, ragReceipts, reply, disturbed>>

Choose(p) ==
  /\ pc[p] = "choose"
  /\ job' = [job EXCEPT ![p].evict =
               {m \in Active : Cardinality(Outranked(m, Active)) >= Limit}]
  /\ Goto(p, "evict")
  /\ UNCHANGED <<status, receipts, rag, ragReceipts, reply, disturbed>>

(* Mutation of Evict: only one memory is evicted.                          *)
EvictOne(p) ==
  /\ pc[p] = "evict"
  /\ IF job[p].evict = {}
     THEN Goto(p, "receipt") /\ UNCHANGED <<status, job>>
     ELSE \E m \in job[p].evict :
            /\ SetStatus(m, "evicted")
            /\ job' = [job EXCEPT ![p].evict = {}, ![p].evicted = @ \cup {m}]
            /\ UNCHANGED pc
  /\ UNCHANGED <<receipts, rag, ragReceipts, reply, disturbed>>

Evict(p) ==
  /\ pc[p] = "evict"
  /\ IF job[p].evict = {}
     THEN Goto(p, "receipt") /\ UNCHANGED <<status, job>>
     ELSE \E m \in job[p].evict :
            /\ SetStatus(m, "evicted")
            /\ job' = [job EXCEPT ![p].evict = @ \ {m}, ![p].evicted = @ \cup {m}]
            /\ UNCHANGED pc
  /\ UNCHANGED <<receipts, rag, ragReceipts, reply, disturbed>>

(* record_receipt, INSERT OR REPLACE by key.                               *)
RecordReceipt(p) ==
  /\ pc[p] = "receipt"
  /\ receipts' = {r \in receipts : r.key # job[p].key} \cup
       {[key |-> job[p].key, committed |-> Entries(job[p].key), evicted |-> job[p].evicted]}
  /\ Leave(p, "committed")
  /\ UNCHANGED <<status, rag, ragReceipts, disturbed>>

-----------------------------------------------------------------------------
(* The RAG layer validates with a count of 0, so only a malformed plan is  *)
(* refused; it has no slots and evicts nothing.                            *)
RagFindReceipt(p) ==
  /\ pc[p] = "rag find receipt"
  /\ IF ~job[p].wellFormed \/ job[p].key \in ragReceipts \/ Rag[job[p].key] = {}
     THEN Goto(p, "idle") /\ job' = [job EXCEPT ![p] = Idle]
     ELSE Goto(p, "rag store") /\ UNCHANGED job
  /\ UNCHANGED <<status, receipts, rag, ragReceipts, reply, disturbed>>

RagStore(p) ==
  /\ pc[p] = "rag store"
  /\ \/ /\ job[p].index = {}
        /\ Goto(p, "rag receipt")
        /\ UNCHANGED <<rag, job>>
     \/ \E m \in job[p].index :
          /\ rag' = rag \cup {m}
          /\ job' = [job EXCEPT ![p].index = @ \ {m}]
          /\ UNCHANGED pc
  /\ UNCHANGED <<status, receipts, ragReceipts, reply, disturbed>>

(* Mutation of RagRecordReceipt: it comes before the entries.              *)
RagRecordReceiptEarly(p) ==
  /\ pc[p] \in {"rag store", "rag receipt"}
  /\ job[p].key \notin ragReceipts \/ pc[p] = "rag receipt"
  /\ ragReceipts' = ragReceipts \cup {job[p].key}
  /\ IF pc[p] = "rag receipt"
     THEN Goto(p, "idle") /\ job' = [job EXCEPT ![p] = Idle]
     ELSE UNCHANGED <<pc, job>>
  /\ UNCHANGED <<status, receipts, rag, reply, disturbed>>

RagRecordReceipt(p) ==
  /\ pc[p] = "rag receipt"
  /\ ragReceipts' = ragReceipts \cup {job[p].key}
  /\ Goto(p, "idle")
  /\ job' = [job EXCEPT ![p] = Idle]
  /\ UNCHANGED <<status, receipts, rag, reply, disturbed>>

-----------------------------------------------------------------------------
(* A write statement raises: the engine gives both layers up.              *)
Raise(p) ==
  /\ "raise" \in Faults
  /\ pc[p] \in {"resolve", "store", "evict", "receipt", "rag store", "rag receipt"}
  /\ Abort(p, "failed")
  /\ disturbed' = disturbed \cup {"fault"}
  /\ UNCHANGED <<status, receipts, rag, ragReceipts>>

Crash(p) ==
  /\ "crash" \in Faults
  /\ pc[p] # "idle"
  /\ Abort(p, "crashed")
  /\ disturbed' = disturbed \cup {"fault"}
  /\ UNCHANGED <<status, receipts, rag, ragReceipts>>

Step(p) ==
  \/ Validate(p) \/ FindReceipt(p) \/ Resolve(p) \/ Store(p) \/ Count(p)
  \/ Choose(p) \/ Evict(p) \/ RecordReceipt(p)
  \/ RagFindReceipt(p) \/ RagStore(p) \/ RagRecordReceipt(p)

Next ==
  \E p \in Server :
    \/ \E k \in Key : Begin(p, k)
    \/ Step(p)
    \/ Raise(p)
    \/ Crash(p)

Spec == Init /\ [][Next]_vars

FairSpec == Spec /\ \A p \in Server : WF_vars(Step(p))

-----------------------------------------------------------------------------
(* Every variable has its type; a server has local variables exactly while *)
(* it commits.                                                             *)
TypeOK ==
  /\ status \in [Memory -> Status]
  /\ receipts \subseteq [key: Key, committed: SUBSET Memory, evicted: SUBSET Memory]
  /\ rag \subseteq Memory
  /\ ragReceipts \subseteq Key
  /\ pc \in [Server -> PC]
  /\ job \in [Server -> Job \cup {Idle}]
  /\ \A p \in Server : (pc[p] = "idle") <=> (job[p] = Idle)
  /\ reply \in [Server -> {"none", "blocked validation", "replay", "committed",
                           "failed", "crashed"}]
  /\ disturbed \subseteq {"overlap", "fault"}

(* What a receipt says was committed has been stored: a replay answers     *)
(* from the receipt and never for an entry that is missing, for any number *)
(* of servers and faults.                                                  *)
ReceiptsTellStored ==
  /\ \A r \in receipts : \A m \in r.committed : status[m] # "absent"
  /\ \A k \in ragReceipts : Rag[k] \subseteq rag

(* Max 15 active memories per session, whenever no commit is under way,    *)
(* although each commit counts, chooses and evicts in separate statements  *)
(* and several may overlap; a commit that is cut short may break it.       *)
ActiveWithinLimit ==
  "fault" \notin disturbed /\ (\A p \in Server : pc[p] = "idle")
    => Cardinality(Active) <= Limit

(* Retention evicts the lowest: a memory is evicted only while Limit       *)
(* memories that outrank it stay active, as long as commits do not         *)
(* overlap, whichever of them were cut short.                              *)
EvictsLowest ==
  [][\A m \in Memory :
       "overlap" \notin disturbed' /\ status[m] = "active" /\ status'[m] = "evicted"
         => Cardinality(Outranked(m, Active')) >= Limit]_vars

(* A replayed key has zero side effects: a commit past the receipt check   *)
(* is not one of a key that already has a receipt, unless two commits of   *)
(* the key overlapped.                                                     *)
ReplayWritesNothing ==
  \A p \in Server :
    /\ "overlap" \notin disturbed
    /\ pc[p] \in {"resolve", "store", "count", "choose", "evict", "receipt"}
    => \A r \in receipts : r.key # job[p].key

(* When the slots are full, retention makes room: a well-formed plan is    *)
(* never refused.                                                          *)
FullLayerAccepts ==
  [][\A p \in Server :
       pc[p] = "validate" /\ reply'[p] = "blocked validation" => ~job[p].wellFormed]_vars

(* The same as long as commits neither overlap nor are cut short.          *)
RetentionMakesRoom ==
  [][\A p \in Server :
       disturbed' = {} /\ pc[p] = "validate" /\ reply'[p] = "blocked validation"
         => ~job[p].wellFormed]_vars

=============================================================================
