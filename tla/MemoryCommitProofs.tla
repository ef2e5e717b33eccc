-------------------------- MODULE MemoryCommitProofs --------------------------
(***************************************************************************)
(* For any number of servers, plans, memories and slots: both memory       *)
(* layers keep their types, their receipts tell what is stored, the active *)
(* memories fit into their slots, retention evicts the lowest and makes    *)
(* room, and a replay writes nothing.  MemoryInv is the inductive          *)
(* invariant: what a plan still has to store is in its job, a server that  *)
(* leaves too many memories active is about to make room, and commits that *)
(* have not overlapped run one at a time.                                  *)
(***************************************************************************)
EXTENDS MemoryCommit, TableLemmas, FiniteSetTheorems, TLAPS

Reply == {"none", "blocked validation", "replay", "committed", "failed", "crashed"}

(* The types of the variables of the servers.                              *)
ServersTypeOK ==
  /\ pc \in [Server -> PC]
  /\ job \in [Server -> Job \cup {Idle}]
  /\ \A p \in Server : (pc[p] = "idle") <=> (job[p] = Idle)
  /\ reply \in [Server -> Reply]

(* The types of the tables, and of what the history remembers.             *)
TablesTypeOK ==
  /\ status \in [Memory -> Status]
  /\ receipts \subseteq [key: Key, committed: SUBSET Memory, evicted: SUBSET Memory]
  /\ rag \subseteq Memory
  /\ ragReceipts \subseteq Key
  /\ disturbed \subseteq {"overlap", "fault"}

LEMMA TypeInit == Init => TypeOK
BY DEF Init, TypeOK, Status, PC

(* A server that commits has local variables.                              *)
LEMMA AtWork ==
  ASSUME ServersTypeOK, NEW p \in Server, pc[p] # "idle"
  PROVE  job[p] \in Job /\ job[p] # Idle
BY IdleAssumption DEF ServersTypeOK

-----------------------------------------------------------------------------
(* What the ways to leave a statement do to the variables of the servers.  *)

LEMMA GoesOn ==
  ASSUME ServersTypeOK, NEW p \in Server, pc[p] # "idle",
         NEW label \in PC \ {"idle"}, Goto(p, label), UNCHANGED <<job, reply>>
  PROVE  ServersTypeOK'
BY DEF ServersTypeOK, Goto

LEMMA GoesOnWith ==
  ASSUME ServersTypeOK, NEW p \in Server, pc[p] # "idle",
         NEW label \in PC \ {"idle"}, pc' = [pc EXCEPT ![p] = label],
         NEW j \in Job, job' = [job EXCEPT ![p] = j], UNCHANGED reply
  PROVE  ServersTypeOK'
BY IdleAssumption DEF ServersTypeOK

LEMMA Ends ==
  ASSUME ServersTypeOK, NEW p \in Server,
         pc' = [pc EXCEPT ![p] = "idle"], job' = [job EXCEPT ![p] = Idle],
         NEW answer \in Reply, reply' \in {reply, [reply EXCEPT ![p] = answer]}
  PROVE  ServersTypeOK'
BY DEF ServersTypeOK, PC

LEMMA Leaves ==
  ASSUME ServersTypeOK, NEW p \in Server, pc[p] # "idle",
         NEW answer \in Reply, Leave(p, answer)
  PROVE  ServersTypeOK'
<1>1. CASE Goto(p, "rag find receipt") /\ UNCHANGED job
  BY <1>1 DEF Leave, Goto, ServersTypeOK, PC
<1>2. CASE Goto(p, "idle") /\ job' = [job EXCEPT ![p] = Idle]
  BY <1>2, Ends DEF Leave, Goto
<1> QED
  BY <1>1, <1>2 DEF Leave

(* One element less to do: the loops over the parts of a plan.             *)
LEMMA OneLess ==
  ASSUME NEW j \in Job, NEW m \in Memory
  PROVE  /\ [j EXCEPT !.resolve = @ \ {m}] \in Job
         /\ [j EXCEPT !.store = @ \ {m}] \in Job
         /\ [j EXCEPT !.index = @ \ {m}] \in Job
         /\ [j EXCEPT !.evict = @ \ {m}, !.evicted = @ \cup {m}] \in Job
         /\ \A set \in SUBSET Memory : [j EXCEPT !.evict = set] \in Job
         /\ j.resolve \in SUBSET Memory /\ j.store \in SUBSET Memory
         /\ j.index \in SUBSET Memory /\ j.evict \in SUBSET Memory
BY DEF Job

LEMMA TypeStep == TypeOK /\ [Next]_vars => TypeOK'
<1> SUFFICES ASSUME ServersTypeOK, TablesTypeOK, [Next]_vars
             PROVE  ServersTypeOK' /\ TablesTypeOK'
  BY DEF TypeOK, ServersTypeOK, TablesTypeOK, Reply
<1> USE DEF PC
<1>1. ASSUME NEW p \in Server, NEW k \in Key, Begin(p, k)
      PROVE  ServersTypeOK' /\ TablesTypeOK'
  <2>1. PICK wellFormed \in BOOLEAN :
          job' = [job EXCEPT ![p] =
                    [key |-> k, wellFormed |-> wellFormed, resolve |-> Resolved[k],
                     store |-> Entries(k), evict |-> {}, evicted |-> {}, index |-> Rag[k]]]
    BY <1>1 DEF Begin
  <2> DEFINE j == [key |-> k, wellFormed |-> wellFormed, resolve |-> Resolved[k],
                   store |-> Entries(k), evict |-> {}, evicted |-> {}, index |-> Rag[k]]
  <2>2. j \in Job
    BY PlansAssumption DEF Job, Entries
  <2> HIDE DEF j
  <2>3. ServersTypeOK'
    <3>1. \/ pc' = [pc EXCEPT ![p] = "rag find receipt"]
          \/ pc' = [pc EXCEPT ![p] = "validate"]
      BY <1>1 DEF Begin, Goto
    <3>2. job' = [job EXCEPT ![p] = j]
      BY <2>1 DEF j
    <3>3. reply' = [reply EXCEPT ![p] = "none"]
      BY <1>1 DEF Begin
    <3> QED
      BY <2>2, <3>1, <3>2, <3>3, IdleAssumption DEF ServersTypeOK, Reply
  <2>4. TablesTypeOK'
    BY <1>1 DEF Begin, TablesTypeOK
  <2> QED
    BY <2>3, <2>4
<1>2. ASSUME NEW p \in Server, Validate(p) PROVE ServersTypeOK' /\ TablesTypeOK'
  <2>1. TablesTypeOK'
    BY <1>2 DEF Validate, TablesTypeOK
  <2>2. \/ Goto(p, "find receipt") /\ UNCHANGED <<job, reply>>
        \/ Leave(p, "blocked validation")
    BY <1>2 DEF Validate
  <2> QED
    BY <1>2, <2>1, <2>2, GoesOn, Leaves DEF Validate, Reply
<1>3. ASSUME NEW p \in Server, FindReceipt(p) PROVE ServersTypeOK' /\ TablesTypeOK'
  <2>1. TablesTypeOK'
    BY <1>3 DEF FindReceipt, TablesTypeOK
  <2>2. \/ Goto(p, "resolve") /\ UNCHANGED <<job, reply>>
        \/ Leave(p, "replay")
    BY <1>3 DEF FindReceipt
  <2> QED
    BY <1>3, <2>1, <2>2, GoesOn, Leaves DEF FindReceipt, Reply
<1>4. ASSUME NEW p \in Server, Resolve(p) PROVE ServersTypeOK' /\ TablesTypeOK'
  <2>1. CASE Goto(p, "store") /\ UNCHANGED <<status, job>>
    BY <1>4, <2>1, GoesOn DEF Resolve, TablesTypeOK
  <2>2. ASSUME NEW m \in job[p].resolve, SetStatus(m, "resolved"),
               job' = [job EXCEPT ![p].resolve = @ \ {m}], UNCHANGED pc
        PROVE  ServersTypeOK' /\ TablesTypeOK'
    <3>1. job[p] \in Job /\ pc[p] = "resolve" /\ UNCHANGED reply
      BY <1>4, AtWork DEF Resolve
    <3>2. m \in Memory
      BY <3>1 DEF Job
    <3>3. [job[p] EXCEPT !.resolve = @ \ {m}] \in Job
      BY <3>1, <3>2, OneLess
    <3>4. ServersTypeOK'
      BY <2>2, <3>1, <3>3, IdleAssumption DEF ServersTypeOK
    <3>5. TablesTypeOK'
      BY <1>4, <2>2, <3>2 DEF Resolve, SetStatus, TablesTypeOK, Status
    <3> QED
      BY <3>4, <3>5
  <2> QED
    BY <1>4, <2>1, <2>2 DEF Resolve
<1>5. ASSUME NEW p \in Server, Store(p) PROVE ServersTypeOK' /\ TablesTypeOK'
  <2>1. CASE Goto(p, "count") /\ UNCHANGED <<status, job>>
    BY <1>5, <2>1, GoesOn DEF Store, TablesTypeOK
  <2>2. ASSUME NEW m \in job[p].store, status' = [status EXCEPT ![m] = "active"],
               job' = [job EXCEPT ![p].store = @ \ {m}], UNCHANGED pc
        PROVE  ServersTypeOK' /\ TablesTypeOK'
    <3>1. job[p] \in Job /\ pc[p] = "store" /\ UNCHANGED reply
      BY <1>5, AtWork DEF Store
    <3>2. m \in Memory
      BY <3>1 DEF Job
    <3>3. [job[p] EXCEPT !.store = @ \ {m}] \in Job
      BY <3>1, <3>2, OneLess
    <3>4. ServersTypeOK'
      BY <2>2, <3>1, <3>3, IdleAssumption DEF ServersTypeOK
    <3>5. TablesTypeOK'
      BY <1>5, <2>2, <3>2 DEF Store, TablesTypeOK, Status
    <3> QED
      BY <3>4, <3>5
  <2> QED
    BY <1>5, <2>1, <2>2 DEF Store
<1>6. ASSUME NEW p \in Server, Count(p) PROVE ServersTypeOK' /\ TablesTypeOK'
  <2>1. TablesTypeOK' /\ UNCHANGED <<job, reply>>
    BY <1>6 DEF Count, TablesTypeOK
  <2>2. Goto(p, "receipt") \/ Goto(p, "choose")
    BY <1>6 DEF Count
  <2> QED
    BY <1>6, <2>1, <2>2, GoesOn DEF Count
<1>7. ASSUME NEW p \in Server, Choose(p) PROVE ServersTypeOK' /\ TablesTypeOK'
  <2> DEFINE out == {m \in Active : Cardinality(Outranked(m, Active)) >= Limit}
  <2>1. out \in SUBSET Memory
    BY DEF Active
  <2>2. pc[p] = "choose" /\ job' = [job EXCEPT ![p].evict = out]
        /\ Goto(p, "evict") /\ UNCHANGED reply
    BY <1>7 DEF Choose
  <2> HIDE DEF out
  <2>3. job[p] \in Job /\ [job[p] EXCEPT !.evict = out] \in Job
    BY <2>1, <2>2, AtWork DEF Job
  <2>4. ServersTypeOK'
    BY <2>2, <2>3, IdleAssumption DEF ServersTypeOK, Goto
  <2>5. TablesTypeOK'
    BY <1>7 DEF Choose, TablesTypeOK
  <2> QED
    BY <2>4, <2>5
<1>8. ASSUME NEW p \in Server, Evict(p) PROVE ServersTypeOK' /\ TablesTypeOK'
  <2>1. CASE Goto(p, "receipt") /\ UNCHANGED <<status, job>>
    BY <1>8, <2>1, GoesOn DEF Evict, TablesTypeOK
  <2>2. ASSUME NEW m \in job[p].evict, SetStatus(m, "evicted"),
               job' = [job EXCEPT ![p].evict = @ \ {m}, ![p].evicted = @ \cup {m}],
               UNCHANGED pc
        PROVE  ServersTypeOK' /\ TablesTypeOK'
    <3>1. job[p] \in Job /\ pc[p] = "evict" /\ UNCHANGED reply
      BY <1>8, AtWork DEF Evict
    <3>2. m \in Memory
      BY <3>1 DEF Job
    <3>3. [job[p] EXCEPT !.evict = @ \ {m}, !.evicted = @ \cup {m}] \in Job
      BY <3>1, <3>2, OneLess
    <3>4. ServersTypeOK'
      BY <2>2, <3>1, <3>3, IdleAssumption DEF ServersTypeOK
    <3>5. TablesTypeOK'
      BY <1>8, <2>2, <3>2 DEF Evict, SetStatus, TablesTypeOK, Status
    <3> QED
      BY <3>4, <3>5
  <2> QED
    BY <1>8, <2>1, <2>2 DEF Evict
<1>9. ASSUME NEW p \in Server, RecordReceipt(p) PROVE ServersTypeOK' /\ TablesTypeOK'
  <2>1. job[p] \in Job /\ pc[p] # "idle"
    BY <1>9, AtWork DEF RecordReceipt
  <2>2. [key |-> job[p].key, committed |-> Entries(job[p].key), evicted |-> job[p].evicted]
          \in [key: Key, committed: SUBSET Memory, evicted: SUBSET Memory]
    BY <2>1, PlansAssumption DEF Job, Entries
  <2>3. TablesTypeOK'
    BY <1>9, <2>2 DEF RecordReceipt, TablesTypeOK
  <2> QED
    BY <1>9, <2>1, <2>3, Leaves DEF RecordReceipt, Reply
<1>10. ASSUME NEW p \in Server, RagFindReceipt(p) PROVE ServersTypeOK' /\ TablesTypeOK'
  <2>1. TablesTypeOK' /\ UNCHANGED reply /\ pc[p] # "idle"
    BY <1>10 DEF RagFindReceipt, TablesTypeOK
  <2>2. \/ Goto(p, "idle") /\ job' = [job EXCEPT ![p] = Idle]
        \/ Goto(p, "rag store") /\ UNCHANGED job
    BY <1>10 DEF RagFindReceipt
  <2> QED
    BY <2>1, <2>2, GoesOn, Ends DEF Goto, Reply
<1>11. ASSUME NEW p \in Server, RagStore(p) PROVE ServersTypeOK' /\ TablesTypeOK'
  <2>1. CASE Goto(p, "rag receipt") /\ UNCHANGED <<rag, job>>
    BY <1>11, <2>1, GoesOn DEF RagStore, TablesTypeOK
  <2>2. ASSUME NEW m \in job[p].index, rag' = rag \cup {m},
               job' = [job EXCEPT ![p].index = @ \ {m}], UNCHANGED pc
        PROVE  ServersTypeOK' /\ TablesTypeOK'
    <3>1. job[p] \in Job /\ pc[p] = "rag store" /\ UNCHANGED reply
      BY <1>11, AtWork DEF RagStore
    <3>2. m \in Memory
      BY <3>1 DEF Job
    <3>3. [job[p] EXCEPT !.index = @ \ {m}] \in Job
      BY <3>1, <3>2, OneLess
    <3>4. ServersTypeOK'
      BY <2>2, <3>1, <3>3, IdleAssumption DEF ServersTypeOK
    <3>5. TablesTypeOK'
      BY <1>11, <2>2, <3>2 DEF RagStore, TablesTypeOK
    <3> QED
      BY <3>4, <3>5
  <2> QED
    BY <1>11, <2>1, <2>2 DEF RagStore
<1>12. ASSUME NEW p \in Server, RagRecordReceipt(p) PROVE ServersTypeOK' /\ TablesTypeOK'
  <2>1. job[p].key \in Key /\ pc[p] # "idle"
    BY <1>12, AtWork DEF RagRecordReceipt, Job
  <2>2. TablesTypeOK'
    BY <1>12, <2>1 DEF RagRecordReceipt, TablesTypeOK
  <2> QED
    BY <1>12, <2>1, <2>2, Ends DEF RagRecordReceipt, Goto, Reply
<1>13. ASSUME NEW p \in Server, Raise(p) \/ Crash(p) PROVE ServersTypeOK' /\ TablesTypeOK'
  <2>1. TablesTypeOK'
    BY <1>13 DEF Raise, Crash, TablesTypeOK
  <2>2. Abort(p, "failed") \/ Abort(p, "crashed")
    BY <1>13 DEF Raise, Crash
  <2> QED
    BY <2>1, <2>2, Ends DEF Abort, Goto, Reply
<1>14. CASE UNCHANGED vars
  BY <1>14 DEF vars, ServersTypeOK, TablesTypeOK
<1> QED
  BY <1>1, <1>2, <1>3, <1>4, <1>5, <1>6, <1>7, <1>8, <1>9, <1>10, <1>11, <1>12,
     <1>13, <1>14 DEF Next, Step

(* The tables of both layers keep their types, and no local variable of a  *)
(* commit outlives it, whichever commits overlap, fail or die.             *)
THEOREM TypeCorrect == Spec => []TypeOK
BY TypeInit, TypeStep, PTL DEF Spec

-----------------------------------------------------------------------------
(* Facts about ranks and slots.                                            *)

LEMMA MemoriesFinite ==
  ASSUME NEW A \in SUBSET Memory
  PROVE  IsFiniteSet(A) /\ Cardinality(A) \in Nat
BY MemoryAssumption, FS_Subset, FS_CardinalityType

LEMMA FewerMemories ==
  ASSUME NEW A \in SUBSET Memory, NEW B \in SUBSET A
  PROVE  Cardinality(B) \in Nat /\ Cardinality(A) \in Nat /\ Cardinality(B) <= Cardinality(A)
BY MemoriesFinite, FS_Subset

(* The memories of A that retention evicts: Limit others outrank them.     *)
Surplus(A) == {m \in A : Cardinality(Outranked(m, A)) >= Limit}

(* What retention keeps fits into the slots.                               *)
LEMMA KeptFit ==
  ASSUME NEW A \in SUBSET Memory
  PROVE  Cardinality(A \ Surplus(A)) <= Limit
<1> DEFINE K == A \ Surplus(A)
<1>1. CASE K = {}
  BY <1>1, FS_EmptySet, LimitAssumption
<1>2. CASE K # {}
  <2>1. {Rank[m] : m \in K} \in SUBSET Nat /\ {Rank[m] : m \in K} # {}
    BY <1>2, RankAssumption
  <2>2. PICK m \in K : \A n \in K : Rank[m] <= Rank[n]
    <3> DEFINE T == {Rank[m] : m \in K}
    <3>1. T \in SUBSET Nat /\ T # {}
      BY <2>1
    <3>2. PICK x \in T : \A y \in T : x <= y
      <4> HIDE DEF T
      <4> QED
        BY <3>1, Smallest
    <3> HIDE DEF K
    <3> QED
      BY <3>2
  <2>3. K \ {m} \subseteq Outranked(m, A)
    BY <2>2, RankAssumption DEF Outranked
  <2>4. Cardinality(Outranked(m, A)) \in Nat /\ ~(Cardinality(Outranked(m, A)) >= Limit)
    BY <2>2, MemoriesFinite DEF Outranked, Surplus
  <2>5. Cardinality(K \ {m}) <= Cardinality(Outranked(m, A))
    BY <2>3, FewerMemories DEF Outranked
  <2>6. Cardinality(K \ {m}) = Cardinality(K) - 1 /\ Cardinality(K) \in Nat
    BY <2>2, MemoriesFinite, FS_RemoveElement
  <2> QED
    BY <2>4, <2>5, <2>6, LimitAssumption
<1> QED
  BY <1>1, <1>2

(* What retention evicts is outranked by Limit memories that it keeps.     *)
LEMMA KeptOutrank ==
  ASSUME NEW A \in SUBSET Memory, NEW m \in Surplus(A)
  PROVE  Cardinality(Outranked(m, A \ Surplus(A))) >= Limit
<1> DEFINE E == Surplus(A)
           Above(n) == Cardinality(Outranked(n, A))
<1>1. \A n \in Memory : Outranked(n, A) \in SUBSET A /\ Above(n) \in Nat
  BY MemoriesFinite DEF Outranked
<1>2. PICK t \in E : \A n \in E : Above(t) <= Above(n)
  <2>1. {Above(n) : n \in E} \in SUBSET Nat /\ {Above(n) : n \in E} # {}
    BY <1>1 DEF Surplus
  <2> DEFINE T == {Above(n) : n \in E}
  <2>2. PICK x \in T : \A y \in T : x <= y
    <3>1. T \in SUBSET Nat /\ T # {}
      BY <2>1
    <3> HIDE DEF T
    <3> QED
      BY <3>1, Smallest
  <2> HIDE DEF E, Above
  <2> QED
    BY <2>2
<1>3. ASSUME NEW n \in E, Rank[n] > Rank[t] PROVE FALSE
  <2>1. /\ n \in Outranked(t, A)
        /\ Outranked(n, A) \subseteq Outranked(t, A) \ {n}
    BY <1>2, <1>3, RankAssumption DEF Outranked, Surplus
  <2>2. Above(n) <= Cardinality(Outranked(t, A) \ {n})
    BY <1>1, <2>1, FewerMemories DEF Surplus
  <2>3. Cardinality(Outranked(t, A) \ {n}) = Above(t) - 1
    BY <1>1, <2>1, MemoriesFinite, FS_RemoveElement DEF Surplus
  <2> QED
    BY <1>1, <1>2, <2>2, <2>3 DEF Surplus
<1>4. Outranked(t, A) \subseteq Outranked(m, A \ E)
  BY <1>2, <1>3, RankAssumption DEF Outranked, Surplus
<1>5. Above(t) <= Cardinality(Outranked(m, A \ E)) /\ Cardinality(Outranked(m, A \ E)) \in Nat
  BY <1>1, <1>4, FewerMemories DEF Outranked, Surplus
<1>6. Above(t) >= Limit /\ Above(t) \in Nat
  BY <1>1, <1>2 DEF Surplus
<1> QED
  BY <1>5, <1>6, LimitAssumption

-----------------------------------------------------------------------------
(* The inductive invariants.                                               *)

(* Whatever a plan still has to store is in job, the rest is stored.       *)
Progress(p) ==
  pc[p] # "idle" =>
    /\ \A m \in Entries(job[p].key) : m \in job[p].store \/ status[m] # "absent"
    /\ pc[p] \in {"count", "choose", "evict", "receipt"} => job[p].store = {}
    /\ Rag[job[p].key] \subseteq job[p].index \cup rag
    /\ pc[p] = "rag receipt" => job[p].index = {}

StoredInv == ReceiptsTellStored /\ \A p \in Server : Progress(p)

(* Server p is yet to count the slots, or has chosen whom to evict so that *)
(* the others fit.                                                         *)
WillMakeRoom(p) ==
  \/ pc[p] \in {"store", "count", "choose"}
  \/ pc[p] = "evict" /\ Cardinality(Active \ job[p].evict) <= Limit

(* Too many memories are active only while some server is to make room.    *)
SlotsInv ==
  "fault" \notin disturbed =>
    Cardinality(Active) <= Limit \/ \E p \in Server : WillMakeRoom(p)

(* As long as commits have not overlapped, one server commits at most, ... *)
OneCommits ==
  \A p, q \in Server : pc[p] # "idle" /\ pc[q] # "idle" => p = q

(* ... whom it is to evict is outranked by Limit memories it keeps, ...    *)
EvictedAreOutranked ==
  \A p \in Server : pc[p] = "evict" =>
    \A m \in job[p].evict : Cardinality(Outranked(m, Active \ job[p].evict)) >= Limit

(* ... and past the receipt check its key has no receipt.                  *)
KeyIsNew ==
  \A p \in Server :
    pc[p] \in {"resolve", "store", "count", "choose", "evict", "receipt"} =>
      \A r \in receipts : r.key # job[p].key

AloneInv == "overlap" \notin disturbed => OneCommits /\ EvictedAreOutranked /\ KeyIsNew

(* The reply of a commit under way is not one of the commit before.        *)
ReplyIsNew == \A p \in Server : pc[p] = "validate" => reply[p] = "none"

MemoryInv == TypeOK /\ StoredInv /\ SlotsInv /\ AloneInv /\ ReplyIsNew

-----------------------------------------------------------------------------
(* What a step leaves alone.                                               *)

Moves(p) == (\E k \in Key : Begin(p, k)) \/ Step(p) \/ Raise(p) \/ Crash(p)

LEMMA OthersWait ==
  ASSUME TypeOK, NEW p \in Server, Moves(p), NEW q \in Server \ {p}
  PROVE  pc'[q] = pc[q] /\ job'[q] = job[q] /\ reply'[q] = reply[q]
<1> USE DEF TypeOK
<1>1. ASSUME NEW k \in Key, Begin(p, k)
      PROVE  pc'[q] = pc[q] /\ job'[q] = job[q] /\ reply'[q] = reply[q]
  BY <1>1 DEF Begin, Goto
<1>2. ASSUME Validate(p) \/ FindReceipt(p) \/ RecordReceipt(p)
      PROVE  pc'[q] = pc[q] /\ job'[q] = job[q] /\ reply'[q] = reply[q]
  BY <1>2, ZenonT(40) DEF Validate, FindReceipt, RecordReceipt, Leave, Goto
<1>3. ASSUME Resolve(p) \/ Store(p) \/ Count(p) \/ Choose(p) \/ Evict(p)
      PROVE  pc'[q] = pc[q] /\ job'[q] = job[q] /\ reply'[q] = reply[q]
  BY <1>3 DEF Resolve, Store, Count, Choose, Evict, Goto
<1>4. ASSUME RagFindReceipt(p) \/ RagStore(p) \/ RagRecordReceipt(p)
      PROVE  pc'[q] = pc[q] /\ job'[q] = job[q] /\ reply'[q] = reply[q]
  BY <1>4 DEF RagFindReceipt, RagStore, RagRecordReceipt, Goto
<1>5. ASSUME Raise(p) \/ Crash(p)
      PROVE  pc'[q] = pc[q] /\ job'[q] = job[q] /\ reply'[q] = reply[q]
  BY <1>5 DEF Raise, Crash, Abort, Goto
<1> QED
  BY <1>1, <1>2, <1>3, <1>4, <1>5 DEF Moves, Step

(* A memory that is stored stays stored in its layer, and the steps that   *)
(* touch the tables of a layer are known.                                  *)
LEMMA TablesGrow ==
  ASSUME TypeOK, NEW p \in Server, Moves(p)
  PROVE  /\ \A m \in Memory : status[m] # "absent" => status'[m] # "absent"
         /\ rag \subseteq rag'
         /\ receipts' = receipts \/ RecordReceipt(p)
         /\ ragReceipts' = ragReceipts \/ RagRecordReceipt(p)
         /\ status' = status \/ Resolve(p) \/ Store(p) \/ Evict(p)
         /\ disturbed \subseteq disturbed'
<1> USE DEF TypeOK
<1> DEFINE Grown ==
      /\ \A m \in Memory : status[m] # "absent" => status'[m] # "absent"
      /\ rag \subseteq rag'
      /\ receipts' = receipts \/ RecordReceipt(p)
      /\ ragReceipts' = ragReceipts \/ RagRecordReceipt(p)
      /\ status' = status \/ Resolve(p) \/ Store(p) \/ Evict(p)
      /\ disturbed \subseteq disturbed'
<1>1. ASSUME NEW k \in Key, Begin(p, k) PROVE Grown
  BY <1>1 DEF Begin
<1>2. ASSUME Validate(p) \/ FindReceipt(p) \/ RecordReceipt(p) PROVE Grown
  BY <1>2 DEF Validate, FindReceipt, RecordReceipt
<1>3. ASSUME Resolve(p) PROVE Grown
  BY <1>3 DEF Resolve, SetStatus, Status
<1>4. ASSUME Store(p) PROVE Grown
  BY <1>4 DEF Store, Status
<1>5. ASSUME Evict(p) PROVE Grown
  BY <1>5 DEF Evict, SetStatus, Status
<1>6. ASSUME Count(p) \/ Choose(p) \/ Raise(p) \/ Crash(p) PROVE Grown
  BY <1>6 DEF Count, Choose, Raise, Crash
<1>7. ASSUME RagFindReceipt(p) \/ RagStore(p) \/ RagRecordReceipt(p) PROVE Grown
  BY <1>7 DEF RagFindReceipt, RagStore, RagRecordReceipt
<1> QED
  BY <1>1, <1>2, <1>3, <1>4, <1>5, <1>6, <1>7 DEF Moves, Step

(* What a commit knows of its plan while it is under way.                  *)
LEMMA PlanIsTyped ==
  ASSUME TypeOK, NEW p \in Server, pc[p] # "idle"
  PROVE  /\ job[p] \in Job
         /\ job[p].key \in Key
         /\ New[job[p].key] \in SUBSET Memory
         /\ Entries(job[p].key) \in SUBSET Memory
         /\ Rag[job[p].key] \in SUBSET Memory
         /\ Resolved[job[p].key] \in SUBSET Memory
         /\ job[p].store \in SUBSET Memory
         /\ job[p].evict \in SUBSET Memory
         /\ job[p].resolve \in SUBSET Memory
         /\ job[p].index \in SUBSET Memory
BY PlansAssumption DEF TypeOK, Job, Entries

-----------------------------------------------------------------------------
(* What the steps of a commit do to its own local variables.               *)

LEMMA BeginSets ==
  ASSUME TypeOK, NEW p \in Server, NEW k \in Key, Begin(p, k)
  PROVE  /\ Entries(job'[p].key) \subseteq job'[p].store
         /\ Rag[job'[p].key] \subseteq job'[p].index
         /\ pc[p] = "idle" /\ pc'[p] \in {"rag find receipt", "validate"}
         /\ reply'[p] = "none" /\ status' = status
<1>1. PICK wellFormed \in BOOLEAN :
        job' = [job EXCEPT ![p] =
                  [key |-> k, wellFormed |-> wellFormed, resolve |-> Resolved[k],
                   store |-> Entries(k), evict |-> {}, evicted |-> {}, index |-> Rag[k]]]
  BY DEF Begin
<1> DEFINE j == [key |-> k, wellFormed |-> wellFormed, resolve |-> Resolved[k],
                 store |-> Entries(k), evict |-> {}, evicted |-> {}, index |-> Rag[k]]
<1>2. Entries(j.key) \subseteq j.store /\ Rag[j.key] \subseteq j.index
  OBVIOUS
<1>3. job' = [job EXCEPT ![p] = j]
  BY <1>1
<1> HIDE DEF j
<1>4. job'[p] = j
  BY <1>3 DEF TypeOK
<1>5. /\ pc[p] = "idle" /\ pc'[p] \in {"rag find receipt", "validate"}
      /\ reply'[p] = "none" /\ status' = status
  BY DEF Begin, Goto, TypeOK
<1> QED
  BY <1>2, <1>4, <1>5

(* The loop over the resolved memories: at most one of them, in any order. *)
LEMMA ResolveSets ==
  ASSUME TypeOK, NEW p \in Server, Resolve(p)
  PROVE  /\ job'[p].key = job[p].key /\ job'[p].store = job[p].store
         /\ job'[p].index = job[p].index
         /\ pc[p] = "resolve" /\ pc'[p] \in {"resolve", "store"}
         /\ status' = status \/ \E m \in Memory : SetStatus(m, "resolved")
<1>1. job[p] \in Job /\ pc[p] = "resolve"
  BY PlanIsTyped DEF Resolve
<1>2. CASE Goto(p, "store") /\ UNCHANGED <<status, job>>
  BY <1>1, <1>2 DEF Goto, TypeOK
<1>3. ASSUME NEW m \in job[p].resolve, SetStatus(m, "resolved"),
             job' = [job EXCEPT ![p].resolve = @ \ {m}], UNCHANGED pc
      PROVE  /\ job'[p].key = job[p].key /\ job'[p].store = job[p].store
             /\ job'[p].index = job[p].index /\ m \in Memory
  <2>1. job'[p] = [job[p] EXCEPT !.resolve = @ \ {m}]
    BY <1>3 DEF TypeOK
  <2> QED
    BY <1>1, <2>1 DEF Job
<1> QED
  BY <1>1, <1>2, <1>3 DEF Resolve

(* The loop over the new memories.                                         *)
LEMMA StoreSets ==
  ASSUME TypeOK, NEW p \in Server, Store(p)
  PROVE  /\ job'[p].key = job[p].key /\ job'[p].index = job[p].index
         /\ pc[p] = "store"
         /\ \/ /\ job[p].store = {} /\ job'[p] = job[p] /\ pc'[p] = "count"
               /\ status' = status
            \/ /\ pc'[p] = "store"
               /\ \E m \in job[p].store :
                    /\ job'[p].store = job[p].store \ {m}
                    /\ status' = [status EXCEPT ![m] = "active"]
<1>1. job[p] \in Job /\ pc[p] = "store"
  BY PlanIsTyped DEF Store
<1>2. CASE job[p].store = {} /\ Goto(p, "count") /\ UNCHANGED <<status, job>>
  BY <1>1, <1>2 DEF Goto, TypeOK
<1>3. ASSUME NEW m \in job[p].store, status' = [status EXCEPT ![m] = "active"],
             job' = [job EXCEPT ![p].store = @ \ {m}], UNCHANGED pc
      PROVE  /\ job'[p].key = job[p].key /\ job'[p].store = job[p].store \ {m}
             /\ job'[p].index = job[p].index
  <2>1. job'[p] = [job[p] EXCEPT !.store = @ \ {m}]
    BY <1>3 DEF TypeOK
  <2> QED
    BY <1>1, <2>1 DEF Job
<1> QED
  BY <1>1, <1>2, <1>3 DEF Store

LEMMA ChooseSets ==
  ASSUME TypeOK, NEW p \in Server, Choose(p)
  PROVE  /\ job'[p].key = job[p].key /\ job'[p].store = job[p].store
         /\ job'[p].index = job[p].index /\ job'[p].evict = Surplus(Active)
         /\ pc[p] = "choose" /\ pc'[p] = "evict" /\ status' = status
<1>1. job[p] \in Job /\ pc[p] = "choose"
  BY PlanIsTyped DEF Choose
<1>2. job' = [job EXCEPT ![p].evict = Surplus(Active)] /\ Goto(p, "evict")
      /\ status' = status
  BY DEF Choose, Surplus
<1>3. job'[p] = [job[p] EXCEPT !.evict = Surplus(Active)] /\ pc'[p] = "evict"
  BY <1>2 DEF TypeOK, Goto
<1> QED
  BY <1>1, <1>2, <1>3 DEF Job

(* The loop over the memories to evict.                                    *)
LEMMA EvictSets ==
  ASSUME TypeOK, NEW p \in Server, Evict(p)
  PROVE  /\ job'[p].key = job[p].key /\ job'[p].store = job[p].store
         /\ job'[p].index = job[p].index
         /\ pc[p] = "evict"
         /\ \/ /\ job[p].evict = {} /\ job'[p] = job[p] /\ pc'[p] = "receipt"
               /\ status' = status
            \/ /\ pc'[p] = "evict"
               /\ \E m \in job[p].evict :
                    /\ job'[p].evict = job[p].evict \ {m}
                    /\ SetStatus(m, "evicted")
<1>1. job[p] \in Job /\ pc[p] = "evict"
  BY PlanIsTyped DEF Evict
<1>2. CASE job[p].evict = {} /\ Goto(p, "receipt") /\ UNCHANGED <<status, job>>
  BY <1>1, <1>2 DEF Goto, TypeOK
<1>3. ASSUME NEW m \in job[p].evict, SetStatus(m, "evicted"),
             job' = [job EXCEPT ![p].evict = @ \ {m}, ![p].evicted = @ \cup {m}],
             UNCHANGED pc
      PROVE  /\ job'[p].key = job[p].key /\ job'[p].store = job[p].store
             /\ job'[p].index = job[p].index
             /\ job'[p].evict = job[p].evict \ {m}
  <2>1. job'[p] = [job[p] EXCEPT !.evict = @ \ {m}, !.evicted = @ \cup {m}]
    BY <1>3 DEF TypeOK
  <2> QED
    BY <1>1, <2>1 DEF Job
<1> QED
  BY <1>1, <1>2, <1>3 DEF Evict

LEMMA RagStoreSets ==
  ASSUME TypeOK, NEW p \in Server, RagStore(p)
  PROVE  /\ job'[p].key = job[p].key /\ job'[p].store = job[p].store
         /\ pc[p] = "rag store"
         /\ \/ job[p].index = {} /\ job'[p] = job[p] /\ pc'[p] = "rag receipt"
            \/ /\ pc'[p] = "rag store"
               /\ \E m \in job[p].index :
                    job'[p].index = job[p].index \ {m} /\ rag' = rag \cup {m}
<1>1. job[p] \in Job /\ pc[p] = "rag store"
  BY PlanIsTyped DEF RagStore
<1>2. CASE job[p].index = {} /\ Goto(p, "rag receipt") /\ UNCHANGED <<rag, job>>
  BY <1>1, <1>2 DEF Goto, TypeOK
<1>3. ASSUME NEW m \in job[p].index, rag' = rag \cup {m},
             job' = [job EXCEPT ![p].index = @ \ {m}], UNCHANGED pc
      PROVE  /\ job'[p].key = job[p].key /\ job'[p].store = job[p].store
             /\ job'[p].index = job[p].index \ {m}
  <2>1. job'[p] = [job[p] EXCEPT !.index = @ \ {m}]
    BY <1>3 DEF TypeOK
  <2> QED
    BY <1>1, <2>1 DEF Job
<1> QED
  BY <1>1, <1>2, <1>3 DEF RagStore

-----------------------------------------------------------------------------
(* What the receipts say is stored.                                        *)

LEMMA ProgressKept ==
  ASSUME TypeOK, NEW p \in Server, Moves(p), Progress(p), pc[p] # "idle",
         pc'[p] = "idle" \/ job'[p] = job[p],
         pc'[p] \in {"count", "choose", "evict", "receipt"} =>
           job[p].store = {} \/ pc[p] \in {"count", "choose", "evict", "receipt"},
         pc'[p] = "rag receipt" => job[p].index = {}
  PROVE  Progress(p)'
BY TablesGrow, PlanIsTyped DEF Progress

LEMMA OwnProgress ==
  ASSUME TypeOK, NEW p \in Server, Moves(p), Progress(p)
  PROVE  Progress(p)'
<1>1. ASSUME NEW k \in Key, Begin(p, k) PROVE Progress(p)'
  BY <1>1, BeginSets DEF Progress
<1>2. ASSUME Validate(p) \/ FindReceipt(p) \/ RecordReceipt(p) PROVE Progress(p)'
  <2>1. /\ pc[p] # "idle"
        /\ pc'[p] \in {"idle", "find receipt", "resolve", "rag find receipt"}
        /\ pc'[p] = "idle" \/ job'[p] = job[p]
    BY <1>2 DEF Validate, FindReceipt, RecordReceipt, Leave, Goto, TypeOK
  <2> QED
    BY <2>1, ProgressKept
<1>3. ASSUME Resolve(p) PROVE Progress(p)'
  BY <1>3, ResolveSets, TablesGrow, PlanIsTyped DEF Progress
<1>4. ASSUME Store(p) PROVE Progress(p)'
  <2>1. CASE job[p].store = {} /\ job'[p] = job[p] /\ pc'[p] = "count"
    BY <1>4, <2>1, StoreSets, ProgressKept
  <2>2. ASSUME pc'[p] = "store", NEW m \in job[p].store,
               job'[p].store = job[p].store \ {m},
               status' = [status EXCEPT ![m] = "active"]
        PROVE  Progress(p)'
    <3>1. status'[m] # "absent"
      BY <1>4, <2>2, StoreSets, PlanIsTyped DEF TypeOK
    <3> QED
      BY <1>4, <2>2, <3>1, StoreSets, TablesGrow, PlanIsTyped DEF Progress
  <2> QED
    BY <1>4, <2>1, <2>2, StoreSets
<1>5. ASSUME Count(p) PROVE Progress(p)'
  <2>1. pc[p] = "count" /\ pc'[p] \in {"receipt", "choose"} /\ job'[p] = job[p]
    BY <1>5 DEF Count, Goto, TypeOK
  <2> QED
    BY <2>1, ProgressKept
<1>6. ASSUME Choose(p) \/ Evict(p) PROVE Progress(p)'
  BY <1>6, ChooseSets, EvictSets, TablesGrow, PlanIsTyped DEF Progress
<1>7. ASSUME RagFindReceipt(p) PROVE Progress(p)'
  <2>1. /\ pc[p] # "idle" /\ pc'[p] \in {"idle", "rag store"}
        /\ pc'[p] = "idle" \/ job'[p] = job[p]
    BY <1>7 DEF RagFindReceipt, Goto, TypeOK
  <2> QED
    BY <2>1, ProgressKept
<1>8. ASSUME RagStore(p) PROVE Progress(p)'
  <2>1. CASE job[p].index = {} /\ job'[p] = job[p] /\ pc'[p] = "rag receipt"
    BY <1>8, <2>1, RagStoreSets, ProgressKept
  <2>2. ASSUME pc'[p] = "rag store", NEW m \in job[p].index,
               job'[p].index = job[p].index \ {m}, rag' = rag \cup {m}
        PROVE  Progress(p)'
    BY <1>8, <2>2, RagStoreSets, TablesGrow, PlanIsTyped DEF Progress
  <2> QED
    BY <1>8, <2>1, <2>2, RagStoreSets
<1>9. ASSUME RagRecordReceipt(p) \/ Raise(p) \/ Crash(p) PROVE Progress(p)'
  <2>1. pc'[p] = "idle"
    BY <1>9 DEF RagRecordReceipt, Raise, Crash, Abort, Goto, TypeOK
  <2> QED
    BY <2>1 DEF Progress
<1> QED
  BY <1>1, <1>2, <1>3, <1>4, <1>5, <1>6, <1>7, <1>8, <1>9 DEF Moves, Step

LEMMA StoredStep ==
  ASSUME TypeOK, StoredInv, NEW p \in Server, Moves(p)
  PROVE  StoredInv'
<1>1. ASSUME NEW q \in Server PROVE Progress(q)'
  <2>1. CASE q = p
    BY <2>1, OwnProgress DEF StoredInv
  <2>2. CASE q # p
    <3>1. pc'[q] = pc[q] /\ job'[q] = job[q] /\ Progress(q)
      BY <2>2, OthersWait DEF StoredInv
    <3> QED
      BY <3>1, TablesGrow, PlanIsTyped DEF Progress
  <2> QED
    BY <2>1, <2>2
<1>2. ASSUME NEW r \in receipts', NEW m \in r.committed PROVE status'[m] # "absent"
  <2>1. CASE r \in receipts
    <3>1. m \in Memory /\ status[m] # "absent"
      BY <1>2, <2>1 DEF StoredInv, ReceiptsTellStored, TypeOK
    <3> QED
      BY <3>1, TablesGrow
  <2>2. CASE r \notin receipts
    <3>1. RecordReceipt(p) /\ pc[p] = "receipt"
      BY <2>2, TablesGrow DEF RecordReceipt
    <3>2. r.committed = Entries(job[p].key)
      BY <1>2, <2>2, <3>1 DEF RecordReceipt
    <3>3. status[m] # "absent" /\ m \in Memory
      BY <1>2, <3>1, <3>2, PlanIsTyped DEF StoredInv, Progress
    <3> QED
      BY <3>3, TablesGrow
  <2> QED
    BY <2>1, <2>2
<1>3. ASSUME NEW k \in ragReceipts' PROVE Rag[k] \subseteq rag'
  <2>1. CASE k \in ragReceipts
    BY <2>1, TablesGrow DEF StoredInv, ReceiptsTellStored
  <2>2. CASE k \notin ragReceipts
    <3>1. RagRecordReceipt(p) /\ pc[p] = "rag receipt" /\ k = job[p].key
      BY <1>3, <2>2, TablesGrow DEF RagRecordReceipt
    <3>2. Rag[k] \subseteq rag
      BY <3>1 DEF StoredInv, Progress
    <3> QED
      BY <3>2, TablesGrow
  <2> QED
    BY <2>1, <2>2
<1> QED
  BY <1>1, <1>2, <1>3 DEF StoredInv, ReceiptsTellStored

-----------------------------------------------------------------------------
(* The slots.                                                              *)

(* A memory whose status is set to another one is no longer active.        *)
LEMMA LessActive ==
  ASSUME TypeOK, NEW m \in Memory, NEW value \in Status \ {"active"}, SetStatus(m, value)
  PROVE  Active' = Active \ {m}
BY DEF TypeOK, SetStatus, Active

(* Only Store makes a memory active.                                       *)
LEMMA ActiveShrinks ==
  ASSUME TypeOK, NEW p \in Server, Moves(p), ~Store(p)
  PROVE  Active' \subseteq Active
<1>1. CASE status' = status
  BY <1>1 DEF Active
<1>2. CASE Resolve(p)
  <2>1. status' = status \/ \E m \in Memory : SetStatus(m, "resolved")
    BY <1>2, ResolveSets
  <2> QED
    BY <1>1, <2>1, LessActive DEF Status
<1>3. CASE Evict(p)
  <2>1. status' = status \/ \E m \in Memory : SetStatus(m, "evicted")
    BY <1>3, EvictSets, PlanIsTyped
  <2> QED
    BY <1>1, <2>1, LessActive DEF Status
<1> QED
  BY <1>1, <1>2, <1>3, TablesGrow

LEMMA CutShortIsAFault ==
  ASSUME TypeOK, NEW p \in Server, Raise(p) \/ Crash(p)
  PROVE  "fault" \in disturbed' /\ status' = status
BY DEF Raise, Crash

(* The statements at which a server has not made room yet.                 *)
LEMMA OwnRoom ==
  ASSUME TypeOK, NEW p \in Server, Moves(p), "fault" \notin disturbed',
         WillMakeRoom(p), ~(Cardinality(Active') <= Limit)
  PROVE  WillMakeRoom(p)'
<1>1. pc[p] \in {"store", "count", "choose", "evict"}
  BY DEF WillMakeRoom
<1>2. Store(p) \/ Count(p) \/ Choose(p) \/ Evict(p)
  BY <1>1, CutShortIsAFault
     DEF Moves, Step, Begin, Validate, FindReceipt, Resolve, RecordReceipt,
         RagFindReceipt, RagStore, RagRecordReceipt
<1>3. CASE Store(p)
  BY <1>3, StoreSets DEF WillMakeRoom
<1>4. CASE Count(p)
  <2>1. Active' = Active
    BY <1>4 DEF Count, Active
  <2>2. pc'[p] = "choose"
    BY <1>4, <2>1 DEF Count, Goto, TypeOK
  <2> QED
    BY <2>2 DEF WillMakeRoom
<1>5. CASE Choose(p)
  <2>1. /\ pc'[p] = "evict" /\ job'[p].evict = Surplus(Active)
        /\ Active' = Active /\ Active \in SUBSET Memory
    BY <1>5, ChooseSets DEF Active
  <2>2. Cardinality(Active' \ job'[p].evict) <= Limit
    BY <2>1, KeptFit
  <2> QED
    BY <2>1, <2>2 DEF WillMakeRoom
<1>6. CASE Evict(p)
  <2>1. pc[p] = "evict" /\ Cardinality(Active \ job[p].evict) <= Limit
    BY <1>6, EvictSets DEF WillMakeRoom
  <2>2. CASE job[p].evict = {} /\ status' = status
    <3>1. Active' = Active \ job[p].evict
      BY <2>2 DEF Active
    <3> QED
      BY <2>1, <3>1
  <2>3. ASSUME pc'[p] = "evict", NEW m \in job[p].evict,
               job'[p].evict = job[p].evict \ {m}, SetStatus(m, "evicted")
        PROVE  WillMakeRoom(p)'
    <3>1. Active' = Active \ {m}
      BY <1>1, <2>3, LessActive, PlanIsTyped DEF Status
    <3>2. Active' \ job'[p].evict = Active \ job[p].evict
      BY <2>3, <3>1
    <3> QED
      BY <2>1, <2>3, <3>2 DEF WillMakeRoom
  <2> QED
    BY <1>6, <2>2, <2>3, EvictSets
<1> QED
  BY <1>2, <1>3, <1>4, <1>5, <1>6

LEMMA SlotsStep ==
  ASSUME TypeOK, TypeOK', SlotsInv, NEW p \in Server, Moves(p)
  PROVE  SlotsInv'
<1> SUFFICES ASSUME "fault" \notin disturbed', ~(Cardinality(Active') <= Limit)
             PROVE  \E q \in Server : WillMakeRoom(q)'
  BY DEF SlotsInv
<1>1. Active \in SUBSET Memory /\ Active' \in SUBSET Memory
  BY DEF Active
<1>2. CASE Store(p)
  BY <1>2, StoreSets DEF WillMakeRoom
<1>3. CASE ~Store(p)
  <2>1. Active' \subseteq Active
    BY <1>3, ActiveShrinks
  <2>2. ~(Cardinality(Active) <= Limit)
    <3>1. /\ Cardinality(Active') \in Nat /\ Cardinality(Active) \in Nat
          /\ Cardinality(Active') <= Cardinality(Active)
      BY <1>1, <2>1, FewerMemories
    <3> QED
      BY <3>1, LimitAssumption
  <2>3. PICK q \in Server : WillMakeRoom(q)
    BY <2>2, TablesGrow DEF SlotsInv
  <2>4. CASE q = p
    BY <2>3, <2>4, OwnRoom
  <2>5. CASE q # p
    <3>1. pc'[q] = pc[q] /\ job'[q] = job[q]
      BY <2>5, OthersWait
    <3>2. CASE pc[q] = "evict"
      <4>1. Cardinality(Active \ job[q].evict) <= Limit
        BY <2>3, <3>2 DEF WillMakeRoom
      <4>2. Active' \ job[q].evict \subseteq Active \ job[q].evict
        BY <2>1
      <4>3. /\ Cardinality(Active' \ job[q].evict) \in Nat
            /\ Cardinality(Active \ job[q].evict) \in Nat
            /\ Cardinality(Active' \ job[q].evict) <= Cardinality(Active \ job[q].evict)
        <5> DEFINE A == Active \ job[q].evict
                   B == Active' \ job[q].evict
        <5>1. A \in SUBSET Memory /\ B \in SUBSET A
          BY <1>1, <4>2
        <5> HIDE DEF A, B
        <5>2. Cardinality(B) \in Nat /\ Cardinality(A) \in Nat /\ Cardinality(B) <= Cardinality(A)
          BY <5>1, FewerMemories
        <5> QED
          BY <5>2 DEF A, B
      <4>4. Cardinality(Active' \ job'[q].evict) <= Limit
        BY <3>1, <4>1, <4>3, LimitAssumption
      <4> QED
        BY <3>1, <3>2, <4>4 DEF WillMakeRoom
    <3>3. CASE pc[q] # "evict"
      BY <2>3, <3>1, <3>3 DEF WillMakeRoom
    <3> QED
      BY <3>2, <3>3
  <2> QED
    BY <2>4, <2>5
<1> QED
  BY <1>2, <1>3

-----------------------------------------------------------------------------
(* One commit at a time.                                                   *)

Past == {"resolve", "store", "count", "choose", "evict", "receipt"}

(* A server comes past the receipt check only without a receipt.           *)
LEMMA PastTheCheck ==
  ASSUME TypeOK, NEW p \in Server, Moves(p), pc'[p] \in Past
  PROVE  /\ receipts' = receipts
         /\ job'[p].key = job[p].key
         /\ pc[p] \in Past \/ \A r \in receipts : r.key # job[p].key
<1> DEFINE Kept == /\ receipts' = receipts
                   /\ job'[p].key = job[p].key
                   /\ pc[p] \in Past \/ \A r \in receipts : r.key # job[p].key
<1> USE DEF Past
<1>1. ASSUME NEW k \in Key, Begin(p, k) PROVE FALSE
  BY <1>1, BeginSets
<1>2. ASSUME Validate(p) \/ RecordReceipt(p) PROVE FALSE
  BY <1>2, ZenonT(40) DEF Validate, RecordReceipt, Leave, Goto, TypeOK
<1>3. ASSUME FindReceipt(p) PROVE Kept
  BY <1>3, ZenonT(40) DEF FindReceipt, Leave, Goto, TypeOK
<1>4. ASSUME Resolve(p) PROVE Kept
  BY <1>4, ResolveSets DEF Resolve
<1>5. ASSUME Store(p) PROVE Kept
  BY <1>5, StoreSets DEF Store
<1>6. ASSUME Count(p) PROVE Kept
  BY <1>6 DEF Count
<1>7. ASSUME Choose(p) PROVE Kept
  BY <1>7, ChooseSets DEF Choose
<1>8. ASSUME Evict(p) PROVE Kept
  BY <1>8, EvictSets DEF Evict
<1>9. ASSUME RagFindReceipt(p) \/ RagRecordReceipt(p) PROVE FALSE
  BY <1>9 DEF RagFindReceipt, RagRecordReceipt, Goto, TypeOK
<1>10. ASSUME RagStore(p) PROVE FALSE
  BY <1>10, RagStoreSets
<1>11. ASSUME Raise(p) \/ Crash(p) PROVE FALSE
  BY <1>11 DEF Raise, Crash, Abort, Goto, TypeOK
<1> QED
  BY <1>1, <1>2, <1>3, <1>4, <1>5, <1>6, <1>7, <1>8, <1>9, <1>10, <1>11 DEF Moves, Step

(* A server that does not start is the one that commits already.           *)
LEMMA Alone ==
  ASSUME TypeOK, AloneInv, NEW p \in Server, Moves(p), "overlap" \notin disturbed'
  PROVE  /\ "overlap" \notin disturbed
         /\ \A q \in Server \ {p} : pc[q] = "idle" /\ pc'[q] = "idle"
<1>1. "overlap" \notin disturbed
  BY TablesGrow
<1>2. ASSUME NEW k \in Key, Begin(p, k) PROVE \A q \in Server : pc[q] = "idle"
  BY <1>2 DEF Begin
<1>3. ASSUME \A k \in Key : ~Begin(p, k) PROVE pc[p] # "idle"
  BY <1>3 DEF Moves, Step, Validate, FindReceipt, Resolve, Store, Count, Choose, Evict,
              RecordReceipt, RagFindReceipt, RagStore, RagRecordReceipt, Raise, Crash
<1>4. \A q \in Server \ {p} : pc[q] = "idle"
  BY <1>1, <1>2, <1>3 DEF AloneInv, OneCommits
<1> QED
  BY <1>1, <1>4, OthersWait

(* A server comes to evict from Choose, and stays for each eviction.       *)
LEMMA ToEvict ==
  ASSUME TypeOK, NEW p \in Server, Moves(p), pc'[p] = "evict"
  PROVE  Choose(p) \/ Evict(p)
<1>1. ASSUME NEW k \in Key, Begin(p, k) PROVE FALSE
  BY <1>1, BeginSets
<1>2. ASSUME Validate(p) \/ FindReceipt(p) \/ RecordReceipt(p) PROVE FALSE
  BY <1>2 DEF Validate, FindReceipt, RecordReceipt, Leave, Goto, TypeOK
<1>3. ASSUME Count(p) PROVE FALSE
  BY <1>3 DEF Count, Goto, TypeOK
<1>4. ASSUME RagFindReceipt(p) \/ RagRecordReceipt(p) \/ Raise(p) \/ Crash(p) PROVE FALSE
  BY <1>4 DEF RagFindReceipt, RagRecordReceipt, Raise, Crash, Abort, Goto, TypeOK
<1>5. ASSUME Resolve(p) \/ Store(p) \/ RagStore(p) PROVE FALSE
  BY <1>5, ResolveSets, StoreSets, RagStoreSets
<1> QED
  BY <1>1, <1>2, <1>3, <1>4, <1>5 DEF Moves, Step

LEMMA AloneStep ==
  ASSUME TypeOK, TypeOK', AloneInv, NEW p \in Server, Moves(p)
  PROVE  AloneInv'
<1> SUFFICES ASSUME "overlap" \notin disturbed'
             PROVE  (OneCommits /\ EvictedAreOutranked /\ KeyIsNew)'
  BY DEF AloneInv
<1>1. /\ \A q \in Server \ {p} : pc'[q] = "idle"
      /\ OneCommits /\ EvictedAreOutranked /\ KeyIsNew
  BY Alone DEF AloneInv
<1>2. OneCommits'
  BY <1>1 DEF OneCommits
<1>3. EvictedAreOutranked'
  <2> SUFFICES ASSUME pc'[p] = "evict", NEW n \in job'[p].evict
               PROVE  Cardinality(Outranked(n, Active' \ job'[p].evict)) >= Limit
    BY <1>1 DEF EvictedAreOutranked, Outranked
  <2>1. Choose(p) \/ Evict(p)
    BY ToEvict
  <2>2. CASE Choose(p)
    <3>1. Active' = Active /\ job'[p].evict = Surplus(Active) /\ Active \in SUBSET Memory
      BY <2>2, ChooseSets DEF Active
    <3>2. n \in Surplus(Active)
      BY <3>1
    <3>3. Cardinality(Outranked(n, Active \ Surplus(Active))) >= Limit
      BY <3>1, <3>2, KeptOutrank
    <3> QED
      BY <3>1, <3>3
  <2>3. CASE Evict(p)
    <3>1. PICK m \in job[p].evict :
            job'[p].evict = job[p].evict \ {m} /\ SetStatus(m, "evicted")
      BY <2>3, EvictSets
    <3>2. Active' = Active \ {m}
      BY <2>3, <3>1, LessActive, PlanIsTyped, EvictSets DEF Status
    <3>3. Active' \ job'[p].evict = Active \ job[p].evict
      BY <3>1, <3>2
    <3>4. n \in job[p].evict /\ pc[p] = "evict"
      BY <2>3, <3>1, EvictSets
    <3>5. Cardinality(Outranked(n, Active \ job[p].evict)) >= Limit
      BY <1>1, <3>4 DEF EvictedAreOutranked
    <3> QED
      BY <3>3, <3>5
  <2> QED
    BY <2>1, <2>2, <2>3
<1>4. KeyIsNew'
  <2> SUFFICES ASSUME pc'[p] \in Past
               PROVE  \A r \in receipts' : r.key # job'[p].key
    BY <1>1 DEF KeyIsNew, Past
  <2> QED
    BY <1>1, PastTheCheck DEF KeyIsNew, Past
<1> QED
  BY <1>2, <1>3, <1>4

LEMMA ReplyStep ==
  ASSUME TypeOK, ReplyIsNew, NEW p \in Server, Moves(p)
  PROVE  ReplyIsNew'
<1>1. \A q \in Server \ {p} : pc'[q] = "validate" => reply'[q] = "none"
  BY OthersWait DEF ReplyIsNew
<1>2. pc'[p] = "validate" => reply'[p] = "none"
  <2>1. ASSUME NEW k \in Key, Begin(p, k) PROVE reply'[p] = "none"
    BY <2>1, BeginSets
  <2>2. ASSUME Validate(p) \/ FindReceipt(p) \/ RecordReceipt(p) \/ Count(p)
        PROVE  pc'[p] # "validate"
    BY <2>2 DEF Validate, FindReceipt, RecordReceipt, Count, Leave, Goto, TypeOK
  <2>3. ASSUME RagFindReceipt(p) \/ RagRecordReceipt(p) \/ Raise(p) \/ Crash(p)
        PROVE  pc'[p] # "validate"
    BY <2>3 DEF RagFindReceipt, RagRecordReceipt, Raise, Crash, Abort, Goto, TypeOK
  <2>4. ASSUME Resolve(p) \/ Store(p) \/ Choose(p) \/ Evict(p) \/ RagStore(p)
        PROVE  pc'[p] # "validate"
    BY <2>4, ResolveSets, StoreSets, ChooseSets, EvictSets, RagStoreSets
  <2> QED
    BY <2>1, <2>2, <2>3, <2>4 DEF Moves, Step
<1> QED
  BY <1>1, <1>2 DEF ReplyIsNew

-----------------------------------------------------------------------------
LEMMA MemoryInit == Init => MemoryInv
<1> SUFFICES ASSUME Init PROVE MemoryInv
  OBVIOUS
<1>1. TypeOK
  BY TypeInit
<1>2. StoredInv /\ ReplyIsNew
  BY DEF Init, StoredInv, ReceiptsTellStored, Progress, ReplyIsNew
<1>3. AloneInv
  BY DEF Init, AloneInv, OneCommits, EvictedAreOutranked, KeyIsNew
<1>4. SlotsInv
  <2>1. Active = {}
    BY DEF Init, Active
  <2> QED
    BY <2>1, FS_EmptySet, LimitAssumption DEF SlotsInv
<1> QED
  BY <1>1, <1>2, <1>3, <1>4 DEF MemoryInv

LEMMA MemoryStep == MemoryInv /\ [Next]_vars => MemoryInv'
<1> SUFFICES ASSUME MemoryInv, [Next]_vars PROVE MemoryInv'
  OBVIOUS
<1>1. TypeOK'
  BY TypeStep DEF MemoryInv
<1>2. ASSUME NEW p \in Server, Moves(p) PROVE MemoryInv'
  BY <1>1, <1>2, StoredStep, SlotsStep, AloneStep, ReplyStep DEF MemoryInv
<1>3. CASE UNCHANGED vars
  <2> USE DEF vars
  <2>1. StoredInv' /\ ReplyIsNew'
    BY <1>3 DEF MemoryInv, StoredInv, ReceiptsTellStored, Progress, ReplyIsNew
  <2>2. Active' = Active
    BY <1>3 DEF Active
  <2>3. SlotsInv'
    BY <1>3, <2>2 DEF MemoryInv, SlotsInv, WillMakeRoom
  <2>4. AloneInv'
    BY <1>3, <2>2
       DEF MemoryInv, AloneInv, OneCommits, EvictedAreOutranked, KeyIsNew, Outranked
  <2> QED
    BY <1>1, <2>1, <2>3, <2>4 DEF MemoryInv
<1> QED
  BY <1>2, <1>3 DEF Next, Moves

THEOREM MemoryInvariant == Spec => []MemoryInv
BY MemoryInit, MemoryStep, PTL DEF Spec

(* What a receipt says was committed is stored, in both layers, whichever  *)
(* commits overlap, fail or die.                                           *)
THEOREM ReplaysAreTrue == Spec => []ReceiptsTellStored
<1>1. MemoryInv => ReceiptsTellStored
  BY DEF MemoryInv, StoredInv
<1> QED
  BY <1>1, MemoryInvariant, PTL

(* No more memories are active than there are slots once every commit is   *)
(* over, however many overlapped, as long as none was cut short.           *)
THEOREM SlotsBounded == Spec => []ActiveWithinLimit
<1>1. MemoryInv => ActiveWithinLimit
  BY DEF MemoryInv, SlotsInv, WillMakeRoom, ActiveWithinLimit
<1> QED
  BY <1>1, MemoryInvariant, PTL

(* A commit writes only for a key without a receipt, unless two commits    *)
(* overlapped, whichever commits were cut short.                           *)
THEOREM ReplaysWriteNothing == Spec => []ReplayWritesNothing
<1>1. MemoryInv => ReplayWritesNothing
  BY DEF MemoryInv, AloneInv, KeyIsNew, ReplayWritesNothing
<1> QED
  BY <1>1, MemoryInvariant, PTL

-----------------------------------------------------------------------------
(* What a step of retention may do.                                        *)

LEMMA EvictionIsFair ==
  ASSUME MemoryInv, NEW p \in Server, Moves(p), NEW m \in Memory,
         "overlap" \notin disturbed', status[m] = "active", status'[m] = "evicted"
  PROVE  Cardinality(Outranked(m, Active')) >= Limit
<1> USE DEF MemoryInv
<1>1. Evict(p)
  <2>1. ASSUME Resolve(p) PROVE status'[m] # "evicted"
    <3>1. status' = status \/ \E n \in Memory : SetStatus(n, "resolved")
      BY <2>1, ResolveSets
    <3> QED
      BY <3>1 DEF SetStatus, TypeOK
  <2>2. ASSUME Store(p) PROVE status'[m] # "evicted"
    <3>1. status' = status \/ \E n \in Memory : status' = [status EXCEPT ![n] = "active"]
      BY <2>2, StoreSets, PlanIsTyped
    <3> QED
      BY <3>1 DEF TypeOK
  <2> QED
    BY <2>1, <2>2, TablesGrow
<1>2. PICK n \in job[p].evict : SetStatus(n, "evicted")
  BY <1>1, EvictSets
<1>3. n \in Memory /\ pc[p] = "evict"
  BY <1>1, EvictSets, PlanIsTyped
<1>4. n = m
  BY <1>2, <1>3 DEF SetStatus, TypeOK
<1>5. Active' = Active \ {m}
  BY <1>2, <1>4, LessActive DEF Status
<1>6. Cardinality(Outranked(m, Active \ job[p].evict)) >= Limit
  BY <1>2, <1>3, <1>4, Alone DEF AloneInv, EvictedAreOutranked
<1>7. Outranked(m, Active \ job[p].evict) \subseteq Outranked(m, Active')
  BY <1>2, <1>4, <1>5 DEF Outranked
<1>8. Outranked(m, Active') \in SUBSET Memory
  BY DEF Outranked, Active
<1> DEFINE A == Outranked(m, Active')
           B == Outranked(m, Active \ job[p].evict)
<1>9. A \in SUBSET Memory /\ B \in SUBSET A /\ Cardinality(B) >= Limit
  BY <1>6, <1>7, <1>8
<1> HIDE DEF A, B
<1>10. Cardinality(A) >= Limit
  BY <1>9, FewerMemories, LimitAssumption
<1> QED
  BY <1>10 DEF A

(* Retention evicts a memory only while Limit memories that rank higher    *)
(* stay active, for any number of slots and any ranking.                   *)
THEOREM RetentionEvictsLowest == Spec => EvictsLowest
<1> DEFINE Fair == \A m \in Memory :
             "overlap" \notin disturbed' /\ status[m] = "active" /\ status'[m] = "evicted"
               => Cardinality(Outranked(m, Active')) >= Limit
<1>1. ASSUME MemoryInv, [Next]_vars PROVE [Fair]_vars
  BY <1>1, EvictionIsFair DEF Next, Moves
<1> QED
  BY <1>1, MemoryInvariant, PTL DEF Spec, EvictsLowest

LEMMA RoomForAll ==
  ASSUME NEW a \in Nat, NEW n \in Nat, NEW r \in Nat, NEW l \in Nat, a <= l
  PROVE  a + n - r > l => a + n - r - l <= n
OBVIOUS

LEMMA FitsWhenWithin ==
  ASSUME NEW count \in Nat, NEW k \in Key, count <= Limit,
         Cardinality(New[k]) \in Nat, Cardinality(Resolved[k]) \in Nat
  PROVE  FitsLimit(count, k)
BY LimitAssumption, RoomForAll DEF FitsLimit

LEMMA RoomIsMade ==
  ASSUME MemoryInv, NEW p \in Server, Moves(p), NEW q \in Server,
         disturbed' = {}, pc[q] = "validate", reply'[q] = "blocked validation"
  PROVE  ~job[q].wellFormed
<1> USE DEF MemoryInv
<1>1. reply[q] = "none"
  BY DEF ReplyIsNew
<1>2. q = p
  BY <1>1, OthersWait
<1>3. Validate(p)
  BY <1>2, CutShortIsAFault
     DEF Moves, Step, Begin, FindReceipt, Resolve, Store, Count, Choose, Evict,
         RecordReceipt, RagFindReceipt, RagStore, RagRecordReceipt
<1>4. ~(job[p].wellFormed /\ FitsLimit(Cardinality(Active), job[p].key))
  BY <1>1, <1>2, <1>3 DEF Validate
<1>5. Cardinality(Active) <= Limit
  <2>1. "fault" \notin disturbed
    BY TablesGrow
  <2>2. \A r \in Server \ {p} : pc[r] = "idle"
    BY Alone
  <2>3. ~WillMakeRoom(p) /\ \A r \in Server \ {p} : ~WillMakeRoom(r)
    BY <1>2, <2>2 DEF WillMakeRoom
  <2> QED
    BY <2>1, <2>3 DEF SlotsInv
<1>6. FitsLimit(Cardinality(Active), job[p].key)
  <2>1. Active \in SUBSET Memory /\ New[job[p].key] \in SUBSET Memory
        /\ Resolved[job[p].key] \in SUBSET Memory
    BY <1>2, PlanIsTyped DEF Active
  <2>2. /\ Cardinality(Active) \in Nat /\ Cardinality(New[job[p].key]) \in Nat
        /\ Cardinality(Resolved[job[p].key]) \in Nat /\ Limit \in Nat
    BY <2>1, MemoriesFinite, LimitAssumption
  <2> QED
    BY <1>2, <1>5, <2>2, PlanIsTyped, FitsWhenWithin
<1> QED
  BY <1>2, <1>4, <1>6

(* While commits neither overlap nor are cut short, a well-formed plan is  *)
(* never refused for want of a slot, however many memories it brings.      *)
THEOREM RetentionAlwaysMakesRoom == Spec => RetentionMakesRoom
<1> DEFINE Room == \A p \in Server :
             disturbed' = {} /\ pc[p] = "validate" /\ reply'[p] = "blocked validation"
               => ~job[p].wellFormed
<1>1. ASSUME MemoryInv, [Next]_vars PROVE [Room]_vars
  BY <1>1, RoomIsMade DEF Next, Moves
<1>2. Spec => [][Room]_vars
  <2> HIDE DEF Room
  <2> QED
    BY <1>1, MemoryInvariant, PTL DEF Spec
<1> QED
  BY <1>2 DEF RetentionMakesRoom

=============================================================================
