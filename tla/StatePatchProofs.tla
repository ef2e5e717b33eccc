-------------------------- MODULE StatePatchProofs --------------------------
(***************************************************************************)
(* For any number of servers, keys and operations: the content of a card   *)
(* state keeps its type through every patch, the store refuses a patch the *)
(* curator let through only after a lost update, the deterministic curator *)
(* proposes only what validation accepts, a turn that passed the gate      *)
(* loses its text only for a reason, and the stored content is the replay  *)
(* of one line of accepted patches.                                        *)
(***************************************************************************)
EXTENDS StatePatch, TableLemmas, TLAPS

(* As long as no update is lost, the revision counts the receipts.         *)
RevisionCounts == NoUpdateLost => state.revision = Len(receipts)

(* As long as no update is lost, a turn was loaded at a revision of the    *)
(* past.                                                                   *)
LoadedEarlier ==
  NoUpdateLost => \A p \in Server : pc[p] # "idle" => job[p].base <= state.revision

(* As long as no update is lost, the content changes with the revision and *)
(* never without it.                                                       *)
SameRevisionSameContent ==
  NoUpdateLost =>
    \A p \in Server :
      pc[p] # "idle" /\ job[p].base = state.revision =>
        job[p].loaded = state.content

RowInv == RevisionCounts /\ LoadedEarlier /\ SameRevisionSameContent

(* What the engine applies has passed validation against the load, and     *)
(* what is about to be written has been applied to its last operation.     *)
ValidatedAtLoad ==
  \A p \in Server :
    /\ pc[p] \in {"apply", "write"} => Errors(job[p].ops, job[p].loaded) = {}
    /\ pc[p] = "write" => job[p].ops # <<>> /\ job[p].next > Len(job[p].ops)

PatchInv ==
  /\ TypeOK
  /\ RowInv
  /\ ValidatedAtLoad
  /\ StoreAcceptsValidated

-----------------------------------------------------------------------------
(* The operators of the model keep their types.                            *)

LEMMA ValueType ==
  /\ \A n \in Int : Number(n) \in Value /\ Text(n) \in Value
  /\ List \in Value /\ None \in Value
BY DEF Value, Number, Text, List, None

LEMMA EmptyType == Empty \in Content
<1>1. [x \in Key |-> Nothing] \in [Key -> Value \cup {Nothing}]
  OBVIOUS
<1>2. [f \in SceneField |-> IF FieldType[f] = "text" THEN Text(0) ELSE List]
        \in [SceneField -> Value]
  BY ValueType
<1> QED
  BY <1>1, <1>2 DEF Empty, Content

LEMMA NormalizedType ==
  ASSUME NEW o \in Offered
  PROVE  Normalized(o) \in Operation
<1>1. o \in OperationOf(PatchOpType \cup Alias)
  BY OfferedAssumption
<1>2. OpName(o) \in PatchOpType
  BY <1>1 DEF OpName, Alias, OperationOf, PatchOpType
<1>3. Prefix(o) \in {"", "variables", "event_flags", "active_stage_ids", "scene_state"}
  BY <1>1 DEF Prefix, OperationOf
<1> QED
  BY <1>1, <1>2, <1>3 DEF Normalized, Operation, OperationOf

LEMMA OfflineType ==
  ASSUME NEW c \in Content, NEW heard
  PROVE  OfflineOps(heard, c) \in Seq(Operation)
<1> USE KeyAssumption, ValueType
<1>1. OfflineScene(c) \in Seq(Operation)
  <2>1. Op("set_scene_field", "scene_state", "location", Text(1)) \in Operation
    BY DEF Op, Operation, OperationOf, PatchOpType, SceneField
  <2> QED
    BY <2>1 DEF OfflineScene
<1>2. OfflineEvent(c) \in Seq(Operation)
  <2>1. Op("set_flag", "event_flags", "event_combat", None) \in Operation
    BY DEF Op, Operation, OperationOf, PatchOpType
  <2> QED
    BY <2>1 DEF OfflineEvent
<1>3. OfflineTrust(c) \in Seq(Operation)
  <2>1. /\ Op("set", "variables", "trust", Number(1)) \in Operation
        /\ Op("increment", "variables", "trust", Number(1)) \in Operation
    BY DEF Op, Operation, OperationOf, PatchOpType
  <2> QED
    BY <2>1 DEF OfflineTrust
<1> QED
  BY <1>1, <1>2, <1>3 DEF OfflineOps

LEMMA AppliedType ==
  ASSUME NEW c \in Content, NEW o \in Operation
  PROVE  Applied(o, c) \in Content
<1>1. CASE o.op = "set" /\ o.prefix = "variables"
  BY <1>1 DEF Applied, Content, Operation, OperationOf
<1>2. CASE /\ o.op = "increment" /\ o.prefix = "variables"
           /\ c.variables[o.key] # Nothing
  <2>1. o.key \in Key /\ o.value \in Value
    BY DEF Operation, OperationOf
  <2>2. c.variables[o.key] \in Value
    BY <1>2, <2>1 DEF Content
  <2>3. c.variables[o.key].n + Delta(o) \in Int
    BY <2>1, <2>2 DEF Value, Delta
  <2>4. Number(c.variables[o.key].n + Delta(o)) \in Value
    BY <2>3, ValueType
  <2>5. Applied(o, c) = [c EXCEPT !.variables[o.key] =
                           Number(c.variables[o.key].n + Delta(o))]
    BY <1>2 DEF Applied, Content
  <2> QED
    BY <2>4, <2>5 DEF Content
<1>3. CASE o.op = "set_flag" /\ o.prefix = "event_flags"
  BY <1>3 DEF Applied, Content, Operation, OperationOf
<1>4. CASE o.op = "set_scene_field" /\ o.prefix = "scene_state"
  BY <1>4 DEF Applied, Content, Operation, OperationOf
<1>5. CASE /\ ~(o.op = "set" /\ o.prefix = "variables")
           /\ ~(/\ o.op = "increment" /\ o.prefix = "variables"
                /\ c.variables[o.key] # Nothing)
           /\ ~(o.op = "set_flag" /\ o.prefix = "event_flags")
           /\ ~(o.op = "set_scene_field" /\ o.prefix = "scene_state")
  BY <1>5 DEF Applied
<1> QED
  BY <1>1, <1>2, <1>3, <1>4, <1>5

(* No operations, no errors.                                               *)
LEMMA NoOpsNoErrors ==
  ASSUME NEW c
  PROVE  Errors(<<>>, c) = {}
BY DEF Errors

(* What is known of a server inside a turn.                                *)
LEMMA InTurn ==
  ASSUME TypeOK, NEW p \in Server, pc[p] # "idle"
  PROVE  /\ job[p] \in Job
         /\ job[p].ops \in Seq(Operation)
         /\ Operations(p) = job[p].ops
BY DEF TypeOK, Job, Operations

(* The end of a turn keeps the types of the variables it writes.           *)
LEMMA ReturnType ==
  ASSUME TypeOK, NEW p \in Server, NEW answer \in Reply, Return(p, answer)
  PROVE  /\ pc' \in [Server -> {"idle", "curate", "validate", "apply", "write"}]
         /\ job' \in [Server -> Job \cup {Nothing}]
         /\ \A q \in Server : job'[q] = Nothing <=> pc'[q] = "idle"
         /\ reply' \in [Server -> Reply]
BY DEF TypeOK, Return

(* An update of the local variables inside a turn keeps their type.        *)
LEMMA JobType ==
  ASSUME TypeOK, NEW p \in Server, NEW j \in Job,
         job' = [job EXCEPT ![p] = j], pc[p] # "idle",
         NEW label \in {"curate", "validate", "apply", "write"},
         pc' = [pc EXCEPT ![p] = label] \/ UNCHANGED pc
  PROVE  /\ pc' \in [Server -> {"idle", "curate", "validate", "apply", "write"}]
         /\ job' \in [Server -> Job \cup {Nothing}]
         /\ \A q \in Server : job'[q] = Nothing <=> pc'[q] = "idle"
BY NothingAssumption DEF TypeOK

LEMMA TypeInit == Init => TypeOK
BY EmptyType, BoundsAssumption DEF Init, TypeOK, Reply

LEMMA TypeStep == TypeOK /\ [Next]_vars => TypeOK'
<1> SUFFICES ASSUME TypeOK, [Next]_vars PROVE TypeOK'
  OBVIOUS
<1>1. ASSUME NEW chosen \in Seed, Bootstrap(chosen) PROVE TypeOK'
  BY <1>1 DEF Bootstrap, TypeOK
<1>2. ASSUME NEW p \in Server, Load(p) PROVE TypeOK'
  <2> DEFINE j == [base |-> state.revision, loaded |-> state.content,
                   offline |-> FALSE, rejected |-> FALSE, ops |-> <<>>,
                   next |-> 1, content |-> state.content]
  <2>1. j \in Job
    BY DEF TypeOK, Job
  <2>2. state' \in [stored: BOOLEAN, revision: Nat, content: Content]
    BY <1>2 DEF Load, TypeOK
  <2>3. /\ job' = [job EXCEPT ![p] = j]
        /\ pc' = [pc EXCEPT ![p] = "curate"]
        /\ reply' = [reply EXCEPT ![p] = "none"]
        /\ turns' \in 0..MaxTurns
        /\ UNCHANGED <<seed, receipts>>
    BY <1>2, BoundsAssumption DEF Load, TypeOK
  <2> HIDE DEF j
  <2>4. /\ job' \in [Server -> Job \cup {Nothing}]
        /\ \A q \in Server : job'[q] = Nothing <=> pc'[q] = "idle"
    BY <2>1, <2>3, NothingAssumption DEF TypeOK
  <2> QED
    BY <2>2, <2>3, <2>4 DEF TypeOK, Reply
<1>3. ASSUME NEW p \in Server, ParseOne(p) PROVE TypeOK'
  <2>1. PICK o \in Offered :
          job' = [job EXCEPT ![p].ops =
                    IF OpName(o) \in CuratorAllowedOps
                    THEN Append(@, Normalized(o)) ELSE @]
    BY <1>3 DEF ParseOne
  <2> DEFINE ops == IF OpName(o) \in CuratorAllowedOps
                    THEN Append(job[p].ops, Normalized(o)) ELSE job[p].ops
  <2>2. job[p] \in Job /\ job[p].ops \in Seq(Operation)
    BY <1>3, InTurn DEF ParseOne
  <2>3. ops \in Seq(Operation)
    BY <2>2, NormalizedType
  <2>4. job' = [job EXCEPT ![p] = [job[p] EXCEPT !.ops = ops]]
    BY <2>1 DEF TypeOK
  <2> HIDE DEF ops
  <2>5. [job[p] EXCEPT !.ops = ops] \in Job
    BY <2>2, <2>3 DEF Job
  <2> QED
    BY <1>3, <2>4, <2>5, JobType DEF ParseOne, TypeOK
<1>4. ASSUME NEW p \in Server, CurateOffline(p) PROVE TypeOK'
  <2>1. PICK heard \in SUBSET {"scene", "event", "trust"} :
          job' = [job EXCEPT ![p].ops = OfflineOps(heard, job[p].loaded),
                             ![p].offline = TRUE]
    BY <1>4 DEF CurateOffline
  <2>2. job[p] \in Job /\ job[p].loaded \in Content
    BY <1>4, InTurn DEF CurateOffline, Job
  <2>3. OfflineOps(heard, job[p].loaded) \in Seq(Operation)
    BY <2>2, OfflineType
  <2> DEFINE j == [job[p] EXCEPT !.ops = OfflineOps(heard, job[p].loaded),
                                 !.offline = TRUE]
  <2>4. j \in Job
    BY <2>2, <2>3 DEF Job
  <2>5. job' = [job EXCEPT ![p] = j]
    BY <2>1 DEF TypeOK
  <2> HIDE DEF j
  <2> QED
    BY <1>4, <2>4, <2>5, JobType DEF CurateOffline, TypeOK
<1>5. ASSUME NEW p \in Server, Validate(p) PROVE TypeOK'
  <2> DEFINE failed == Errors(job[p].ops, job[p].loaded) # {}
             kept == IF failed THEN <<>> ELSE job[p].ops
             j == [job[p] EXCEPT !.rejected = failed, !.ops = kept]
  <2>1. job[p] \in Job /\ job[p].ops \in Seq(Operation)
    BY <1>5, InTurn DEF Validate
  <2>2. failed \in BOOLEAN /\ kept \in Seq(Operation)
    BY <2>1
  <2>3. job' = [job EXCEPT ![p] = j]
    BY <1>5 DEF Validate, TypeOK
  <2> HIDE DEF failed, kept
  <2>4. j \in Job
    BY <2>1, <2>2 DEF Job
  <2> HIDE DEF j
  <2> QED
    BY <1>5, <2>3, <2>4, JobType DEF Validate, TypeOK
<1>6. ASSUME NEW p \in Server, ApplyOne(p) PROVE TypeOK'
  <2> DEFINE o == Operations(p)[job[p].next]
  <2>1. /\ job[p] \in Job /\ job[p].content \in Content
        /\ job[p].ops \in Seq(Operation) /\ Operations(p) = job[p].ops
        /\ job[p].next \in Nat \ {0}
    BY <1>6, InTurn DEF ApplyOne, Job
  <2>2. o \in Operation
    BY <1>6, <2>1 DEF ApplyOne
  <2>3. Applied(o, job[p].content) \in Content
    BY <2>1, <2>2, AppliedType
  <2>4. /\ UNCHANGED <<seed, state, receipts, turns>>
        /\ \/ Return(p, "exception")
           \/ /\ job' = [job EXCEPT ![p].next = @ + 1,
                                    ![p].content = Applied(o, @)]
              /\ UNCHANGED <<pc, reply>>
    BY <1>6 DEF ApplyOne
  <2>5. CASE Return(p, "exception")
    BY <2>4, <2>5, ReturnType DEF TypeOK, Reply
  <2>6. CASE /\ job' = [job EXCEPT ![p].next = @ + 1,
                                   ![p].content = Applied(o, @)]
             /\ UNCHANGED <<pc, reply>>
    <3> HIDE DEF o
    <3> DEFINE after == Applied(o, job[p].content)
               following == job[p].next + 1
               j == [job[p] EXCEPT !.next = following, !.content = after]
    <3>0. after \in Content /\ following \in Nat \ {0}
      BY <2>1, <2>3
    <3>2. job' = [job EXCEPT ![p] = j]
      BY <2>6 DEF TypeOK
    <3> HIDE DEF after, following
    <3>1. j \in Job
      BY <2>1, <3>0 DEF Job
    <3> HIDE DEF j
    <3>3. pc[p] # "idle"
      BY <1>6 DEF ApplyOne
    <3> QED
      BY <2>4, <2>6, <3>1, <3>2, <3>3, JobType DEF TypeOK
  <2> QED
    BY <2>4, <2>5, <2>6
<1>7. ASSUME NEW p \in Server, Check(p) PROVE TypeOK'
  <2>1. /\ UNCHANGED <<seed, state, receipts, turns>>
        /\ \/ \E answer \in {"revision_conflict", "validation_failed"} : Return(p, answer)
           \/ pc' = [pc EXCEPT ![p] = "write"] /\ UNCHANGED <<job, reply>>
    BY <1>7 DEF Check
  <2>2. pc[p] = "apply"
    BY <1>7 DEF Check
  <2>3. ASSUME NEW answer \in {"revision_conflict", "validation_failed"}, Return(p, answer)
        PROVE  TypeOK'
    BY <2>1, <2>3, ReturnType DEF TypeOK, Reply
  <2>4. CASE pc' = [pc EXCEPT ![p] = "write"] /\ UNCHANGED <<job, reply>>
    BY <2>1, <2>2, <2>4 DEF TypeOK
  <2> QED
    BY <2>1, <2>3, <2>4
<1>8. ASSUME NEW p \in Server, Write(p) PROVE TypeOK'
  <2>1. /\ job[p] \in Job /\ job[p].content \in Content /\ job[p].base \in Nat
        /\ Operations(p) \in Seq(Operation)
    BY <1>8, InTurn DEF Write, Job
  <2>2. PICK answer \in {"success", "malformed_answer", "unwritable"} : Return(p, answer)
    BY <1>8 DEF Write
  <2>3. /\ state' \in [stored: BOOLEAN, revision: Nat, content: Content]
        /\ receipts' \in Seq([from: Nat, ops: Seq(Operation)])
    <3>1. CASE Store(p)
      <4>1. [from |-> job[p].base, ops |-> Operations(p)]
              \in [from: Nat, ops: Seq(Operation)]
        BY <2>1
      <4>2. receipts' \in Seq([from: Nat, ops: Seq(Operation)])
        BY <3>1, <4>1 DEF Store, TypeOK
      <4>3. job[p].base + 1 \in Nat
        BY <2>1
      <4>4. state' \in [stored: BOOLEAN, revision: Nat, content: Content]
        BY <2>1, <3>1, <4>3 DEF Store, TypeOK
      <4> QED
        BY <4>2, <4>4
    <3>2. CASE UNCHANGED <<state, receipts>>
      BY <3>2 DEF TypeOK
    <3> QED
      BY <1>8, <3>1, <3>2 DEF Write
  <2>4. UNCHANGED <<seed, turns>> /\ answer \in Reply
    BY <1>8 DEF Write, Reply
  <2> QED
    BY <2>2, <2>3, <2>4, ReturnType DEF TypeOK
<1>9. ASSUME NEW p \in Server, NoStateChange(p) \/ StoreRaises(p) \/ CuratorRaises(p)
      PROVE  TypeOK'
  <2>1. PICK answer \in Reply : Return(p, answer)
    BY <1>9 DEF NoStateChange, StoreRaises, CuratorRaises, Reply
  <2>2. UNCHANGED <<seed, state, receipts, turns>>
    BY <1>9 DEF NoStateChange, StoreRaises, CuratorRaises
  <2> QED
    BY <2>1, <2>2, ReturnType DEF TypeOK
<1>10. CASE UNCHANGED vars
  BY <1>10 DEF vars, TypeOK
<1> QED
  BY <1>1, <1>2, <1>3, <1>4, <1>5, <1>6, <1>7, <1>8, <1>9, <1>10 DEF Next

(* The rows and the local variables keep their types, whatever a model     *)
(* answers: no operation that reaches the engine puts a value of another   *)
(* kind, or under another key, into the stored state.                      *)
THEOREM TypeCorrect == Spec => []TypeOK
<1> QED
  BY TypeInit, TypeStep, PTL DEF Spec

-----------------------------------------------------------------------------
LEMMA InvInit == Init => PatchInv
BY TypeInit DEF Init, PatchInv, RowInv, RevisionCounts, LoadedEarlier,
                SameRevisionSameContent, ValidatedAtLoad, StoreAcceptsValidated

(* A step outside the store and the load leaves the row as it is.          *)
LEMMA RowKept ==
  ASSUME PatchInv, UNCHANGED <<state, receipts>>, NEW p \in Server, NEW j,
         pc[p] # "idle", job' = [job EXCEPT ![p] = j],
         j.base = job[p].base, j.loaded = job[p].loaded,
         \A q \in Server \ {p} : pc'[q] = pc[q]
  PROVE  RowInv'
<1>1. NoUpdateLost' <=> NoUpdateLost
  BY DEF NoUpdateLost
<1>2. \A q \in Server : pc'[q] # "idle" =>
        pc[q] # "idle" /\ job'[q].base = job[q].base /\ job'[q].loaded = job[q].loaded
  BY DEF PatchInv, TypeOK
<1> QED
  BY <1>1, <1>2 DEF PatchInv, RowInv, RevisionCounts, LoadedEarlier, SameRevisionSameContent

(* Where a turn stands in its own patch.                                   *)
Stands(p) ==
  /\ pc[p] \in {"apply", "write"} => Errors(job[p].ops, job[p].loaded) = {}
  /\ pc[p] = "write" => job[p].ops # <<>> /\ job[p].next > Len(job[p].ops)

LEMMA OthersStand ==
  ASSUME PatchInv, NEW p \in Server,
         \A q \in Server \ {p} : pc'[q] = pc[q] /\ job'[q] = job[q],
         Stands(p)'
  PROVE  ValidatedAtLoad'
BY DEF PatchInv, ValidatedAtLoad, Stands

LEMMA AnswersKept ==
  ASSUME PatchInv, UNCHANGED receipts, NEW p \in Server,
         \A q \in Server \ {p} : reply'[q] = reply[q],
         NoUpdateLost => reply'[p] # "validation_failed"
  PROVE  StoreAcceptsValidated'
<1>1. NoUpdateLost' <=> NoUpdateLost
  BY DEF NoUpdateLost
<1> QED
  BY <1>1 DEF PatchInv, StoreAcceptsValidated

(* A turn that ends without a write leaves the others as they are.         *)
LEMMA EndsQuietly ==
  ASSUME PatchInv, UNCHANGED <<state, receipts>>, NEW p \in Server, NEW answer,
         Return(p, answer), NoUpdateLost => answer # "validation_failed"
  PROVE  RowInv' /\ ValidatedAtLoad' /\ StoreAcceptsValidated'
<1>1. /\ pc'[p] = "idle" /\ reply'[p] = answer
      /\ \A q \in Server \ {p} : /\ pc'[q] = pc[q] /\ job'[q] = job[q]
                                /\ reply'[q] = reply[q]
  BY DEF PatchInv, TypeOK, Return
<1>2. NoUpdateLost' <=> NoUpdateLost
  BY DEF NoUpdateLost
<1>3. RowInv'
  BY <1>1, <1>2 DEF PatchInv, RowInv, RevisionCounts, LoadedEarlier, SameRevisionSameContent
<1>4. ValidatedAtLoad'
  BY <1>1, OthersStand DEF Stands
<1>5. StoreAcceptsValidated'
  BY <1>1, AnswersKept
<1> QED
  BY <1>3, <1>4, <1>5

LEMMA InvStep == PatchInv /\ [Next]_vars => PatchInv'
<1> SUFFICES ASSUME PatchInv, [Next]_vars PROVE PatchInv'
  OBVIOUS
<1>t. TypeOK /\ TypeOK'
  BY TypeStep DEF PatchInv
<1>1. ASSUME NEW chosen \in Seed, Bootstrap(chosen) PROVE PatchInv'
  BY <1>t, <1>1 DEF Bootstrap, PatchInv, RowInv, RevisionCounts, LoadedEarlier, NoUpdateLost,
                    SameRevisionSameContent, ValidatedAtLoad, StoreAcceptsValidated
<1>2. ASSUME NEW p \in Server, Load(p) PROVE PatchInv'
  <2>1. /\ state'.revision = state.revision /\ state'.content = state.content
        /\ receipts' = receipts
        /\ job'[p].base = state.revision /\ job'[p].loaded = state.content
        /\ pc'[p] = "curate" /\ reply'[p] = "none"
        /\ \A q \in Server \ {p} : /\ job'[q] = job[q] /\ pc'[q] = pc[q]
                                  /\ reply'[q] = reply[q]
    BY <1>t, <1>2 DEF Load, TypeOK
  <2>2. state.revision \in Nat
    BY <1>t DEF TypeOK
  <2>3. NoUpdateLost' <=> NoUpdateLost
    BY <2>1 DEF NoUpdateLost
  <2>4. LoadedEarlier'
    <3> SUFFICES ASSUME NoUpdateLost, NEW q \in Server, pc'[q] # "idle"
                 PROVE  job'[q].base <= state'.revision
      BY <2>3 DEF LoadedEarlier
    <3> QED
      BY <2>1, <2>2 DEF PatchInv, RowInv, LoadedEarlier
  <2>5. RevisionCounts' /\ SameRevisionSameContent'
    BY <2>1, <2>3 DEF PatchInv, RowInv, RevisionCounts, SameRevisionSameContent
  <2>6. ValidatedAtLoad'
    BY <2>1, OthersStand DEF Stands
  <2>7. StoreAcceptsValidated'
    BY <2>1, AnswersKept
  <2> QED
    BY <1>t, <2>4, <2>5, <2>6, <2>7 DEF PatchInv, RowInv
<1>r. ASSUME NEW p \in Server, UNCHANGED <<state, receipts, reply>>, Stands(p)', RowInv',
             \A q \in Server \ {p} : pc'[q] = pc[q] /\ job'[q] = job[q]
      PROVE  PatchInv'
  <2>1. ValidatedAtLoad'
    BY <1>r, OthersStand
  <2>2. StoreAcceptsValidated'
    BY <1>r DEF PatchInv, StoreAcceptsValidated, NoUpdateLost
  <2> QED
    BY <1>t, <1>r, <2>1, <2>2 DEF PatchInv
<1>3. ASSUME NEW p \in Server, ParseOne(p) PROVE PatchInv'
  <2>1. PICK ops : job' = [job EXCEPT ![p] = [job[p] EXCEPT !.ops = ops]]
    <3>1. PICK o \in Offered :
            job' = [job EXCEPT ![p].ops =
                      IF OpName(o) \in CuratorAllowedOps
                      THEN Append(@, Normalized(o)) ELSE @]
      BY <1>3 DEF ParseOne
    <3> WITNESS IF OpName(o) \in CuratorAllowedOps
                THEN Append(job[p].ops, Normalized(o)) ELSE job[p].ops
    <3> QED
      BY <1>t, <3>1 DEF TypeOK
  <2>2. /\ pc[p] = "curate" /\ pc' = pc /\ UNCHANGED <<state, receipts, reply>>
        /\ job[p] \in Job /\ \A q \in Server \ {p} : job'[q] = job[q]
    BY <1>t, <1>3, <2>1, InTurn DEF ParseOne, TypeOK
  <2>3. RowInv'
    BY <2>1, <2>2, RowKept DEF Job
  <2>4. Stands(p)'
    BY <2>2 DEF Stands
  <2> QED
    BY <1>r, <2>2, <2>3, <2>4
<1>4. ASSUME NEW p \in Server, CurateOffline(p) PROVE PatchInv'
  <2>1. PICK ops : job' = [job EXCEPT ![p] = [job[p] EXCEPT !.ops = ops,
                                                            !.offline = TRUE]]
    <3>1. PICK heard \in SUBSET {"scene", "event", "trust"} :
            job' = [job EXCEPT ![p].ops = OfflineOps(heard, job[p].loaded),
                               ![p].offline = TRUE]
      BY <1>4 DEF CurateOffline
    <3> WITNESS OfflineOps(heard, job[p].loaded)
    <3> QED
      BY <1>t, <3>1 DEF TypeOK
  <2>2. /\ pc[p] = "curate" /\ pc'[p] = "validate" /\ UNCHANGED <<state, receipts, reply>>
        /\ job[p] \in Job
        /\ \A q \in Server \ {p} : pc'[q] = pc[q] /\ job'[q] = job[q]
    BY <1>t, <1>4, <2>1, InTurn DEF CurateOffline, TypeOK
  <2>3. RowInv'
    BY <1>t, <2>1, <2>2, RowKept DEF Job, TypeOK
  <2>4. Stands(p)'
    BY <2>2 DEF Stands
  <2> QED
    BY <1>r, <2>2, <2>3, <2>4
<1>5. ASSUME NEW p \in Server, Validate(p) PROVE PatchInv'
  <2> DEFINE failed == Errors(job[p].ops, job[p].loaded) # {}
             kept == IF failed THEN <<>> ELSE job[p].ops
  <2>1. /\ job' = [job EXCEPT ![p] = [job[p] EXCEPT !.rejected = failed,
                                                    !.ops = kept]]
        /\ pc[p] # "idle" /\ pc' = [pc EXCEPT ![p] = "apply"]
        /\ UNCHANGED <<state, receipts, reply>> /\ job[p] \in Job
    BY <1>t, <1>5, InTurn DEF Validate, TypeOK
  <2>2. Errors(kept, job[p].loaded) = {}
    BY NoOpsNoErrors
  <2> HIDE DEF failed, kept
  <2>3. RowInv'
    BY <1>t, <2>1, RowKept DEF Job, TypeOK
  <2>4. /\ job'[p].ops = kept /\ job'[p].loaded = job[p].loaded /\ pc'[p] = "apply"
        /\ \A q \in Server \ {p} : pc'[q] = pc[q] /\ job'[q] = job[q]
    BY <1>t, <2>1 DEF TypeOK, Job
  <2>5. Stands(p)'
    BY <2>2, <2>4 DEF Stands
  <2> QED
    BY <1>r, <2>1, <2>3, <2>4, <2>5
<1>6. ASSUME NEW p \in Server, ApplyOne(p) PROVE PatchInv'
  <2>1. pc[p] = "apply" /\ UNCHANGED <<state, receipts>> /\ job[p] \in Job
    BY <1>t, <1>6, InTurn DEF ApplyOne
  <2>2. CASE Return(p, "exception")
    BY <1>t, <2>1, <2>2, EndsQuietly DEF PatchInv
  <2>3. CASE ~Return(p, "exception")
    <3>1. PICK after, following :
            job' = [job EXCEPT ![p] = [job[p] EXCEPT !.next = following,
                                                     !.content = after]]
      BY <1>t, <1>6, <2>3 DEF ApplyOne, TypeOK
    <3>2. UNCHANGED <<pc, reply>>
      BY <1>6, <2>3 DEF ApplyOne
    <3>3. RowInv'
      BY <2>1, <3>1, <3>2, RowKept DEF Job
    <3>4. /\ job'[p].ops = job[p].ops /\ job'[p].loaded = job[p].loaded
          /\ \A q \in Server \ {p} : job'[q] = job[q]
      BY <1>t, <2>1, <3>1 DEF TypeOK, Job
    <3>5. Stands(p)'
      BY <2>1, <3>2, <3>4 DEF PatchInv, ValidatedAtLoad, Stands
    <3> QED
      BY <1>r, <2>1, <3>2, <3>3, <3>4, <3>5
  <2> QED
    BY <2>2, <2>3
<1>7. ASSUME NEW p \in Server, Check(p) PROVE PatchInv'
  <2>1. /\ pc[p] = "apply" /\ job[p] \in Job /\ Operations(p) = job[p].ops
        /\ job[p].ops # <<>> /\ job[p].next > Len(job[p].ops)
        /\ UNCHANGED <<state, receipts>> /\ Errors(job[p].ops, job[p].loaded) = {}
    BY <1>t, <1>7, InTurn DEF Check, PatchInv, ValidatedAtLoad
  <2>2. CASE Return(p, "revision_conflict")
    BY <1>t, <2>1, <2>2, EndsQuietly DEF PatchInv
  <2>3. CASE /\ state.revision = job[p].base /\ Errors(Operations(p), state.content) # {}
             /\ Return(p, "validation_failed")
    (* The content is not the loaded one: an update was lost.              *)
    <3>1. state.content # job[p].loaded
      BY <2>1, <2>3
    <3>2. ~NoUpdateLost
      BY <2>1, <2>3, <3>1 DEF PatchInv, RowInv, SameRevisionSameContent
    <3> QED
      BY <1>t, <2>1, <2>3, <3>2, EndsQuietly DEF PatchInv
  <2>4. CASE pc' = [pc EXCEPT ![p] = "write"] /\ UNCHANGED <<job, reply>>
    <3>1. pc'[p] = "write" /\ \A q \in Server \ {p} : pc'[q] = pc[q]
      BY <1>t, <2>4 DEF TypeOK
    <3>2. job' = [job EXCEPT ![p] = job[p]]
      BY <1>t, <2>4 DEF TypeOK
    <3>3. RowInv'
      BY <2>1, <3>1, <3>2, RowKept
    <3>4. Stands(p)'
      BY <2>1, <2>4 DEF Stands
    <3> QED
      BY <1>r, <2>1, <2>4, <3>1, <3>3, <3>4
  <2> QED
    BY <1>7, <2>2, <2>3, <2>4 DEF Check
<1>8. ASSUME NEW p \in Server, Write(p) PROVE PatchInv'
  <2>1. /\ pc[p] = "write" /\ job[p] \in Job /\ job[p].base \in Nat
    BY <1>t, <1>8, InTurn DEF Write, Job
  <2>2. CASE Return(p, "unwritable") /\ UNCHANGED <<state, receipts>>
    BY <1>t, <2>2, EndsQuietly DEF PatchInv
  <2>3. ASSUME Store(p), NEW answer \in {"success", "malformed_answer"}, Return(p, answer)
        PROVE  PatchInv'
    <3> DEFINE n == Len(receipts)
    <3>1. /\ state'.revision = job[p].base + 1
          /\ pc'[p] = "idle" /\ reply'[p] # "validation_failed"
          /\ \A q \in Server \ {p} : /\ job'[q] = job[q] /\ pc'[q] = pc[q]
                                    /\ reply'[q] = reply[q]
      BY <1>t, <2>3 DEF Store, Return, TypeOK
    <3>2. /\ n \in Nat /\ Len(receipts') = n + 1
          /\ receipts'[n + 1].from = job[p].base
          /\ \A i \in 1..n : receipts'[i] = receipts[i]
          /\ DOMAIN receipts = 1..n /\ DOMAIN receipts' = 1..(n + 1)
      BY <1>t, <2>3 DEF Store, TypeOK
    <3> HIDE DEF n
    <3>3. NoUpdateLost' => NoUpdateLost /\ job[p].base = n
      <4> SUFFICES ASSUME NoUpdateLost' PROVE NoUpdateLost /\ job[p].base = n
        OBVIOUS
      <4>1. \A i \in 1..(n + 1) : receipts'[i].from = i - 1
        BY <3>2 DEF NoUpdateLost
      <4>2. n + 1 \in 1..(n + 1) /\ \A i \in 1..n : i \in 1..(n + 1)
        BY <3>2
      <4> QED
        BY <3>2, <4>1, <4>2 DEF NoUpdateLost
    <3>4. NoUpdateLost' => state.revision = n
      BY <3>3 DEF PatchInv, RowInv, RevisionCounts, n
    <3>5. RevisionCounts'
      BY <3>1, <3>2, <3>3 DEF RevisionCounts
    <3>6. ASSUME NoUpdateLost', NEW q \in Server, pc'[q] # "idle"
          PROVE  job'[q].base <= state'.revision /\ job'[q].base # state'.revision
      <4>1. q # p /\ pc[q] # "idle" /\ job'[q].base = job[q].base
        BY <3>1, <3>6
      <4>2. job[q].base \in Nat /\ job[q].base <= n
        BY <1>t, <3>3, <3>4, <3>6, <4>1, InTurn DEF PatchInv, RowInv, LoadedEarlier, Job
      <4> QED
        BY <3>1, <3>2, <3>3, <3>6, <4>1, <4>2
    <3>7. LoadedEarlier' /\ SameRevisionSameContent'
      BY <3>6 DEF LoadedEarlier, SameRevisionSameContent
    <3>8. ValidatedAtLoad'
      BY <3>1, OthersStand DEF Stands
    <3>9. StoreAcceptsValidated'
      BY <3>1, <3>3 DEF PatchInv, StoreAcceptsValidated
    <3> QED
      BY <1>t, <3>5, <3>7, <3>8, <3>9 DEF PatchInv, RowInv
  <2> QED
    BY <1>8, <2>2, <2>3 DEF Write
<1>9. ASSUME NEW p \in Server, NoStateChange(p) \/ StoreRaises(p) \/ CuratorRaises(p)
      PROVE  PatchInv'
  <2>1. PICK answer \in {"success", "malformed_answer", "database_error"} : Return(p, answer)
    BY <1>9 DEF NoStateChange, StoreRaises, CuratorRaises
  <2>2. UNCHANGED <<state, receipts>>
    BY <1>9 DEF NoStateChange, StoreRaises, CuratorRaises
  <2> QED
    BY <1>t, <2>1, <2>2, EndsQuietly DEF PatchInv
<1>10. CASE UNCHANGED vars
  BY <1>t, <1>10 DEF vars, PatchInv, RowInv, RevisionCounts, LoadedEarlier, NoUpdateLost,
                    SameRevisionSameContent, ValidatedAtLoad, StoreAcceptsValidated
<1> QED
  BY <1>1, <1>2, <1>3, <1>4, <1>5, <1>6, <1>7, <1>8, <1>9, <1>10 DEF Next

(* The store refuses a patch that passed the curator's validation only     *)
(* after an update was lost, which the log shows: otherwise it validates   *)
(* against the same content, or has found the revision changed before it   *)
(* validates.  For any number of servers and any operations.               *)
THEOREM NeverRefused == Spec => []StoreAcceptsValidated
<1>1. PatchInv => StoreAcceptsValidated
  BY DEF PatchInv
<1> QED
  BY InvInit, InvStep, <1>1, PTL DEF Spec

-----------------------------------------------------------------------------
(* The deterministic curator.                                              *)

LEMMA OneOrNone ==
  ASSUME NEW S, NEW x \in S
  PROVE  <<x>> \in Seq(S) /\ <<>> \in Seq(S)
OBVIOUS

(* Every operation it proposes is valid against the content it looked at.  *)
LEMMA OfflineOpsAreValid ==
  ASSUME NEW c \in Content, NEW heard
  PROVE  Errors(OfflineOps(heard, c), c) = {}
<1> DEFINE Valid == {o \in Operation : ~Invalid(o, c)}
<1> USE KeyAssumption, ValueType
<1>1. OfflineScene(c) \in Seq(Valid)
  <2> DEFINE o == Op("set_scene_field", "scene_state", "location", Text(1))
  <2>1. o \in Operation
    BY DEF Op, Operation, OperationOf, PatchOpType, SceneField
  <2>2. ~Invalid(o, c)
    BY DEF Invalid, Op, AllowedPrefixes, SceneField, FieldType, Text
  <2>3. o \in Valid
    BY <2>1, <2>2
  <2>4. OfflineScene(c) = <<>> \/ OfflineScene(c) = <<o>>
    BY DEF OfflineScene
  <2> HIDE DEF o, Valid
  <2>5. <<o>> \in Seq(Valid) /\ <<>> \in Seq(Valid)
    BY <2>3, OneOrNone
  <2> QED
    BY <2>4, <2>5, Zenon
<1>2. OfflineEvent(c) \in Seq(Valid)
  <2> DEFINE o == Op("set_flag", "event_flags", "event_combat", None)
  <2>1. o \in Operation
    BY DEF Op, Operation, OperationOf, PatchOpType
  <2>2. ~Invalid(o, c)
    BY DEF Invalid, Op, AllowedPrefixes
  <2>3. o \in Valid
    BY <2>1, <2>2
  <2>4. OfflineEvent(c) = <<>> \/ OfflineEvent(c) = <<o>>
    BY DEF OfflineEvent
  <2> HIDE DEF o, Valid
  <2>5. <<o>> \in Seq(Valid) /\ <<>> \in Seq(Valid)
    BY <2>3, OneOrNone
  <2> QED
    BY <2>4, <2>5, Zenon
<1>3. OfflineTrust(c) \in Seq(Valid)
  <2> DEFINE first == Op("set", "variables", "trust", Number(1))
             more == Op("increment", "variables", "trust", Number(1))
  <2>1. first \in Operation /\ more \in Operation
    BY DEF Op, Operation, OperationOf, PatchOpType
  <2>2. ~Invalid(first, c)
    BY DEF Invalid, Op, AllowedPrefixes, Number, None
  <2>3. c.variables["trust"] # Nothing => ~Invalid(more, c)
    BY DEF Invalid, Op, AllowedPrefixes, Number
  <2> QED
    BY <2>1, <2>2, <2>3 DEF OfflineTrust
<1>4. OfflineOps(heard, c) \in Seq(Valid)
  <2> HIDE DEF Valid
  <2> QED
    BY <1>1, <1>2, <1>3 DEF OfflineOps
<1>5. \A i \in DOMAIN OfflineOps(heard, c) : OfflineOps(heard, c)[i] \in Valid
  <2> HIDE DEF Valid
  <2> QED
    BY <1>4
<1> QED
  BY <1>5 DEF Errors

(* Where a turn is, what it may say of the deterministic curator, and what *)
(* the proposal it is to validate is worth.                                *)
OfflineInv ==
  \A p \in Server :
    /\ pc[p] = "curate" => ~job[p].offline
    /\ pc[p] = "validate" => Errors(job[p].ops, job[p].loaded) = {}
    /\ pc[p] \in {"apply", "write"} => ~(job[p].offline /\ job[p].rejected)
    /\ pc[p] \in {"curate", "validate"} => ~job[p].rejected

LEMMA OfflineStep == TypeOK /\ OfflineInv /\ [Next]_vars => OfflineInv'
<1> SUFFICES ASSUME TypeOK, OfflineInv, [Next]_vars PROVE OfflineInv'
  OBVIOUS
<1>1. ASSUME NEW p \in Server,
             \A q \in Server \ {p} : pc'[q] = pc[q] /\ job'[q] = job[q],
             /\ pc'[p] = "curate" => ~job'[p].offline
             /\ pc'[p] = "validate" => Errors(job'[p].ops, job'[p].loaded) = {}
             /\ pc'[p] \in {"apply", "write"} => ~(job'[p].offline /\ job'[p].rejected)
             /\ pc'[p] \in {"curate", "validate"} => ~job'[p].rejected
      PROVE  OfflineInv'
  BY <1>1 DEF OfflineInv
<1>2. ASSUME NEW p \in Server, Load(p) PROVE OfflineInv'
  <2>1. /\ ~job'[p].offline /\ ~job'[p].rejected /\ pc'[p] = "curate"
        /\ \A q \in Server \ {p} : pc'[q] = pc[q] /\ job'[q] = job[q]
    BY <1>2 DEF Load, TypeOK
  <2> QED
    BY <1>1, <2>1
<1>3. ASSUME NEW p \in Server, ParseOne(p) PROVE OfflineInv'
  <2>1. job[p] \in Job /\ pc[p] = "curate" /\ pc' = pc
    BY <1>3, InTurn DEF ParseOne
  <2>2. \E v : job' = [job EXCEPT ![p] = [job[p] EXCEPT !.ops = v]]
    BY <1>3 DEF ParseOne, TypeOK
  <2>3. /\ job'[p].offline = job[p].offline /\ job'[p].rejected = job[p].rejected
        /\ \A q \in Server \ {p} : job'[q] = job[q]
    BY <2>1, <2>2 DEF TypeOK, Job
  <2> QED
    BY <1>1, <2>1, <2>3 DEF OfflineInv
<1>4. ASSUME NEW p \in Server, CurateOffline(p) PROVE OfflineInv'
  <2>1. /\ job[p] \in Job /\ job[p].loaded \in Content /\ pc[p] = "curate"
        /\ pc'[p] = "validate" /\ \A q \in Server \ {p} : pc'[q] = pc[q]
    BY <1>4, InTurn DEF CurateOffline, TypeOK, Job
  <2>2. PICK heard \in SUBSET {"scene", "event", "trust"} :
          job' = [job EXCEPT ![p].ops = OfflineOps(heard, job[p].loaded),
                             ![p].offline = TRUE]
    BY <1>4 DEF CurateOffline
  <2> DEFINE ops == OfflineOps(heard, job[p].loaded)
  <2>3. Errors(ops, job[p].loaded) = {}
    BY <2>1, OfflineOpsAreValid
  <2>4. job' = [job EXCEPT ![p] = [job[p] EXCEPT !.ops = ops, !.offline = TRUE]]
    BY <2>2 DEF TypeOK
  <2> HIDE DEF ops
  <2>5. /\ job'[p].ops = ops /\ job'[p].loaded = job[p].loaded
        /\ job'[p].rejected = job[p].rejected
        /\ \A q \in Server \ {p} : job'[q] = job[q]
    BY <2>1, <2>4 DEF TypeOK, Job
  <2> QED
    BY <1>1, <2>1, <2>3, <2>5 DEF OfflineInv
<1>5. ASSUME NEW p \in Server, Validate(p) PROVE OfflineInv'
  <2> DEFINE failed == Errors(job[p].ops, job[p].loaded) # {}
             kept == IF failed THEN <<>> ELSE job[p].ops
  <2>1. /\ job[p] \in Job /\ pc[p] \in {"curate", "validate"} /\ pc'[p] = "apply"
        /\ \A q \in Server \ {p} : pc'[q] = pc[q]
    BY <1>5, InTurn DEF Validate, TypeOK
  <2>2. job' = [job EXCEPT ![p] = [job[p] EXCEPT !.rejected = failed, !.ops = kept]]
    BY <1>5 DEF Validate, TypeOK
  <2>3. pc[p] = "validate" => ~failed
    BY DEF OfflineInv
  <2>4. pc[p] = "curate" => ~job[p].offline
    BY DEF OfflineInv
  <2> HIDE DEF failed, kept
  <2>5. /\ job'[p].rejected = failed /\ job'[p].offline = job[p].offline
        /\ \A q \in Server \ {p} : job'[q] = job[q]
    BY <2>1, <2>2 DEF TypeOK, Job
  <2>6. ~(job'[p].offline /\ job'[p].rejected)
    BY <2>1, <2>3, <2>4, <2>5, Zenon
  <2> QED
    BY <1>1, <2>1, <2>5, <2>6
<1>6. ASSUME NEW p \in Server, ApplyOne(p) PROVE OfflineInv'
  <2>1. CASE Return(p, "exception")
    BY <1>1, <2>1 DEF Return, TypeOK
  <2>2. CASE ~Return(p, "exception")
    <3>1. pc[p] = "apply" /\ pc' = pc /\ job[p] \in Job
      BY <1>6, <2>2, InTurn DEF ApplyOne
    <3> DEFINE following == job[p].next + 1
               after == Applied(Operations(p)[job[p].next], job[p].content)
    <3>2. job' = [job EXCEPT ![p] = [job[p] EXCEPT !.next = following, !.content = after]]
      BY <1>6, <2>2 DEF ApplyOne, TypeOK
    <3> HIDE DEF following, after
    <3>3. /\ job'[p].offline = job[p].offline /\ job'[p].rejected = job[p].rejected
          /\ \A q \in Server \ {p} : job'[q] = job[q]
      BY <3>1, <3>2 DEF TypeOK, Job
    <3> QED
      BY <1>1, <3>1, <3>3 DEF OfflineInv
  <2> QED
    BY <2>1, <2>2
<1>7. ASSUME NEW p \in Server, NEW answer, Return(p, answer) PROVE OfflineInv'
  BY <1>1, <1>7 DEF Return, TypeOK
<1>8. ASSUME NEW p \in Server,
             Write(p) \/ StoreRaises(p) \/ NoStateChange(p) \/ CuratorRaises(p)
      PROVE  OfflineInv'
  BY <1>7, <1>8 DEF Write, StoreRaises, NoStateChange, CuratorRaises
<1>9. ASSUME NEW p \in Server, Check(p) PROVE OfflineInv'
  <2>1. CASE \E answer : Return(p, answer)
    BY <1>7, <2>1
  <2>2. CASE pc' = [pc EXCEPT ![p] = "write"] /\ UNCHANGED job
    BY <1>1, <1>9, <2>2 DEF Check, TypeOK, OfflineInv
  <2> QED
    BY <1>9, <2>1, <2>2 DEF Check
<1>10. CASE UNCHANGED <<pc, job>>
  BY <1>10 DEF OfflineInv
<1> QED
  BY <1>2, <1>3, <1>4, <1>5, <1>6, <1>8, <1>9, <1>10 DEF Next, Bootstrap, vars

(* What the deterministic curator proposes from its keywords is never      *)
(* refused by the validation: it looks at the same content before it       *)
(* chooses between setting and incrementing.                               *)
THEOREM OfflineProposalsPass == Spec => []OfflineNeverRejected
<1>1. Init => OfflineInv
  BY DEF Init, OfflineInv
<1>2. TypeOK /\ OfflineInv => OfflineNeverRejected
  <2> SUFFICES ASSUME TypeOK, OfflineInv, NEW p \in Server, job[p] # Nothing
               PROVE  ~(job[p].offline /\ job[p].rejected)
    BY DEF OfflineNeverRejected
  <2>1. pc[p] \in {"curate", "validate", "apply", "write"}
    BY DEF TypeOK
  <2> QED
    BY <2>1 DEF OfflineInv
<1> QED
  BY <1>1, <1>2, OfflineStep, TypeCorrect, PTL DEF Spec

-----------------------------------------------------------------------------
(* The operations in their order.                                          *)

(* The places before n that set a variable, or write the list of persons.  *)
SetsBefore(ops, n, k) == {j \in 1..(n - 1) : ops[j].op = "set" /\ ops[j].key = k}

ListWritesBefore(ops, n) ==
  {j \in 1..(n - 1) : ops[j].op = "set_scene_field" /\ ops[j].key = "active_npcs"}

(* The increment at place i meets a number (Applicable says it of all).    *)
MeetsNumber(ops, i, loaded) ==
  IF SetBefore(ops, i) = {}
  THEN loaded.variables[ops[i].key].kind = "number"
  ELSE ops[Max(SetBefore(ops, i))].value.kind = "number"

(* What the first n - 1 operations have made of the loaded content: the    *)
(* kind of a variable is that of its last assignment, the list of persons  *)
(* is the one written last.                                                *)
KindsSoFar(ops, n, loaded, content) ==
  \A k \in Key :
    IF SetsBefore(ops, n, k) = {}
    THEN \/ content.variables[k] = Nothing /\ loaded.variables[k] = Nothing
         \/ /\ content.variables[k] # Nothing /\ loaded.variables[k] # Nothing
            /\ content.variables[k].kind = loaded.variables[k].kind
    ELSE /\ content.variables[k] # Nothing
         /\ content.variables[k].kind = ops[Max(SetsBefore(ops, n, k))].value.kind

ListSoFar(ops, n, loaded, content) ==
  content.scene["active_npcs"] =
    IF ListWritesBefore(ops, n) = {}
    THEN loaded.scene["active_npcs"]
    ELSE ops[Max(ListWritesBefore(ops, n))].value

SoFar(ops, n, loaded, content) ==
  /\ n \in 1..(Len(ops) + 1)
  /\ KindsSoFar(ops, n, loaded, content)
  /\ ListSoFar(ops, n, loaded, content)
  /\ \A i \in 1..(n - 1) : ops[i].op = "increment" => MeetsNumber(ops, i, loaded)

ApplyInv ==
  /\ state.content.scene["active_npcs"] # None
  /\ \A p \in Server :
       /\ pc[p] # "idle" => job[p].loaded.scene["active_npcs"] # None
       /\ pc[p] \in {"curate", "validate"} =>
            job[p].next = 1 /\ job[p].content = job[p].loaded
       /\ pc[p] \in {"apply", "write"} =>
            SoFar(job[p].ops, job[p].next, job[p].loaded, job[p].content)

LEMMA LargestAdded ==
  ASSUME NEW n \in Nat, NEW S \in SUBSET (1..(n - 1))
  PROVE  Max(S \cup {n}) = n
<1>1. \A x \in S \cup {n} : x \in Nat /\ n >= x
  OBVIOUS
<1>2. \A x \in S \cup {n} : (\A y \in S \cup {n} : x >= y) => x = n
  BY <1>1
<1> QED
  BY <1>1, <1>2 DEF Max

LEMMA PlacesAfter ==
  ASSUME NEW ops, NEW n \in Nat \ {0}, NEW k
  PROVE  /\ SetsBefore(ops, n + 1, k) =
              IF ops[n].op = "set" /\ ops[n].key = k
              THEN SetsBefore(ops, n, k) \cup {n} ELSE SetsBefore(ops, n, k)
         /\ ListWritesBefore(ops, n + 1) =
              IF ops[n].op = "set_scene_field" /\ ops[n].key = "active_npcs"
              THEN ListWritesBefore(ops, n) \cup {n} ELSE ListWritesBefore(ops, n)
         /\ SetsBefore(ops, n, k) \in SUBSET (1..(n - 1))
         /\ ListWritesBefore(ops, n) \in SUBSET (1..(n - 1))
<1>1. 1..((n + 1) - 1) = (1..(n - 1)) \cup {n}
  OBVIOUS
<1> QED
  BY <1>1 DEF SetsBefore, ListWritesBefore

(* What a valid operation makes of content c: to the variables and to the  *)
(* list of persons what its name says, and the others leave both alone.    *)
Effect(o, loaded, c, d) ==
  /\ o.key \in Key /\ o.value \in Value
  /\ o.op = "set" =>
       /\ d.variables = [c.variables EXCEPT ![o.key] = o.value]
       /\ d.scene = c.scene
  /\ o.op = "increment" =>
       /\ loaded.variables[o.key] # Nothing
       /\ c.variables[o.key] # Nothing =>
            d.variables = [c.variables EXCEPT ![o.key] =
                             Number(c.variables[o.key].n + Delta(o))]
       /\ c.variables[o.key] = Nothing => d.variables = c.variables
       /\ d.scene = c.scene
  /\ o.op = "set_scene_field" =>
       /\ d.variables = c.variables
       /\ o.key \in SceneField
       /\ d.scene = [c.scene EXCEPT ![o.key] = o.value]
  /\ o.op \notin {"set", "increment", "set_scene_field"} =>
       d.variables = c.variables /\ d.scene = c.scene

LEMMA AppliedEffect ==
  ASSUME NEW c \in Content, NEW o \in Operation, NEW loaded, ~Invalid(o, loaded)
  PROVE  Effect(o, loaded, c, Applied(o, c))
<1> USE DEF Effect
<1>1. o.key \in Key /\ o.value \in Value /\ o.op \in PatchOpType
  BY DEF Operation, OperationOf
<1>2. o.prefix \in AllowedPrefixes(o.op)
  BY DEF Invalid
<1>3. CASE o.op = "set"
  <2>1. o.prefix = "variables"
    BY <1>2, <1>3 DEF AllowedPrefixes
  <2>2. Applied(o, c) = [c EXCEPT !.variables[o.key] = o.value]
    BY <1>3, <2>1 DEF Applied
  <2> QED
    BY <1>1, <1>3, <2>2 DEF Content
<1>4. CASE o.op = "increment"
  <2>1. o.prefix = "variables"
    BY <1>2, <1>4 DEF AllowedPrefixes
  <2>2. loaded.variables[o.key] # Nothing
    BY <1>4 DEF Invalid
  <2>3. CASE c.variables[o.key] # Nothing
    <3> DEFINE sum == Number(c.variables[o.key].n + Delta(o))
    <3>1. Applied(o, c) = [c EXCEPT !.variables[o.key] = sum]
      BY <1>4, <2>1, <2>3 DEF Applied, Content
    <3> HIDE DEF sum
    <3>2. /\ Applied(o, c).variables = [c.variables EXCEPT ![o.key] = sum]
          /\ Applied(o, c).scene = c.scene
      BY <3>1 DEF Content
    <3> QED
      BY <1>1, <1>4, <2>2, <2>3, <3>2 DEF sum
  <2>4. CASE c.variables[o.key] = Nothing
    <3>1. Applied(o, c) = c
      BY <1>4, <2>4 DEF Applied
    <3> QED
      BY <1>1, <1>4, <2>2, <2>4, <3>1
  <2> QED
    BY <2>3, <2>4
<1>5. CASE o.op = "set_scene_field"
  <2>1. o.prefix = "scene_state" /\ o.key \in SceneField
    BY <1>2, <1>5 DEF AllowedPrefixes, Invalid
  <2>2. Applied(o, c) = [c EXCEPT !.scene[o.key] = o.value]
    BY <1>5, <2>1 DEF Applied
  <2> QED
    BY <1>1, <1>5, <2>1, <2>2 DEF Content
<1>6. CASE o.op = "set_flag"
  <2>1. Applied(o, c) = [c EXCEPT !.flags = @ \cup {o.key}] \/ Applied(o, c) = c
    BY <1>6 DEF Applied
  <2> QED
    BY <1>1, <1>6, <2>1 DEF Content
<1>7. CASE o.op \notin {"set", "increment", "set_scene_field", "set_flag"}
  <2>1. Applied(o, c) = c
    BY <1>7 DEF Applied
  <2> QED
    BY <1>1, <1>7, <2>1
<1> QED
  BY <1>3, <1>4, <1>5, <1>6, <1>7

LEMMA NumberIsNumber == \A n : Number(n).kind = "number" /\ Number(n) # None
BY DEF Number, None

LEMMA NothingIsNoValue == \A v \in Value : v # Nothing
BY NothingAssumption

(* An increment that does not raise meets a number.                        *)
LEMMA MeetsOrRaises ==
  ASSUME NEW ops \in Seq(Operation), NEW n \in 1..Len(ops),
         NEW loaded \in Content, NEW c \in Content,
         ~Invalid(ops[n], loaded), KindsSoFar(ops, n, loaded, c),
         ops[n].op = "increment"
  PROVE  /\ Raises(ops[n], c) <=> ~MeetsNumber(ops, n, loaded)
         /\ c.variables[ops[n].key] # Nothing
<1> DEFINE k == ops[n].key
<1>1. k \in Key /\ loaded.variables[k] # Nothing
  <2>1. ops[n] \in Operation
    OBVIOUS
  <2> QED
    BY <2>1 DEF Invalid, Operation, OperationOf
<1>2. SetBefore(ops, n) = SetsBefore(ops, n, k)
  BY DEF SetBefore, SetsBefore
<1> HIDE DEF k
<1>3. c.variables[k] # Nothing
  BY <1>1 DEF KindsSoFar
<1>4. (c.variables[k].kind = "number") <=> MeetsNumber(ops, n, loaded)
  <2>1. CASE SetsBefore(ops, n, k) = {}
    BY <1>1, <1>2, <1>3, <2>1 DEF KindsSoFar, MeetsNumber, k
  <2>2. CASE SetsBefore(ops, n, k) # {}
    BY <1>1, <1>2, <1>3, <2>2 DEF KindsSoFar, MeetsNumber, k
  <2> QED
    BY <2>1, <2>2
<1> QED
  BY <1>3, <1>4 DEF Raises, k

(* One more operation keeps the account.                                   *)
LEMMA SoFarGrows ==
  ASSUME NEW ops \in Seq(Operation), NEW n \in 1..Len(ops),
         NEW loaded \in Content, NEW c \in Content,
         Errors(ops, loaded) = {}, SoFar(ops, n, loaded, c), ~Raises(ops[n], c)
  PROVE  SoFar(ops, n + 1, loaded, Applied(ops[n], c))
<1> DEFINE o == ops[n]
           d == Applied(o, c)
<1>1. o \in Operation /\ ~Invalid(o, loaded) /\ n \in Nat \ {0} /\ Len(ops) \in Nat
  BY DEF Errors
<1>2. n + 1 \in 1..(Len(ops) + 1)
  BY <1>1
<1>7. o = ops[n] /\ d = Applied(o, c)
  OBVIOUS
<1> HIDE DEF o, d
<1>8. Effect(o, loaded, c, d)
  BY <1>1, <1>7, AppliedEffect
<1>9. \A k : /\ SetsBefore(ops, n + 1, k) =
                   IF o.op = "set" /\ o.key = k
                   THEN SetsBefore(ops, n, k) \cup {n} ELSE SetsBefore(ops, n, k)
             /\ SetsBefore(ops, n, k) \in SUBSET (1..(n - 1))
  BY <1>1, <1>7, PlacesAfter
<1>10. /\ ListWritesBefore(ops, n + 1) =
            IF o.op = "set_scene_field" /\ o.key = "active_npcs"
            THEN ListWritesBefore(ops, n) \cup {n} ELSE ListWritesBefore(ops, n)
       /\ ListWritesBefore(ops, n) \in SUBSET (1..(n - 1))
  BY <1>1, <1>7, PlacesAfter
<1>3. KindsSoFar(ops, n + 1, loaded, d)
  <2> SUFFICES ASSUME NEW k \in Key
               PROVE  IF SetsBefore(ops, n + 1, k) = {}
                      THEN \/ d.variables[k] = Nothing /\ loaded.variables[k] = Nothing
                           \/ /\ d.variables[k] # Nothing /\ loaded.variables[k] # Nothing
                              /\ d.variables[k].kind = loaded.variables[k].kind
                      ELSE /\ d.variables[k] # Nothing
                           /\ d.variables[k].kind =
                                ops[Max(SetsBefore(ops, n + 1, k))].value.kind
    BY DEF KindsSoFar
  <2>1. IF SetsBefore(ops, n, k) = {}
        THEN \/ c.variables[k] = Nothing /\ loaded.variables[k] = Nothing
             \/ /\ c.variables[k] # Nothing /\ loaded.variables[k] # Nothing
                /\ c.variables[k].kind = loaded.variables[k].kind
        ELSE /\ c.variables[k] # Nothing
             /\ c.variables[k].kind = ops[Max(SetsBefore(ops, n, k))].value.kind
    BY DEF SoFar, KindsSoFar
  <2>2. CASE o.op = "set" /\ o.key = k
    <3>1. SetsBefore(ops, n + 1, k) = SetsBefore(ops, n, k) \cup {n}
      BY <1>9, <2>2
    <3>2. Max(SetsBefore(ops, n + 1, k)) = n
      BY <1>1, <1>9, <3>1, LargestAdded
    <3>3. d.variables[k] = o.value /\ o.value \in Value
      BY <1>8, <2>2 DEF Effect, Content
    <3>4. d.variables[k] # Nothing
      BY <3>3, NothingIsNoValue
    <3> QED
      BY <1>7, <3>1, <3>2, <3>3, <3>4
  <2>3. CASE ~(o.op = "set" /\ o.key = k)
    <3>1. SetsBefore(ops, n + 1, k) = SetsBefore(ops, n, k)
      BY <1>9, <2>3
    <3>2. \/ d.variables[k] = c.variables[k]
          \/ /\ d.variables[k] # Nothing /\ c.variables[k] # Nothing
             /\ d.variables[k].kind = c.variables[k].kind
      <4>1. CASE o.op = "increment" /\ o.key = k
        <5>1. c.variables[k] # Nothing /\ c.variables[k].kind = "number"
          BY <1>1, <1>7, <4>1, MeetsOrRaises DEF SoFar, Raises
        <5> DEFINE sum == c.variables[k].n + Delta(o)
        <5>2. d.variables = [c.variables EXCEPT ![k] = Number(sum)]
          BY <1>8, <4>1, <5>1 DEF Effect
        <5>3. sum \in Int
          <6>1. c.variables[k] \in Value /\ o.value \in Value
            BY <1>8, <5>1 DEF Effect, Content
          <6> QED
            BY <6>1 DEF Value, Delta
        <5> HIDE DEF sum
        <5>4. d.variables[k] = Number(sum)
          BY <5>2 DEF Content
        <5> QED
          BY <5>1, <5>3, <5>4, NumberIsNumber, ValueType, NothingIsNoValue
      <4>2. CASE ~(o.op = "increment" /\ o.key = k)
        <5>1. \/ d.variables = c.variables
              \/ \E v : d.variables = [c.variables EXCEPT ![o.key] = v] /\ o.key # k
          BY <1>8, <2>3, <4>2 DEF Effect
        <5> QED
          BY <5>1 DEF Content
      <4> QED
        BY <4>1, <4>2
    <3> QED
      BY <2>1, <3>1, <3>2
  <2> QED
    BY <2>2, <2>3
<1>4. ListSoFar(ops, n + 1, loaded, d)
  <2>1. CASE o.op = "set_scene_field" /\ o.key = "active_npcs"
    <3>1. ListWritesBefore(ops, n + 1) = ListWritesBefore(ops, n) \cup {n}
      BY <1>10, <2>1
    <3>2. Max(ListWritesBefore(ops, n + 1)) = n
      BY <1>1, <1>10, <3>1, LargestAdded
    <3>3. d.scene = [c.scene EXCEPT !["active_npcs"] = o.value]
      BY <1>8, <2>1 DEF Effect
    <3>4. d.scene["active_npcs"] = o.value
      BY <3>3 DEF Content, SceneField
    <3> QED
      BY <1>7, <3>1, <3>2, <3>4 DEF ListSoFar
  <2>2. CASE ~(o.op = "set_scene_field" /\ o.key = "active_npcs")
    <3>1. ListWritesBefore(ops, n + 1) = ListWritesBefore(ops, n)
      BY <1>10, <2>2
    <3>2. \/ d.scene = c.scene
          \/ d.scene = [c.scene EXCEPT ![o.key] = o.value] /\ o.key # "active_npcs"
      BY <1>8, <2>2 DEF Effect
    <3>3. d.scene["active_npcs"] = c.scene["active_npcs"]
      BY <3>2 DEF Content, SceneField
    <3> QED
      BY <3>1, <3>3 DEF SoFar, ListSoFar
  <2> QED
    BY <2>1, <2>2
<1>5. \A i \in 1..((n + 1) - 1) : ops[i].op = "increment" => MeetsNumber(ops, i, loaded)
  <2>1. o.op = "increment" => MeetsNumber(ops, n, loaded)
    BY <1>1, <1>7, MeetsOrRaises DEF SoFar
  <2>2. \A i \in 1..((n + 1) - 1) : i = n \/ i \in 1..(n - 1)
    BY <1>1
  <2> QED
    BY <1>7, <2>1, <2>2 DEF SoFar
<1>6. SoFar(ops, n + 1, loaded, d)
  BY <1>2, <1>3, <1>4, <1>5 DEF SoFar
<1> QED
  BY <1>6, <1>7

(* Nothing has been applied yet.                                           *)
LEMMA SoFarStarts ==
  ASSUME NEW ops \in Seq(Operation), NEW c \in Content
  PROVE  SoFar(ops, 1, c, c)
<1>1. Len(ops) \in Nat
  OBVIOUS
<1>2. 1..(1 - 1) = {}
  OBVIOUS
<1>3. 1 \in 1..(Len(ops) + 1)
  BY <1>1
<1> QED
  BY <1>2, <1>3 DEF SoFar, KindsSoFar, ListSoFar, SetsBefore, ListWritesBefore

(* The account of all operations decides whether they are applicable.      *)
LEMMA AccountDecides ==
  ASSUME NEW ops \in Seq(Operation), NEW n, NEW loaded \in Content, NEW c \in Content,
         SoFar(ops, n, loaded, c), n > Len(ops), loaded.scene["active_npcs"] # None
  PROVE  Applicable(ops, loaded) <=> ~Unwritable(c)
<1>1. Len(ops) \in Nat /\ n = Len(ops) + 1 /\ DOMAIN ops = 1..Len(ops)
      /\ 1..(n - 1) = DOMAIN ops
  BY DEF SoFar
<1>2. \A i \in DOMAIN ops : ops[i].op = "increment" => MeetsNumber(ops, i, loaded)
  BY <1>1 DEF SoFar
<1>3. ListWrites(ops) = ListWritesBefore(ops, n)
  BY <1>1 DEF ListWrites, ListWritesBefore
<1>4. Unwritable(c) <=> ListWrites(ops) # {} /\ ops[Max(ListWrites(ops))].value = None
  BY <1>3 DEF SoFar, ListSoFar, Unwritable
<1> QED
  BY <1>2, <1>4 DEF Applicable, MeetsNumber

LEMMA RaiseDecides ==
  ASSUME NEW ops \in Seq(Operation), NEW n \in 1..Len(ops),
         NEW loaded \in Content, NEW c \in Content,
         Errors(ops, loaded) = {}, SoFar(ops, n, loaded, c), Raises(ops[n], c)
  PROVE  ~Applicable(ops, loaded)
<1>1. ~Invalid(ops[n], loaded) /\ n \in DOMAIN ops
  BY DEF Errors
<1>2. ops[n].op = "increment"
  BY DEF Raises
<1>3. ~MeetsNumber(ops, n, loaded)
  BY <1>1, <1>2, MeetsOrRaises DEF SoFar
<1> QED
  BY <1>1, <1>2, <1>3 DEF Applicable, MeetsNumber

(* What of the account is about one server.                                *)
Account(p) ==
  /\ pc[p] # "idle" => job[p].loaded.scene["active_npcs"] # None
  /\ pc[p] \in {"curate", "validate"} =>
       job[p].next = 1 /\ job[p].content = job[p].loaded
  /\ pc[p] \in {"apply", "write"} =>
       SoFar(job[p].ops, job[p].next, job[p].loaded, job[p].content)

LEMMA ApplyStep == PatchInv /\ ApplyInv /\ [Next]_vars => ApplyInv'
<1> SUFFICES ASSUME PatchInv, ApplyInv, [Next]_vars PROVE ApplyInv'
  OBVIOUS
<1>t. TypeOK
  BY DEF PatchInv
<1>a. /\ state.content.scene["active_npcs"] # None
      /\ \A p \in Server : Account(p)
  BY DEF ApplyInv, Account
<1>1. ASSUME NEW p \in Server, state'.content = state.content,
             \A q \in Server \ {p} : pc'[q] = pc[q] /\ job'[q] = job[q],
             Account(p)'
      PROVE  ApplyInv'
  <2>1. ASSUME NEW q \in Server PROVE Account(q)'
    BY <1>a, <1>1 DEF Account
  <2> QED
    BY <1>a, <1>1, <2>1 DEF ApplyInv, Account
<1>2. ASSUME NEW p \in Server, Load(p) PROVE ApplyInv'
  <2>1. /\ job'[p].next = 1 /\ job'[p].content = job'[p].loaded
        /\ job'[p].loaded = state.content /\ pc'[p] = "curate"
        /\ state'.content = state.content
        /\ \A q \in Server \ {p} : pc'[q] = pc[q] /\ job'[q] = job[q]
    BY <1>t, <1>2 DEF Load, TypeOK
  <2>2. Account(p)'
    BY <1>a, <2>1 DEF Account
  <2> QED
    BY <1>1, <2>1, <2>2
<1>3. ASSUME NEW p \in Server, ParseOne(p) PROVE ApplyInv'
  <2>1. job[p] \in Job /\ pc[p] = "curate" /\ pc' = pc /\ state' = state
    BY <1>t, <1>3, InTurn DEF ParseOne
  <2>2. \E v : job' = [job EXCEPT ![p] = [job[p] EXCEPT !.ops = v]]
    BY <1>t, <1>3 DEF ParseOne, TypeOK
  <2>3. /\ job'[p].next = job[p].next /\ job'[p].content = job[p].content
        /\ job'[p].loaded = job[p].loaded
        /\ \A q \in Server \ {p} : job'[q] = job[q]
    BY <1>t, <2>1, <2>2 DEF TypeOK, Job
  <2>4. Account(p)'
    BY <1>a, <2>1, <2>3 DEF Account
  <2> QED
    BY <1>1, <2>1, <2>3, <2>4
<1>4. ASSUME NEW p \in Server, CurateOffline(p) PROVE ApplyInv'
  <2>1. /\ job[p] \in Job /\ pc[p] = "curate" /\ pc'[p] = "validate" /\ state' = state
        /\ \A q \in Server \ {p} : pc'[q] = pc[q]
    BY <1>t, <1>4, InTurn DEF CurateOffline, TypeOK
  <2>2. \E v : job' = [job EXCEPT ![p] = [job[p] EXCEPT !.ops = v, !.offline = TRUE]]
    BY <1>t, <1>4 DEF CurateOffline, TypeOK
  <2>3. /\ job'[p].next = job[p].next /\ job'[p].content = job[p].content
        /\ job'[p].loaded = job[p].loaded
        /\ \A q \in Server \ {p} : job'[q] = job[q]
    BY <1>t, <2>1, <2>2 DEF TypeOK, Job
  <2>4. Account(p)'
    BY <1>a, <2>1, <2>3 DEF Account
  <2> QED
    BY <1>1, <2>1, <2>3, <2>4
<1>5. ASSUME NEW p \in Server, Validate(p) PROVE ApplyInv'
  <2> DEFINE failed == Errors(job[p].ops, job[p].loaded) # {}
             kept == IF failed THEN <<>> ELSE job[p].ops
  <2>1. /\ job[p] \in Job /\ pc[p] \in {"curate", "validate"} /\ pc'[p] = "apply"
        /\ state' = state
        /\ \A q \in Server \ {p} : pc'[q] = pc[q]
    BY <1>t, <1>5, InTurn DEF Validate, TypeOK
  <2>2. job' = [job EXCEPT ![p] = [job[p] EXCEPT !.rejected = failed, !.ops = kept]]
    BY <1>t, <1>5 DEF Validate, TypeOK
  <2>3. kept \in Seq(Operation)
    BY <2>1 DEF Job
  <2> HIDE DEF failed, kept
  <2>4. /\ job'[p].ops = kept /\ job'[p].next = job[p].next
        /\ job'[p].content = job[p].content /\ job'[p].loaded = job[p].loaded
        /\ \A q \in Server \ {p} : job'[q] = job[q]
    BY <1>t, <2>1, <2>2 DEF TypeOK, Job
  <2>5. /\ job[p].next = 1 /\ job[p].content = job[p].loaded
        /\ job[p].loaded \in Content /\ job[p].loaded.scene["active_npcs"] # None
    BY <1>a, <2>1 DEF Account, Job
  <2>6. SoFar(kept, 1, job[p].loaded, job[p].loaded)
    BY <2>3, <2>5, SoFarStarts
  <2>7. Account(p)'
    BY <2>1, <2>4, <2>5, <2>6 DEF Account
  <2> QED
    BY <1>1, <2>1, <2>4, <2>7
<1>6. ASSUME NEW p \in Server, NEW answer, Return(p, answer), state' = state PROVE ApplyInv'
  BY <1>t, <1>1, <1>6 DEF Return, TypeOK, Account
<1>7. ASSUME NEW p \in Server, ApplyOne(p) PROVE ApplyInv'
  <2> DEFINE o == job[p].ops[job[p].next]
  <2>1. /\ job[p] \in Job /\ pc[p] = "apply" /\ state' = state
        /\ job[p].ops \in Seq(Operation) /\ job[p].next \in 1..Len(job[p].ops)
        /\ job[p].loaded \in Content /\ job[p].content \in Content
    BY <1>t, <1>7, InTurn DEF ApplyOne, Operations, Job
  <2>2. CASE Raises(o, job[p].content)
    BY <1>6, <1>7, <2>1, <2>2 DEF ApplyOne, Operations
  <2>3. CASE ~Raises(o, job[p].content)
    <3> DEFINE following == job[p].next + 1
               after == Applied(o, job[p].content)
    <3>1. /\ pc' = pc
          /\ job' = [job EXCEPT ![p] = [job[p] EXCEPT !.next = following, !.content = after]]
      BY <1>t, <1>7, <2>3 DEF ApplyOne, Operations, TypeOK
    <3>2. Errors(job[p].ops, job[p].loaded) = {}
      BY <2>1 DEF PatchInv, ValidatedAtLoad
    <3>3. /\ SoFar(job[p].ops, job[p].next, job[p].loaded, job[p].content)
          /\ job[p].loaded.scene["active_npcs"] # None
      BY <1>a, <2>1 DEF Account
    <3>4. SoFar(job[p].ops, following, job[p].loaded, after)
      BY <2>1, <2>3, <3>2, <3>3, SoFarGrows
    <3> HIDE DEF following, after
    <3>5. /\ job'[p].ops = job[p].ops /\ job'[p].next = following
          /\ job'[p].content = after /\ job'[p].loaded = job[p].loaded
          /\ \A q \in Server \ {p} : job'[q] = job[q]
      BY <1>t, <2>1, <3>1 DEF TypeOK, Job
    <3>6. Account(p)'
      BY <2>1, <3>1, <3>3, <3>4, <3>5 DEF Account
    <3> QED
      BY <1>1, <2>1, <3>1, <3>5, <3>6
  <2> QED
    BY <2>2, <2>3
<1>8. ASSUME NEW p \in Server, Check(p) PROVE ApplyInv'
  <2>1. CASE \E answer : Return(p, answer)
    BY <1>6, <1>8, <2>1 DEF Check
  <2>2. CASE pc' = [pc EXCEPT ![p] = "write"] /\ UNCHANGED job
    <3>1. /\ pc[p] = "apply" /\ pc'[p] = "write" /\ state' = state /\ job' = job
          /\ \A q \in Server \ {p} : pc'[q] = pc[q]
      BY <1>t, <1>8, <2>2 DEF Check, TypeOK
    <3>2. Account(p)'
      BY <1>a, <3>1 DEF Account
    <3> QED
      BY <1>1, <3>1, <3>2
  <2> QED
    BY <1>8, <2>1, <2>2 DEF Check
<1>9. ASSUME NEW p \in Server, Write(p) PROVE ApplyInv'
  <2>1. CASE Return(p, "unwritable") /\ UNCHANGED <<state, receipts>>
    BY <1>6, <2>1
  <2>2. ASSUME Store(p), ~Unwritable(job[p].content), NEW answer, Return(p, answer)
        PROVE  ApplyInv'
    <3>1. state'.content = job[p].content
      BY <1>t, <2>2 DEF Store, TypeOK
    <3>2. \A q \in Server : Account(q)'
      BY <1>t, <1>a, <2>2 DEF Return, TypeOK, Account
    <3> QED
      BY <2>2, <3>1, <3>2 DEF ApplyInv, Account, Unwritable
  <2> QED
    BY <1>9, <2>1, <2>2 DEF Write
<1>10. ASSUME NEW p \in Server, NoStateChange(p) \/ StoreRaises(p) \/ CuratorRaises(p)
       PROVE  ApplyInv'
  BY <1>6, <1>10 DEF NoStateChange, StoreRaises, CuratorRaises
<1>11. CASE UNCHANGED <<state, pc, job>>
  BY <1>11 DEF ApplyInv
<1> QED
  BY <1>2, <1>3, <1>4, <1>5, <1>7, <1>8, <1>9, <1>10, <1>11 DEF Next, Bootstrap, vars

(* A turn that passed the gate and does not end in success was overtaken   *)
(* by another one; or its operations, valid one by one, cannot be executed *)
(* in their order (an increment after the assignment of a text, a list     *)
(* overwritten with nothing); or an update was lost and left a content the *)
(* turn was not loaded with; or the answer is malformed; or the database   *)
(* raised.  No operations that cannot be executed are ever accepted.  For  *)
(* any number of servers and answers of any length.                        *)
THEOREM TextIsLostWithReason == Spec => TextLostWithReason
<1> DEFINE Reason(p) ==
      pc[p] \in {"apply", "write"} /\ pc'[p] = "idle" =>
        CASE reply'[p] = "success" -> Applicable(Operations(p), job[p].loaded)
          [] reply'[p] = "revision_conflict" -> state.revision # job[p].base
          [] reply'[p] \in {"exception", "unwritable"} ->
               ~Applicable(Operations(p), job[p].loaded)
          [] reply'[p] = "validation_failed" ->
               state.revision = job[p].base /\ state.content # job[p].loaded
          [] OTHER -> reply'[p] \in {"malformed_answer", "database_error"}
           Reasons == \A p \in Server : Reason(p)
<1>1. ASSUME PatchInv, ApplyInv, Next PROVE Reasons
  <2> SUFFICES ASSUME NEW p \in Server, pc[p] \in {"apply", "write"}, pc'[p] = "idle"
               PROVE  Reason(p)
    OBVIOUS
  <2>t. TypeOK
    BY <1>1 DEF PatchInv
  <2>1. \/ ApplyOne(p) /\ Return(p, "exception")
        \/ Check(p) \/ Write(p) \/ StoreRaises(p) \/ NoStateChange(p)
    <3>1. ASSUME NEW q \in Server,
                 Load(q) \/ ParseOne(q) \/ CurateOffline(q) \/ Validate(q) \/ CuratorRaises(q)
          PROVE  FALSE
      BY <2>t, <3>1 DEF Load, ParseOne, CurateOffline, Validate, CuratorRaises, Return, TypeOK
    <3>2. ASSUME NEW q \in Server, ApplyOne(q) PROVE q = p /\ Return(p, "exception")
      BY <2>t, <3>2 DEF ApplyOne, Return, TypeOK
    <3>3. ASSUME NEW q \in Server,
                 Check(q) \/ Write(q) \/ StoreRaises(q) \/ NoStateChange(q)
          PROVE  q = p
      BY <2>t, <3>3 DEF Check, Write, StoreRaises, NoStateChange, Return, TypeOK
    <3>4. ASSUME NEW chosen \in Seed, Bootstrap(chosen) PROVE FALSE
      BY <2>t, <3>4 DEF Bootstrap, TypeOK
    <3> QED
      BY <1>1, <3>1, <3>2, <3>3, <3>4 DEF Next
  <2>2. /\ job[p] \in Job /\ Operations(p) = job[p].ops
        /\ job[p].ops \in Seq(Operation) /\ job[p].next \in Nat \ {0}
        /\ job[p].loaded \in Content /\ job[p].content \in Content
    BY <2>t, InTurn DEF Job
  <2>3. /\ SoFar(job[p].ops, job[p].next, job[p].loaded, job[p].content)
        /\ job[p].loaded.scene["active_npcs"] # None
        /\ Errors(job[p].ops, job[p].loaded) = {}
        /\ pc[p] = "write" => job[p].next > Len(job[p].ops)
    BY <1>1 DEF ApplyInv, PatchInv, ValidatedAtLoad
  <2>4. CASE ApplyOne(p) /\ Return(p, "exception")
    <3>1. reply'[p] = "exception"
      BY <2>t, <2>4 DEF Return, TypeOK
    <3>2. Raises(job[p].ops[job[p].next], job[p].content) /\ job[p].next \in 1..Len(job[p].ops)
      BY <2>t, <2>2, <2>4 DEF ApplyOne, Return, TypeOK
    <3>3. ~Applicable(job[p].ops, job[p].loaded)
      BY <2>2, <2>3, <3>2, RaiseDecides
    <3> QED
      BY <2>2, <3>1, <3>3
  <2>5. CASE Check(p)
    <3>1. CASE state.revision # job[p].base
      <4>1. reply'[p] = "revision_conflict"
        BY <2>t, <2>5, <3>1 DEF Check, Return, TypeOK
      <4> QED
        BY <3>1, <4>1
    <3>2. CASE state.revision = job[p].base /\ Errors(Operations(p), state.content) # {}
      <4>1. reply'[p] = "validation_failed"
        BY <2>t, <2>5, <3>2 DEF Check, Return, TypeOK
      <4>2. state.content # job[p].loaded
        BY <2>2, <2>3, <3>2
      <4> QED
        BY <3>2, <4>1, <4>2
    <3>3. CASE state.revision = job[p].base /\ Errors(Operations(p), state.content) = {}
      <4>1. pc' = [pc EXCEPT ![p] = "write"]
        BY <2>5, <3>3 DEF Check
      <4> QED
        BY <2>t, <4>1 DEF TypeOK
    <3> QED
      BY <3>1, <3>2, <3>3
  <2>6. CASE Write(p)
    <3>1. pc[p] = "write"
      BY <2>6 DEF Write
    <3>2. Applicable(job[p].ops, job[p].loaded) <=> ~Unwritable(job[p].content)
      BY <2>2, <2>3, <3>1, AccountDecides
    <3>3. CASE Unwritable(job[p].content)
      <4>1. reply'[p] = "unwritable"
        BY <2>t, <2>6, <3>3 DEF Write, Return, TypeOK
      <4> QED
        BY <2>2, <3>2, <3>3, <4>1
    <3>4. CASE ~Unwritable(job[p].content)
      <4>1. reply'[p] \in {"success", "malformed_answer"}
        BY <2>t, <2>6, <3>4 DEF Write, Return, TypeOK
      <4>2. Applicable(Operations(p), job[p].loaded)
        BY <2>2, <3>2, <3>4
      <4> QED
        BY <4>1, <4>2
    <3> QED
      BY <3>3, <3>4
  <2>7. CASE StoreRaises(p)
    <3>1. reply'[p] = "database_error"
      BY <2>t, <2>7 DEF StoreRaises, Return, TypeOK
    <3> QED
      BY <3>1
  <2>8. CASE NoStateChange(p)
    <3>1. reply'[p] = "success" /\ job[p].ops = <<>>
      BY <2>t, <2>2, <2>8 DEF NoStateChange, Return, TypeOK
    <3>2. Applicable(<<>>, job[p].loaded)
      BY DEF Applicable, ListWrites
    <3> QED
      BY <2>2, <3>1, <3>2
  <2> QED
    BY <2>1, <2>4, <2>5, <2>6, <2>7, <2>8
<1>2. Init => ApplyInv
  BY DEF Init, ApplyInv, Empty, SceneField, FieldType, List, None
<1>3. Spec => [][Reasons]_vars
  <2> HIDE DEF Reasons
  <2> QED
    BY <1>1, <1>2, InvInit, InvStep, ApplyStep, PTL DEF Spec
<1> QED
  BY <1>3 DEF TextLostWithReason

-----------------------------------------------------------------------------
(* The log.  The operations the curator may propose are done alike by the  *)
(* engine and by the runtime that a replay uses.                           *)

LEMMA RuntimeAppliedType ==
  ASSUME NEW c \in Content, NEW o \in Operation
  PROVE  RuntimeApplied(c, o) \in Content
<1>1. o.key \in Key /\ o.value \in Value
  BY DEF Operation, OperationOf
<1>2. CASE /\ o.op = "increment" /\ o.prefix = "variables"
           /\ c.variables[o.key] # Nothing
  <2>1. RuntimeApplied(c, o) = Applied(o, c)
    BY <1>2 DEF RuntimeApplied, Applied
  <2> QED
    BY <2>1, AppliedType
<1>3. CASE o.op = "set_scene_field" /\ o.prefix = "scene_state"
  BY <1>3 DEF RuntimeApplied, Content, Operation, OperationOf
<1>4. CASE o.op \in {"set", "remove"} /\ o.prefix = "variables"
  <2>1. \E v \in Value \cup {Nothing} :
          RuntimeApplied(c, o) = [c EXCEPT !.variables[o.key] = v]
    BY <1>1, <1>4 DEF RuntimeApplied
  <2> QED
    BY <1>1, <2>1 DEF Content
<1>5. CASE /\ o.op \in {"remove", "set_flag"} /\ o.prefix = "event_flags"
  <2>1. \/ RuntimeApplied(c, o) = [c EXCEPT !.flags = @ \cup {o.key}]
        \/ RuntimeApplied(c, o) = [c EXCEPT !.flags = @ \ {o.key}]
    BY <1>5 DEF RuntimeApplied
  <2> QED
    BY <1>1, <2>1 DEF Content
<1>6. CASE /\ o.op \in {"append_unique", "activate_stage", "deactivate_stage"}
           /\ o.prefix = "active_stage_ids"
  <2>1. \/ RuntimeApplied(c, o) = [c EXCEPT !.stages = @ \cup {o.key}]
        \/ RuntimeApplied(c, o) = [c EXCEPT !.stages = @ \ {o.key}]
    BY <1>6 DEF RuntimeApplied
  <2> QED
    BY <1>1, <2>1 DEF Content
<1>7. CASE /\ ~(o.op = "set_scene_field" /\ o.prefix = "scene_state")
           /\ ~(o.op \in {"set", "remove"} /\ o.prefix = "variables")
           /\ ~(o.op \in {"remove", "set_flag"} /\ o.prefix = "event_flags")
           /\ ~(/\ o.op \in {"append_unique", "activate_stage", "deactivate_stage"}
                /\ o.prefix = "active_stage_ids")
           /\ ~(/\ o.op = "increment" /\ o.prefix = "variables"
                /\ c.variables[o.key] # Nothing)
  BY <1>7 DEF RuntimeApplied
<1> QED
  BY <1>2, <1>3, <1>4, <1>5, <1>6, <1>7

LEMMA RuntimeAgrees ==
  ASSUME NEW c, NEW o, o.op \in CuratorAllowedOps
  PROVE  RuntimeApplied(c, o) = Applied(o, c)
BY DEF RuntimeApplied, Applied, CuratorAllowedOps

(* What a patch makes of a content, one operation after the other.         *)
Patched(c, ops) == FoldLeft(RuntimeApplied, c, ops)

PatchStates(c, ops, f) ==
  /\ f \in [0..Len(ops) -> Content] /\ f[0] = c
  /\ \A i \in 1..Len(ops) : f[i] = RuntimeApplied(f[i - 1], ops[i])
  /\ Patched(c, ops) = f[Len(ops)]

LEMMA PatchFold ==
  ASSUME NEW c \in Content, NEW ops \in Seq(Operation)
  PROVE  \E f : PatchStates(c, ops, f)
<1> DEFINE n == Len(ops)
           F == [x \in Content \X Operation |-> RuntimeApplied(x[1], x[2])]
           Step(h) == [t \in SUBSET (1..n) |->
                         IF t = {} THEN c ELSE RuntimeApplied(h[t \ {Max(t)}], ops[Max(t)])]
           iter == CHOOSE h : h = Step(h)
<1>1. /\ n \in Nat /\ DOMAIN ops = 1..n /\ ops \in [1..n -> Operation]
      /\ \A i \in 1..n : ops[i] \in Operation
  OBVIOUS
<1>2. Patched(c, ops) = iter[1..n]
  <2>1. Patched(c, ops)
          = LET h == CHOOSE h : h = [t \in SUBSET (DOMAIN ops) |->
                                       IF t = {} THEN c
                                       ELSE RuntimeApplied(h[t \ {Max(t)}], ops[Max(t)])]
            IN  h[DOMAIN ops]
    BY DEF Patched, FoldLeft, MapThenFoldSet
  <2> QED
    BY <1>1, <2>1
<1>3. F \in [Content \X Operation -> Content]
  BY RuntimeAppliedType
<1>4. \A d \in Content, e \in Operation : F[<<d, e>>] = RuntimeApplied(d, e)
  OBVIOUS
<1> HIDE DEF F, n
<1>5. PICK h \in [SUBSET (1..n) -> Content] : Folding(n, F, ops, c, h)
  BY <1>1, <1>3, FoldExists
<1>6. h = Step(h)
  <2>1. ASSUME NEW t \in SUBSET (1..n), t # {}
        PROVE  h[t] = RuntimeApplied(h[t \ {Max(t)}], ops[Max(t)])
    <3>1. t \in SUBSET (0..n)
      BY <1>1
    <3>2. Max(t) \in t
      BY <1>1, <2>1, <3>1, Largest
    <3>3. h[t \ {Max(t)}] \in Content /\ ops[Max(t)] \in Operation
      BY <1>1, <3>2
    <3> QED
      BY <1>4, <1>5, <2>1, <3>3 DEF Folding
  <2>2. h[{}] = c
    BY <1>5 DEF Folding
  <2> QED
    BY <2>1, <2>2
<1>7. iter = Step(iter)
  <2> HIDE DEF Step
  <2> QED
    BY <1>6
<1>8. \A i \in 0..n : h[1..i] \in Content
  <2> SUFFICES ASSUME NEW i \in 0..n PROVE 1..i \in SUBSET (1..n)
    BY <1>5
  <2> QED
    BY <1>1
<1>9. /\ h[1..0] = c
      /\ \A i \in 1..n : h[1..i] = F[<<h[1..(i - 1)], ops[i]>>]
  <2>1. Chained(n, F, ops, c, h)
    BY <1>1, <1>5, FoldChain
  <2> QED
    BY <2>1 DEF Chained
<1>10. /\ iter[1..0] = c
       /\ \A i \in 1..n : iter[1..i] = RuntimeApplied(iter[1..(i - 1)], ops[i])
  <2>1. \A t \in SUBSET (1..n) :
          iter[t] = IF t = {} THEN c ELSE RuntimeApplied(iter[t \ {Max(t)}], ops[Max(t)])
    <3>1. iter = [t \in SUBSET (1..n) |->
                    IF t = {} THEN c ELSE RuntimeApplied(iter[t \ {Max(t)}], ops[Max(t)])]
      BY <1>7
    <3> HIDE DEF iter
    <3> QED
      BY <3>1, Zenon
  <2> HIDE DEF iter
  <2>2. 1..0 = {} /\ {} \in SUBSET (1..n)
    OBVIOUS
  <2>3. ASSUME NEW i \in 1..n PROVE iter[1..i] = RuntimeApplied(iter[1..(i - 1)], ops[i])
    <3>1. i \in Nat \ {0} /\ 1..i \in SUBSET (1..n)
      BY <1>1
    <3>2. Max(1..i) = i /\ (1..i) \ {i} = 1..(i - 1) /\ 1..i # {}
      BY <3>1, LastOfFirst
    <3> QED
      BY <2>1, <3>1, <3>2, Zenon
  <2> QED
    BY <2>1, <2>2, <2>3
<1> DEFINE f == [i \in 0..n |-> h[1..i]]
           g == [i \in 0..n |-> iter[1..i]]
<1>11. /\ f \in [0..n -> Content] /\ f[0] = c
       /\ \A i \in 1..n : f[i] = RuntimeApplied(f[i - 1], ops[i])
  <2>1. \A i \in 1..n : i \in 0..n /\ i - 1 \in 0..n
    BY <1>1
  <2>2. f \in [0..n -> Content] /\ f[0] = c
    BY <1>1, <1>8, <1>9
  <2>3. \A i \in 0..n : f[i] = h[1..i]
    OBVIOUS
  <2> HIDE DEF f
  <2>4. ASSUME NEW i \in 1..n PROVE f[i] = RuntimeApplied(f[i - 1], ops[i])
    <3>1. h[1..i] = F[<<h[1..(i - 1)], ops[i]>>] /\ h[1..(i - 1)] \in Content
      BY <1>8, <1>9, <2>1
    <3> QED
      BY <1>1, <1>4, <2>1, <2>3, <3>1
  <2> QED
    BY <2>2, <2>4
<1>12. /\ g[0] = c /\ g[n] = iter[1..n]
       /\ \A i \in 1..n : g[i] = RuntimeApplied(g[i - 1], ops[i])
  <2> HIDE DEF iter
  <2>1. \A i \in 1..n : i \in 0..n /\ i - 1 \in 0..n
    BY <1>1
  <2>2. n \in 0..n /\ 0 \in 0..n
    BY <1>1
  <2>3. \A i \in 0..n : g[i] = iter[1..i]
    OBVIOUS
  <2> HIDE DEF g
  <2> QED
    BY <1>10, <2>1, <2>2, <2>3, Zenon
<1> HIDE DEF iter, f, g
<1>13. \A i \in 0..n : f[i] = g[i]
  <2>1. StepsAlike(n, f, g)
    BY <1>11, <1>12, Zenon DEF StepsAlike
  <2> QED
    BY <1>1, <2>1, SameByStep DEF Alike
<1>14. Patched(c, ops) = f[n]
  BY <1>1, <1>2, <1>12, <1>13
<1> QED
  BY <1>11, <1>14 DEF n, PatchStates

(* A replay of one operation more.                                         *)
LEMMA PatchOneMore ==
  ASSUME NEW c \in Content, NEW ops \in Seq(Operation), NEW o \in Operation
  PROVE  /\ Patched(c, <<>>) = c
         /\ Patched(c, ops) \in Content
         /\ Patched(c, Append(ops, o))
              = RuntimeApplied(Patched(c, ops), o)
<1> DEFINE n == Len(ops)
           longer == Append(ops, o)
<1>1. /\ n \in Nat /\ longer \in Seq(Operation) /\ Len(longer) = n + 1
      /\ longer[n + 1] = o /\ \A i \in 1..n : longer[i] = ops[i]
      /\ <<>> \in Seq(Operation) /\ Len(<<>>) = 0
  OBVIOUS
<1> HIDE DEF longer
<1>2. Patched(c, <<>>) = c
  <2>1. PICK f : PatchStates(c, <<>>, f)
    BY <1>1, PatchFold
  <2> QED
    BY <1>1, <2>1 DEF PatchStates
<1>3. PICK f : PatchStates(c, ops, f)
  BY PatchFold
<1>4. PICK g : PatchStates(c, longer, g)
  BY <1>1, PatchFold
<1>5. /\ f \in [0..n -> Content] /\ f[0] = c /\ Patched(c, ops) = f[n]
      /\ \A i \in 1..n : f[i] = RuntimeApplied(f[i - 1], ops[i])
  BY <1>3 DEF PatchStates
<1>6. /\ g[0] = c /\ Patched(c, longer) = g[n + 1]
      /\ \A i \in 1..(n + 1) : g[i] = RuntimeApplied(g[i - 1], longer[i])
  BY <1>1, <1>4 DEF PatchStates
<1> HIDE DEF n
<1>7. Alike(n, f, g)
  <2>1. \A i \in 1..n : i \in 1..(n + 1) /\ g[i] = RuntimeApplied(g[i - 1], ops[i])
    BY <1>1, <1>6
  <2>2. StepsAlike(n, f, g)
    BY <1>5, <1>6, <2>1, Zenon DEF StepsAlike
  <2> QED
    BY <1>1, <2>2, SameByStep
<1>8. n \in 0..n /\ n + 1 \in 1..(n + 1) /\ (n + 1) - 1 = n
  BY <1>1
<1>9. f[n] = g[n] /\ f[n] \in Content
  BY <1>5, <1>7, <1>8 DEF Alike
<1> QED
  BY <1>1, <1>2, <1>5, <1>6, <1>8, <1>9 DEF longer

Patch == Seq(Operation)

LEMMA ReplayType ==
  ASSUME NEW c \in Content, NEW r \in Patch
  PROVE  Replay(c, r) \in Content
<1>1. r \in Seq(Operation)
  BY DEF Patch
<1>2. PICK f : PatchStates(c, r, f)
  BY <1>1, PatchFold
<1>3. Patched(c, r) \in Content
  BY <1>1, <1>2 DEF PatchStates
<1> QED
  BY <1>3 DEF Replay, Patched

(* And so is the log, patch after patch.                                   *)
PatchedAll(c, log) == FoldLeft(Replay, c, log)

LogStates(c, log, f) ==
  /\ f \in [0..Len(log) -> Content] /\ f[0] = c
  /\ \A i \in 1..Len(log) : f[i] = Replay(f[i - 1], log[i])
  /\ PatchedAll(c, log) = f[Len(log)]

LEMMA LogFold ==
  ASSUME NEW c \in Content, NEW log \in Seq(Patch)
  PROVE  \E f : LogStates(c, log, f)
<1> DEFINE n == Len(log)
           F == [x \in Content \X Patch |-> Replay(x[1], x[2])]
           Step(h) == [t \in SUBSET (1..n) |->
                         IF t = {} THEN c ELSE Replay(h[t \ {Max(t)}], log[Max(t)])]
           iter == CHOOSE h : h = Step(h)
<1>1. /\ n \in Nat /\ DOMAIN log = 1..n /\ log \in [1..n -> Patch]
      /\ \A i \in 1..n : log[i] \in Patch
  OBVIOUS
<1>2. PatchedAll(c, log) = iter[1..n]
  <2>1. PatchedAll(c, log)
          = LET h == CHOOSE h : h = [t \in SUBSET (DOMAIN log) |->
                                       IF t = {} THEN c
                                       ELSE Replay(h[t \ {Max(t)}], log[Max(t)])]
            IN  h[DOMAIN log]
    BY DEF PatchedAll, FoldLeft, MapThenFoldSet
  <2> QED
    BY <1>1, <2>1
<1>3. F \in [Content \X Patch -> Content]
  BY ReplayType
<1>4. \A d \in Content, e \in Patch : F[<<d, e>>] = Replay(d, e)
  OBVIOUS
<1> HIDE DEF F, n
<1>5. PICK h \in [SUBSET (1..n) -> Content] : Folding(n, F, log, c, h)
  BY <1>1, <1>3, FoldExists
<1>6. h = Step(h)
  <2>1. ASSUME NEW t \in SUBSET (1..n), t # {}
        PROVE  h[t] = Replay(h[t \ {Max(t)}], log[Max(t)])
    <3>1. t \in SUBSET (0..n)
      BY <1>1
    <3>2. Max(t) \in t
      BY <1>1, <2>1, <3>1, Largest
    <3>3. h[t \ {Max(t)}] \in Content /\ log[Max(t)] \in Patch
      BY <1>1, <3>2
    <3> QED
      BY <1>4, <1>5, <2>1, <3>3 DEF Folding
  <2>2. h[{}] = c
    BY <1>5 DEF Folding
  <2> QED
    BY <2>1, <2>2
<1>7. iter = Step(iter)
  <2> HIDE DEF Step
  <2> QED
    BY <1>6
<1>8. \A i \in 0..n : h[1..i] \in Content
  <2> SUFFICES ASSUME NEW i \in 0..n PROVE 1..i \in SUBSET (1..n)
    BY <1>5
  <2> QED
    BY <1>1
<1>9. /\ h[1..0] = c
      /\ \A i \in 1..n : h[1..i] = F[<<h[1..(i - 1)], log[i]>>]
  <2>1. Chained(n, F, log, c, h)
    BY <1>1, <1>5, FoldChain
  <2> QED
    BY <2>1 DEF Chained
<1>10. /\ iter[1..0] = c
       /\ \A i \in 1..n : iter[1..i] = Replay(iter[1..(i - 1)], log[i])
  <2>1. \A t \in SUBSET (1..n) :
          iter[t] = IF t = {} THEN c ELSE Replay(iter[t \ {Max(t)}], log[Max(t)])
    <3>1. iter = [t \in SUBSET (1..n) |->
                    IF t = {} THEN c ELSE Replay(iter[t \ {Max(t)}], log[Max(t)])]
      BY <1>7
    <3> HIDE DEF iter
    <3> QED
      BY <3>1, Zenon
  <2> HIDE DEF iter
  <2>2. 1..0 = {} /\ {} \in SUBSET (1..n)
    OBVIOUS
  <2>3. ASSUME NEW i \in 1..n PROVE iter[1..i] = Replay(iter[1..(i - 1)], log[i])
    <3>1. i \in Nat \ {0} /\ 1..i \in SUBSET (1..n)
      BY <1>1
    <3>2. Max(1..i) = i /\ (1..i) \ {i} = 1..(i - 1) /\ 1..i # {}
      BY <3>1, LastOfFirst
    <3> QED
      BY <2>1, <3>1, <3>2, Zenon
  <2> QED
    BY <2>1, <2>2, <2>3
<1> DEFINE f == [i \in 0..n |-> h[1..i]]
           g == [i \in 0..n |-> iter[1..i]]
<1>11. /\ f \in [0..n -> Content] /\ f[0] = c
       /\ \A i \in 1..n : f[i] = Replay(f[i - 1], log[i])
  <2>1. \A i \in 1..n : i \in 0..n /\ i - 1 \in 0..n
    BY <1>1
  <2>2. f \in [0..n -> Content] /\ f[0] = c
    BY <1>1, <1>8, <1>9
  <2>3. \A i \in 0..n : f[i] = h[1..i]
    OBVIOUS
  <2> HIDE DEF f
  <2>4. ASSUME NEW i \in 1..n PROVE f[i] = Replay(f[i - 1], log[i])
    <3>1. h[1..i] = F[<<h[1..(i - 1)], log[i]>>] /\ h[1..(i - 1)] \in Content
      BY <1>8, <1>9, <2>1
    <3> QED
      BY <1>1, <1>4, <2>1, <2>3, <3>1
  <2> QED
    BY <2>2, <2>4
<1>12. /\ g[0] = c /\ g[n] = iter[1..n]
       /\ \A i \in 1..n : g[i] = Replay(g[i - 1], log[i])
  <2> HIDE DEF iter
  <2>1. \A i \in 1..n : i \in 0..n /\ i - 1 \in 0..n
    BY <1>1
  <2>2. n \in 0..n /\ 0 \in 0..n
    BY <1>1
  <2>3. \A i \in 0..n : g[i] = iter[1..i]
    OBVIOUS
  <2> HIDE DEF g
  <2> QED
    BY <1>10, <2>1, <2>2, <2>3, Zenon
<1> HIDE DEF iter, f, g
<1>13. \A i \in 0..n : f[i] = g[i]
  <2>1. StepsAlike(n, f, g)
    BY <1>11, <1>12, Zenon DEF StepsAlike
  <2> QED
    BY <1>1, <2>1, SameByStep DEF Alike
<1>14. PatchedAll(c, log) = f[n]
  BY <1>1, <1>2, <1>12, <1>13
<1> QED
  BY <1>11, <1>14 DEF n, LogStates

(* A replay of one patch more.                                             *)
LEMMA LogOneMore ==
  ASSUME NEW c \in Content, NEW log \in Seq(Patch), NEW r \in Patch
  PROVE  /\ PatchedAll(c, <<>>) = c
         /\ PatchedAll(c, log) \in Content
         /\ PatchedAll(c, Append(log, r))
              = Replay(PatchedAll(c, log), r)
<1> DEFINE n == Len(log)
           longer == Append(log, r)
<1>1. /\ n \in Nat /\ longer \in Seq(Patch) /\ Len(longer) = n + 1
      /\ longer[n + 1] = r /\ \A i \in 1..n : longer[i] = log[i]
      /\ <<>> \in Seq(Patch) /\ Len(<<>>) = 0
  OBVIOUS
<1> HIDE DEF longer
<1>2. PatchedAll(c, <<>>) = c
  <2>1. PICK f : LogStates(c, <<>>, f)
    BY <1>1, LogFold
  <2> QED
    BY <1>1, <2>1 DEF LogStates
<1>3. PICK f : LogStates(c, log, f)
  BY LogFold
<1>4. PICK g : LogStates(c, longer, g)
  BY <1>1, LogFold
<1>5. /\ f \in [0..n -> Content] /\ f[0] = c /\ PatchedAll(c, log) = f[n]
      /\ \A i \in 1..n : f[i] = Replay(f[i - 1], log[i])
  BY <1>3 DEF LogStates
<1>6. /\ g[0] = c /\ PatchedAll(c, longer) = g[n + 1]
      /\ \A i \in 1..(n + 1) : g[i] = Replay(g[i - 1], longer[i])
  BY <1>1, <1>4 DEF LogStates
<1> HIDE DEF n
<1>7. Alike(n, f, g)
  <2>1. \A i \in 1..n : i \in 1..(n + 1) /\ g[i] = Replay(g[i - 1], log[i])
    BY <1>1, <1>6
  <2>2. StepsAlike(n, f, g)
    BY <1>5, <1>6, <2>1, Zenon DEF StepsAlike
  <2> QED
    BY <1>1, <2>2, SameByStep
<1>8. n \in 0..n /\ n + 1 \in 1..(n + 1) /\ (n + 1) - 1 = n
  BY <1>1
<1>9. f[n] = g[n] /\ f[n] \in Content
  BY <1>5, <1>7, <1>8 DEF Alike
<1> QED
  BY <1>1, <1>2, <1>5, <1>6, <1>8, <1>9 DEF longer

-----------------------------------------------------------------------------
(* A line of a log: LogReplays says it of the stored revision and content. *)
Receipt == [from: Nat, ops: Seq(Operation)]

Picked(log, S) == [i \in DOMAIN log |-> IF i \in S THEN log[i].ops ELSE <<>>]

LeadsTo(log, S, n) ==
  /\ {log[i].from : i \in S} = 0..(n - 1)
  /\ \A i, j \in S : i < j => log[i].from < log[j].from

Line(log, n, c) ==
  \E S \in SUBSET DOMAIN log :
    LeadsTo(log, S, n) /\ c = PatchedAll(Empty, Picked(log, S))

LEMMA PickedMore ==
  ASSUME NEW log \in Seq(Receipt), NEW r \in Receipt, NEW S \in SUBSET (1..Len(log)),
         NEW T \in SUBSET {Len(log) + 1}
  PROVE  /\ Picked(log, S) \in Seq(Patch)
         /\ Picked(Append(log, r), S \cup T)
              = Append(Picked(log, S), IF T = {} THEN <<>> ELSE r.ops)
<1> DEFINE n == Len(log)
           old == Picked(log, S)
           last == IF T = {} THEN <<>> ELSE r.ops
           new == Picked(Append(log, r), S \cup T)
<1>1. /\ n \in Nat /\ DOMAIN log = 1..n /\ \A i \in 1..n : log[i] \in Receipt
      /\ DOMAIN Append(log, r) = 1..(n + 1) /\ Append(log, r)[n + 1] = r
      /\ \A i \in 1..n : Append(log, r)[i] = log[i]
  OBVIOUS
<1>2. last \in Patch /\ <<>> \in Patch /\ \A i \in 1..n : log[i].ops \in Patch
  BY <1>1 DEF Receipt, Patch
<1>3. old = [i \in 1..n |-> IF i \in S THEN log[i].ops ELSE <<>>]
  BY <1>1 DEF Picked
<1>4. old \in Seq(Patch) /\ Len(old) = n
  BY <1>1, <1>2, <1>3
<1>5. new = [i \in 1..(n + 1) |-> IF i \in S \cup T THEN Append(log, r)[i].ops ELSE <<>>]
  BY <1>1 DEF Picked
<1>6. \A i \in 1..(n + 1) : new[i] = IF i = n + 1 THEN last ELSE old[i]
  BY <1>1, <1>3, <1>5
<1>7. /\ Append(old, last) = [i \in 1..(n + 1) |-> IF i = n + 1 THEN last ELSE old[i]]
  BY <1>1, <1>2, <1>4
<1> HIDE DEF old, new, last, n
<1>8. new = Append(old, last)
  BY <1>5, <1>6, <1>7
<1> QED
  BY <1>4, <1>8 DEF old, new, last

(* A receipt that is not of the line leaves the line as it is.             *)
LEMMA LineStays ==
  ASSUME NEW log \in Seq(Receipt), NEW r \in Receipt, NEW n \in Nat, NEW c, Line(log, n, c)
  PROVE  Line(Append(log, r), n, c)
<1>1. PICK S \in SUBSET DOMAIN log :
        LeadsTo(log, S, n) /\ c = PatchedAll(Empty, Picked(log, S))
  BY DEF Line
<1>2. /\ S \in SUBSET (1..Len(log)) /\ S \in SUBSET DOMAIN Append(log, r)
      /\ \A i \in S : Append(log, r)[i] = log[i]
  OBVIOUS
<1>3. LeadsTo(Append(log, r), S, n)
  BY <1>1, <1>2 DEF LeadsTo
<1>4. /\ Picked(log, S) \in Seq(Patch)
      /\ Picked(Append(log, r), S) = Append(Picked(log, S), <<>>)
  <2>1. \A T \in SUBSET {Len(log) + 1} :
           /\ Picked(log, S) \in Seq(Patch)
           /\ Picked(Append(log, r), S \cup T)
                = Append(Picked(log, S), IF T = {} THEN <<>> ELSE r.ops)
    BY <1>2, PickedMore
  <2>2. {} \in SUBSET {Len(log) + 1} /\ S \cup {} = S
    OBVIOUS
  <2> QED
    BY <2>1, <2>2
<1>5. <<>> \in Patch /\ <<>> \in Seq(Operation)
  BY DEF Patch
<1>6. /\ PatchedAll(Empty, Picked(log, S)) \in Content
      /\ PatchedAll(Empty, Append(Picked(log, S), <<>>))
           = Replay(PatchedAll(Empty, Picked(log, S)), <<>>)
  BY <1>4, <1>5, EmptyType, LogOneMore
<1>7. Replay(c, <<>>) = c
  <2>1. Op("set", "", "trust", None) \in Operation
    BY KeyAssumption, ValueType DEF Op, Operation, OperationOf, PatchOpType
  <2>2. Patched(c, <<>>) = c
    BY <1>1, <1>5, <1>6, <2>1, PatchOneMore
  <2> QED
    BY <2>2 DEF Replay, Patched
<1> QED
  BY <1>1, <1>2, <1>3, <1>4, <1>6, <1>7 DEF Line

(* A receipt from the end of the line continues it.                        *)
LEMMA LineContinues ==
  ASSUME NEW log \in Seq(Receipt), NEW r \in Receipt, NEW n \in Nat, NEW c,
         Line(log, n, c), r.from = n
  PROVE  c \in Content /\ Line(Append(log, r), n + 1, Replay(c, r.ops))
<1>1. PICK S \in SUBSET DOMAIN log :
        LeadsTo(log, S, n) /\ c = PatchedAll(Empty, Picked(log, S))
  BY DEF Line
<1> DEFINE m == Len(log) + 1
           new == Append(log, r)
<1>2. /\ S \in SUBSET (1..Len(log)) /\ m \in Nat /\ S \cup {m} \in SUBSET DOMAIN new
      /\ \A i \in S : new[i] = log[i] /\ i < m
      /\ new[m] = r
  OBVIOUS
<1>3. Picked(log, S) \in Seq(Patch) /\ Picked(new, S \cup {m}) = Append(Picked(log, S), r.ops)
  <2>1. \A T \in SUBSET {Len(log) + 1} :
           /\ Picked(log, S) \in Seq(Patch)
           /\ Picked(Append(log, r), S \cup T)
                = Append(Picked(log, S), IF T = {} THEN <<>> ELSE r.ops)
    BY <1>2, PickedMore
  <2>2. {m} \in SUBSET {Len(log) + 1} /\ {m} # {}
    OBVIOUS
  <2> HIDE DEF m
  <2> QED
    BY <2>1, <2>2
<1> HIDE DEF m, new
<1>4. LeadsTo(new, S \cup {m}, n + 1)
  <2>1. {new[i].from : i \in S} = 0..(n - 1) /\ {log[i].from : i \in S} = 0..(n - 1)
    BY <1>1, <1>2 DEF LeadsTo
  <2>2. {new[i].from : i \in S \cup {m}} = 0..(n - 1) \cup {n}
    BY <1>2, <2>1
  <2>3. 0..(n - 1) \cup {n} = 0..((n + 1) - 1)
    OBVIOUS
  <2>4. \A i \in S : new[i].from \in 0..(n - 1)
    BY <2>1
  <2>5. ASSUME NEW i \in S \cup {m}, NEW j \in S \cup {m}, i < j
        PROVE  new[i].from < new[j].from
    <3>1. CASE i \in S /\ j \in S
      BY <1>1, <1>2, <2>5, <3>1 DEF LeadsTo
    <3>2. CASE i \in S /\ j = m
      BY <1>2, <2>4, <3>2
    <3>3. CASE i = m
      BY <1>2, <2>5, <3>3
    <3> QED
      BY <3>1, <3>2, <3>3
  <2> QED
    BY <2>2, <2>3, <2>5 DEF LeadsTo
<1>5. r.ops \in Patch
  BY DEF Receipt, Patch
<1>6. /\ PatchedAll(Empty, Picked(log, S)) \in Content
      /\ PatchedAll(Empty, Append(Picked(log, S), r.ops))
           = Replay(PatchedAll(Empty, Picked(log, S)), r.ops)
  BY <1>3, <1>5, EmptyType, LogOneMore
<1> QED
  BY <1>1, <1>2, <1>3, <1>4, <1>6 DEF Line, new

AllAllowed(ops) == \A i \in DOMAIN ops : ops[i].op \in CuratorAllowedOps

(* The stored content, and the one a turn was loaded with, each end a line *)
(* of the log; every operation of a turn is one the curator may propose;   *)
(* and a turn is as far as a replay of the operations it has applied.      *)
OnTheWay(p) ==
  /\ pc[p] # "idle" =>
       AllAllowed(job[p].ops) /\ Line(receipts, job[p].base, job[p].loaded)
  /\ pc[p] \in {"apply", "write"} =>
       job[p].content
         = Patched(job[p].loaded, SubSeq(job[p].ops, 1, job[p].next - 1))

LogInv ==
  /\ Line(receipts, state.revision, state.content)
  /\ \A p \in Server : OnTheWay(p)

(* The operations the curator makes of an answer, or of the text.          *)
LEMMA ParsedAllowed ==
  ASSUME NEW ops \in Seq(Operation), AllAllowed(ops), NEW o \in Offered
  PROVE  AllAllowed(IF OpName(o) \in CuratorAllowedOps
                    THEN Append(ops, Normalized(o)) ELSE ops)
<1>1. CASE OpName(o) \in CuratorAllowedOps
  <2>1. Normalized(o) \in Operation /\ o \in OperationOf(PatchOpType \cup Alias)
    BY NormalizedType, OfferedAssumption
  <2>2. Normalized(o).op = OpName(o)
    BY <2>1 DEF Normalized, OperationOf
  <2>3. \A i \in DOMAIN Append(ops, Normalized(o)) :
          \/ i \in DOMAIN ops /\ Append(ops, Normalized(o))[i] = ops[i]
          \/ Append(ops, Normalized(o))[i] = Normalized(o)
    BY <2>1
  <2> QED
    BY <1>1, <2>2, <2>3 DEF AllAllowed
<1> QED
  BY <1>1

LEMMA OfflineAllowed ==
  ASSUME NEW c \in Content, NEW heard
  PROVE  AllAllowed(OfflineOps(heard, c))
<1> DEFINE Allowed == {o \in Operation : o.op \in CuratorAllowedOps}
<1> USE KeyAssumption, ValueType
<1>1. OfflineScene(c) \in Seq(Allowed)
  <2> DEFINE o == Op("set_scene_field", "scene_state", "location", Text(1))
  <2>1. o \in Allowed
    BY DEF Op, Operation, OperationOf, PatchOpType, SceneField, CuratorAllowedOps
  <2>2. OfflineScene(c) = <<>> \/ OfflineScene(c) = <<o>>
    BY DEF OfflineScene
  <2> HIDE DEF o, Allowed
  <2>3. <<o>> \in Seq(Allowed) /\ <<>> \in Seq(Allowed)
    BY <2>1, OneOrNone
  <2> QED
    BY <2>2, <2>3, Zenon
<1>2. OfflineEvent(c) \in Seq(Allowed)
  <2> DEFINE o == Op("set_flag", "event_flags", "event_combat", None)
  <2>1. o \in Allowed
    BY DEF Op, Operation, OperationOf, PatchOpType, CuratorAllowedOps
  <2>2. OfflineEvent(c) = <<>> \/ OfflineEvent(c) = <<o>>
    BY DEF OfflineEvent
  <2> HIDE DEF o, Allowed
  <2>3. <<o>> \in Seq(Allowed) /\ <<>> \in Seq(Allowed)
    BY <2>1, OneOrNone
  <2> QED
    BY <2>2, <2>3, Zenon
<1>3. OfflineTrust(c) \in Seq(Allowed)
  <2>1. /\ Op("set", "variables", "trust", Number(1)) \in Allowed
        /\ Op("increment", "variables", "trust", Number(1)) \in Allowed
    BY DEF Op, Operation, OperationOf, PatchOpType, CuratorAllowedOps
  <2> QED
    BY <2>1 DEF OfflineTrust
<1>4. OfflineOps(heard, c) \in Seq(Allowed)
  <2> HIDE DEF Allowed
  <2> QED
    BY <1>1, <1>2, <1>3 DEF OfflineOps
<1>5. \A i \in DOMAIN OfflineOps(heard, c) : OfflineOps(heard, c)[i] \in Allowed
  <2> HIDE DEF Allowed
  <2> QED
    BY <1>4
<1> QED
  BY <1>5 DEF AllAllowed

(* One operation more has been applied.                                    *)
LEMMA PatchedGrows ==
  ASSUME NEW ops \in Seq(Operation), NEW n \in 1..Len(ops), NEW c \in Content,
         AllAllowed(ops)
  PROVE  Patched(c, SubSeq(ops, 1, n))
           = Applied(ops[n], Patched(c, SubSeq(ops, 1, n - 1)))
<1>1. /\ SubSeq(ops, 1, n) = Append(SubSeq(ops, 1, n - 1), ops[n])
      /\ SubSeq(ops, 1, n - 1) \in Seq(Operation)
  <2>1. n - 1 \in 0..Len(ops)
    OBVIOUS
  <2> QED
    BY <2>1, FirstPlaces
<1>2. ops[n] \in Operation /\ n \in DOMAIN ops
  OBVIOUS
<1> DEFINE short == SubSeq(ops, 1, n - 1)
<1>3. Patched(c, Append(short, ops[n])) = RuntimeApplied(Patched(c, short), ops[n])
  <2>1. short \in Seq(Operation)
    BY <1>1
  <2> HIDE DEF short
  <2> QED
    BY <1>2, <2>1, PatchOneMore
<1>4. ops[n].op \in CuratorAllowedOps
  BY <1>2 DEF AllAllowed
<1> QED
  BY <1>1, <1>3, <1>4, RuntimeAgrees

LEMMA LogStep == PatchInv /\ ApplyInv /\ LogInv /\ [Next]_vars => LogInv'
<1> SUFFICES ASSUME PatchInv, ApplyInv, LogInv, [Next]_vars PROVE LogInv'
  OBVIOUS
<1>t. TypeOK
  BY DEF PatchInv
<1>a. /\ Line(receipts, state.revision, state.content)
      /\ \A p \in Server : OnTheWay(p)
  BY DEF LogInv
<1>b. \A p \in Server : Account(p)
  BY DEF ApplyInv, Account
<1>1. ASSUME NEW p \in Server, state'.content = state.content,
             state'.revision = state.revision, receipts' = receipts,
             \A q \in Server \ {p} : pc'[q] = pc[q] /\ job'[q] = job[q],
             OnTheWay(p)'
      PROVE  LogInv'
  <2>1. ASSUME NEW q \in Server PROVE OnTheWay(q)'
    BY <1>a, <1>1 DEF OnTheWay
  <2>2. Line(receipts', state'.revision, state'.content)
    BY <1>a, <1>1
  <2> QED
    BY <2>1, <2>2 DEF LogInv
<1>2. ASSUME NEW p \in Server, Load(p) PROVE LogInv'
  <2>1. /\ job'[p].ops = <<>> /\ pc'[p] = "curate"
        /\ job'[p].base = state.revision /\ job'[p].loaded = state.content
        /\ state'.content = state.content /\ state'.revision = state.revision
        /\ receipts' = receipts
        /\ \A q \in Server \ {p} : pc'[q] = pc[q] /\ job'[q] = job[q]
    BY <1>t, <1>2 DEF Load, TypeOK
  <2>2. OnTheWay(p)'
    BY <1>a, <2>1 DEF OnTheWay, AllAllowed
  <2> QED
    BY <1>1, <2>1, <2>2
<1>3. ASSUME NEW p \in Server, ParseOne(p) PROVE LogInv'
  <2>1. /\ job[p] \in Job /\ job[p].ops \in Seq(Operation)
        /\ pc[p] = "curate" /\ pc' = pc /\ state' = state /\ receipts' = receipts
    BY <1>t, <1>3, InTurn DEF ParseOne
  <2>2. PICK o \in Offered :
          job' = [job EXCEPT ![p].ops =
                    IF OpName(o) \in CuratorAllowedOps
                    THEN Append(@, Normalized(o)) ELSE @]
    BY <1>3 DEF ParseOne
  <2> DEFINE more == IF OpName(o) \in CuratorAllowedOps
                     THEN Append(job[p].ops, Normalized(o)) ELSE job[p].ops
  <2>3. job' = [job EXCEPT ![p] = [job[p] EXCEPT !.ops = more]]
    BY <1>t, <2>2 DEF TypeOK
  <2>4. AllAllowed(more)
    BY <1>a, <2>1, ParsedAllowed DEF OnTheWay
  <2> HIDE DEF more
  <2>5. /\ job'[p].ops = more /\ job'[p].base = job[p].base /\ job'[p].loaded = job[p].loaded
        /\ \A q \in Server \ {p} : job'[q] = job[q]
    BY <1>t, <2>1, <2>3 DEF TypeOK, Job
  <2>6. OnTheWay(p)'
    BY <1>a, <2>1, <2>4, <2>5 DEF OnTheWay
  <2> QED
    BY <1>1, <2>1, <2>5, <2>6
<1>4. ASSUME NEW p \in Server, CurateOffline(p) PROVE LogInv'
  <2>1. /\ job[p] \in Job /\ job[p].loaded \in Content
        /\ pc[p] = "curate" /\ pc'[p] = "validate" /\ state' = state /\ receipts' = receipts
        /\ \A q \in Server \ {p} : pc'[q] = pc[q]
    BY <1>t, <1>4, InTurn DEF CurateOffline, TypeOK, Job
  <2>2. PICK heard \in SUBSET {"scene", "event", "trust"} :
          job' = [job EXCEPT ![p].ops = OfflineOps(heard, job[p].loaded),
                             ![p].offline = TRUE]
    BY <1>4 DEF CurateOffline
  <2> DEFINE proposed == OfflineOps(heard, job[p].loaded)
  <2>3. AllAllowed(proposed)
    BY <2>1, OfflineAllowed
  <2>4. job' = [job EXCEPT ![p] = [job[p] EXCEPT !.ops = proposed, !.offline = TRUE]]
    BY <1>t, <2>2 DEF TypeOK
  <2> HIDE DEF proposed
  <2>5. /\ job'[p].ops = proposed /\ job'[p].base = job[p].base
        /\ job'[p].loaded = job[p].loaded /\ \A q \in Server \ {p} : job'[q] = job[q]
    BY <1>t, <2>1, <2>4 DEF TypeOK, Job
  <2>6. OnTheWay(p)'
    BY <1>a, <2>1, <2>3, <2>5 DEF OnTheWay
  <2> QED
    BY <1>1, <2>1, <2>5, <2>6
<1>5. ASSUME NEW p \in Server, Validate(p) PROVE LogInv'
  <2> DEFINE failed == Errors(job[p].ops, job[p].loaded) # {}
             kept == IF failed THEN <<>> ELSE job[p].ops
  <2>1. /\ job[p] \in Job /\ pc[p] \in {"curate", "validate"} /\ pc'[p] = "apply"
        /\ state' = state /\ receipts' = receipts
        /\ \A q \in Server \ {p} : pc'[q] = pc[q]
    BY <1>t, <1>5, InTurn DEF Validate, TypeOK
  <2>2. job' = [job EXCEPT ![p] = [job[p] EXCEPT !.rejected = failed, !.ops = kept]]
    BY <1>t, <1>5 DEF Validate, TypeOK
  <2>3. kept \in Seq(Operation) /\ AllAllowed(kept)
    BY <1>a, <2>1 DEF Job, OnTheWay, AllAllowed
  <2> HIDE DEF failed, kept
  <2>4. /\ job'[p].ops = kept /\ job'[p].next = job[p].next
        /\ job'[p].content = job[p].content /\ job'[p].loaded = job[p].loaded
        /\ job'[p].base = job[p].base
        /\ \A q \in Server \ {p} : job'[q] = job[q]
    BY <1>t, <2>1, <2>2 DEF TypeOK, Job
  <2>5. /\ job[p].next = 1 /\ job[p].content = job[p].loaded
        /\ job[p].loaded \in Content
    BY <1>b, <2>1 DEF Account, Job
  <2>6. Patched(job[p].loaded, SubSeq(kept, 1, 1 - 1)) = job[p].loaded
    <3>1. SubSeq(kept, 1, 0) = <<>>
      BY <2>3, FirstPlaces
    <3>2. \E o : o \in Operation
      <4>1. Op("set", "variables", "trust", None) \in Operation
        BY KeyAssumption, ValueType DEF Op, Operation, OperationOf, PatchOpType
      <4> QED
        BY <4>1
    <3>3. Patched(job[p].loaded, <<>>) = job[p].loaded
      BY <2>3, <2>5, <3>2, PatchOneMore
    <3>4. 1 - 1 = 0
      OBVIOUS
    <3> QED
      BY <3>1, <3>3, <3>4
  <2>7. OnTheWay(p)'
    BY <1>a, <2>1, <2>3, <2>4, <2>5, <2>6 DEF OnTheWay
  <2> QED
    BY <1>1, <2>1, <2>4, <2>7
<1>6. ASSUME NEW p \in Server, NEW answer, Return(p, answer), state' = state,
             receipts' = receipts
      PROVE  LogInv'
  <2>1. pc'[p] = "idle" /\ \A q \in Server \ {p} : pc'[q] = pc[q] /\ job'[q] = job[q]
    BY <1>t, <1>6 DEF Return, TypeOK
  <2>2. OnTheWay(p)'
    BY <2>1 DEF OnTheWay
  <2> QED
    BY <1>1, <1>6, <2>1, <2>2
<1>7. ASSUME NEW p \in Server, ApplyOne(p) PROVE LogInv'
  <2> DEFINE o == job[p].ops[job[p].next]
  <2>1. /\ job[p] \in Job /\ pc[p] = "apply" /\ state' = state /\ receipts' = receipts
        /\ job[p].ops \in Seq(Operation) /\ job[p].next \in 1..Len(job[p].ops)
        /\ job[p].loaded \in Content
    BY <1>t, <1>7, InTurn DEF ApplyOne, Operations, Job
  <2>2. CASE Raises(o, job[p].content)
    BY <1>6, <1>7, <2>1, <2>2 DEF ApplyOne, Operations
  <2>3. CASE ~Raises(o, job[p].content)
    <3> DEFINE following == job[p].next + 1
               after == Applied(o, job[p].content)
    <3>1. /\ pc' = pc
          /\ job' = [job EXCEPT ![p] = [job[p] EXCEPT !.next = following, !.content = after]]
      BY <1>t, <1>7, <2>3 DEF ApplyOne, Operations, TypeOK
    <3>2. /\ AllAllowed(job[p].ops)
          /\ job[p].content
               = Patched(job[p].loaded, SubSeq(job[p].ops, 1, job[p].next - 1))
      BY <1>a, <2>1 DEF OnTheWay
    <3>3. after = Patched(job[p].loaded, SubSeq(job[p].ops, 1, job[p].next))
      BY <2>1, <3>2, PatchedGrows
    <3>4. following - 1 = job[p].next
      BY <2>1
    <3> HIDE DEF following, after
    <3>5. /\ job'[p].ops = job[p].ops /\ job'[p].next = following
          /\ job'[p].content = after /\ job'[p].loaded = job[p].loaded
          /\ job'[p].base = job[p].base
          /\ \A q \in Server \ {p} : job'[q] = job[q]
      BY <1>t, <2>1, <3>1 DEF TypeOK, Job
    <3>6. OnTheWay(p)'
      BY <1>a, <2>1, <3>1, <3>2, <3>3, <3>4, <3>5 DEF OnTheWay
    <3> QED
      BY <1>1, <2>1, <3>1, <3>5, <3>6
  <2> QED
    BY <2>2, <2>3
<1>8. ASSUME NEW p \in Server, Check(p) PROVE LogInv'
  <2>1. CASE \E answer : Return(p, answer)
    BY <1>6, <1>8, <2>1 DEF Check
  <2>2. CASE pc' = [pc EXCEPT ![p] = "write"] /\ UNCHANGED job
    <3>1. /\ pc[p] = "apply" /\ pc'[p] = "write" /\ state' = state /\ job' = job
          /\ receipts' = receipts /\ \A q \in Server \ {p} : pc'[q] = pc[q]
      BY <1>t, <1>8, <2>2 DEF Check, TypeOK
    <3>2. OnTheWay(p)'
      BY <1>a, <3>1 DEF OnTheWay
    <3> QED
      BY <1>1, <3>1, <3>2
  <2> QED
    BY <1>8, <2>1, <2>2 DEF Check
<1>9. ASSUME NEW p \in Server, Write(p) PROVE LogInv'
  <2>1. CASE Return(p, "unwritable") /\ UNCHANGED <<state, receipts>>
    BY <1>6, <2>1
  <2>2. ASSUME Store(p), NEW answer, Return(p, answer) PROVE LogInv'
    <3> DEFINE r == [from |-> job[p].base, ops |-> Operations(p)]
    <3>1. /\ state'.content = job[p].content /\ state'.revision = job[p].base + 1
          /\ receipts' = Append(receipts, r)
      BY <1>t, <2>2 DEF Store, TypeOK
    <3>2. /\ pc[p] = "write" /\ Operations(p) = job[p].ops /\ job[p].ops \in Seq(Operation)
          /\ job[p].next \in Nat /\ job[p].base \in Nat
      BY <1>t, <1>9, InTurn DEF Write, Job
    <3>3. job[p].next - 1 = Len(job[p].ops)
      <4>1. job[p].next > Len(job[p].ops)
        BY <3>2 DEF PatchInv, ValidatedAtLoad
      <4>2. job[p].next \in 1..(Len(job[p].ops) + 1)
        BY <1>b, <3>2 DEF Account, SoFar
      <4> QED
        BY <3>2, <4>1, <4>2
    <3>4. job[p].content = Patched(job[p].loaded, job[p].ops)
      <4>1. SubSeq(job[p].ops, 1, Len(job[p].ops)) = job[p].ops
        BY <3>2, FirstPlaces
      <4> QED
        BY <1>a, <3>2, <3>3, <4>1 DEF OnTheWay
    <3>5. r \in Receipt /\ r.ops = job[p].ops /\ r.from = job[p].base
      BY <3>2 DEF Receipt
    <3> HIDE DEF r
    <3>6. job[p].content = Replay(job[p].loaded, r.ops)
      BY <3>4, <3>5 DEF Replay, Patched
    <3>7. receipts \in Seq(Receipt)
      BY <1>t DEF TypeOK, Receipt
    <3>8. Line(receipts', state'.revision, state'.content)
      <4>1. Line(receipts, job[p].base, job[p].loaded)
        BY <1>a, <3>2 DEF OnTheWay
      <4> QED
        BY <3>1, <3>2, <3>5, <3>6, <3>7, <4>1, LineContinues
    <3>9. ASSUME NEW q \in Server PROVE OnTheWay(q)'
      <4>1. CASE q = p
        BY <1>t, <2>2, <4>1 DEF Return, TypeOK, OnTheWay
      <4>2. CASE q # p
        <5>1. pc'[q] = pc[q] /\ job'[q] = job[q]
          BY <1>t, <2>2, <4>2 DEF Return, TypeOK
        <5>2. pc[q] # "idle" => job[q].base \in Nat
          BY <1>t, InTurn DEF Job
        <5>3. pc[q] # "idle" => Line(receipts', job[q].base, job[q].loaded)
          BY <1>a, <3>1, <3>5, <3>7, <5>2, LineStays DEF OnTheWay
        <5> QED
          BY <1>a, <5>1, <5>3 DEF OnTheWay
      <4> QED
        BY <4>1, <4>2
    <3> QED
      BY <3>8, <3>9 DEF LogInv
  <2> QED
    BY <1>9, <2>1, <2>2 DEF Write
<1>10. ASSUME NEW p \in Server, NoStateChange(p) \/ StoreRaises(p) \/ CuratorRaises(p)
       PROVE  LogInv'
  BY <1>6, <1>10 DEF NoStateChange, StoreRaises, CuratorRaises
<1>11. CASE UNCHANGED <<state, receipts, pc, job>>
  BY <1>11, <1>a DEF OnTheWay, LogInv
<1> QED
  BY <1>2, <1>3, <1>4, <1>5, <1>7, <1>8, <1>9, <1>10, <1>11 DEF Next, Bootstrap, vars

(* The stored content is what the other implementation of patch            *)
(* application makes of one line of accepted patches, one from each        *)
(* revision up to the stored one, whatever the models answer, whatever the *)
(* deterministic curator hears, whichever servers commit in between and    *)
(* whichever updates they lose to each other: a lost update is lost in     *)
(* full, and no content comes from anywhere else.  For any number of       *)
(* servers and logs of any length.                                         *)
THEOREM LogExplainsState == Spec => []LogReplays
<1>1. Init => LogInv
  <2> SUFFICES ASSUME Init PROVE LogInv
    OBVIOUS
  <2>1. /\ state.content = Empty /\ state.revision = 0 /\ receipts = <<>>
        /\ \A p \in Server : pc[p] = "idle"
    BY DEF Init
  <2>2. <<>> \in Patch /\ <<>> \in Seq(Patch)
    BY DEF Patch
  <2>3. PatchedAll(Empty, <<>>) = Empty
    BY <2>2, EmptyType, LogOneMore
  <2>4. Picked(<<>>, {}) = <<>>
    BY DEF Picked
  <2>5. LeadsTo(<<>>, {}, 0)
    BY DEF LeadsTo
  <2>6. Line(<<>>, 0, Empty)
    BY <2>3, <2>4, <2>5 DEF Line
  <2> QED
    BY <2>1, <2>6 DEF LogInv, OnTheWay
<1>2. Init => ApplyInv
  BY DEF Init, ApplyInv, Empty, SceneField, FieldType, List, None
<1>3. LogInv => LogReplays
  BY DEF LogInv, LogReplays, Line, LeadsTo, Leads, Replayed, Picked, PatchedAll
<1> QED
  BY <1>1, <1>2, <1>3, InvInit, InvStep, ApplyStep, LogStep, PTL DEF Spec

=============================================================================
