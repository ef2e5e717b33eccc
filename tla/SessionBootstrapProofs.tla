------------------------ MODULE SessionBootstrapProofs ------------------------
(***************************************************************************)
(* For any number of servers, sessions, requests and card files: the       *)
(* tables of the bootstrap keep their types, a binding never dangles, and  *)
(* what receipts, rows and retries of a session whose executions did not   *)
(* overlap (Serial) or did not die either (Calm) can rely on.              *)
(*                                                                         *)
(* None of these properties is inductive: each depends on what executions  *)
(* under way have written and checked.  BootstrapInv adds that: what was   *)
(* written before each statement (PartsInv), that a card belongs to one    *)
(* execution (CardsInv), that executions of a serial session run one at a  *)
(* time and found no binding (SerialInv), and which rows and receipts are  *)
(* theirs (ReceiptsInv, RowsInv, RequestsInv).                             *)
(***************************************************************************)
EXTENDS SessionBootstrap, TableLemmas, TLAPS

LEMMA TypeInit == Init => TypeOK
BY MaxRunsAssumption DEF Init, TypeOK

(* A server that executes a request has one.                               *)
LEMMA AtWork ==
  ASSUME TypeOK, NEW p \in Server, pc[p] # "idle"
  PROVE  job[p] \in Job /\ job[p] # Nothing
BY NothingAssumption DEF TypeOK

(* What Goto and Return leave to the other conjuncts of TypeOK.            *)
LEMMA GotoType ==
  ASSUME TypeOK, NEW p \in Server, pc[p] # "idle",
         NEW label \in {"define", "find receipt", "find binding",
                        "opening", "worldbook", "binding", "receipt"},
         Goto(p, label)
  PROVE  /\ pc' \in [Server -> {"idle", "define", "find receipt", "find binding",
                                "opening", "worldbook", "binding", "receipt"}]
         /\ job' = job /\ reply' = reply
         /\ \A q \in Server : (pc'[q] = "idle") <=> (job'[q] = Nothing)
BY DEF TypeOK, Goto

LEMMA ReturnType ==
  ASSUME TypeOK, NEW p \in Server, pc[p] # "idle",
         NEW answer \in {"reused", "version conflict", "success",
                         "greeting not found", "crashed"},
         Return(p, answer)
  PROVE  /\ pc' \in [Server -> {"idle", "define", "find receipt", "find binding",
                                "opening", "worldbook", "binding", "receipt"}]
         /\ job' \in [Server -> Job \cup {Nothing}]
         /\ reply' \in [Server -> {"none", "reused", "version conflict", "success",
                                   "greeting not found", "crashed"}]
         /\ \A q \in Server : (pc'[q] = "idle") <=> (job'[q] = Nothing)
BY DEF TypeOK, Return

LEMMA TypeStep == TypeOK /\ [Next]_vars => TypeOK'
<1> SUFFICES ASSUME TypeOK, [Next]_vars PROVE TypeOK'
  OBVIOUS
<1>1. ASSUME NEW p \in Server, NEW s \in Session, NEW g \in Greeting,
             NEW r \in Request, NEW c \in Source, Begin(p, s, g, r, c)
      PROVE  TypeOK'
  <2> DEFINE new == [session |-> s, greeting |-> g, request |-> r,
                     source |-> c, card |-> runs + 1]
  <2>1. runs' \in 0..MaxRuns /\ runs + 1 \in Card
    <3>1. runs \in 0..MaxRuns
      BY DEF TypeOK
    <3>2. runs < MaxRuns /\ runs' = runs + 1
      BY <1>1 DEF Begin
    <3> QED
      BY <3>1, <3>2, MaxRunsAssumption DEF Card
  <2>2. new \in Job /\ new # Nothing
    BY <2>1, NothingAssumption DEF Job
  <2>3. job' = [job EXCEPT ![p] = new]
    BY <1>1 DEF Begin
  <2> HIDE DEF new
  <2>4. /\ job' \in [Server -> Job \cup {Nothing}]
        /\ \A q \in Server : (pc'[q] = "idle") <=> (job'[q] = Nothing)
    <3>1. /\ job \in [Server -> Job \cup {Nothing}] /\ pc' = [pc EXCEPT ![p] = "define"]
          /\ \A q \in Server : (pc[q] = "idle") <=> (job[q] = Nothing)
          /\ DOMAIN pc = Server
      BY <1>1 DEF Begin, TypeOK
    <3> QED
      BY <2>2, <2>3, <3>1
  <2>5. disturbed' \in [Session -> SUBSET {"overlap", "crash"}]
    <3>1. disturbed' = disturbed \/ disturbed' = [disturbed EXCEPT ![s] = @ \cup {"overlap"}]
      BY <1>1 DEF Begin
    <3>2. /\ disturbed \in [Session -> SUBSET {"overlap", "crash"}]
          /\ disturbed[s] \cup {"overlap"} \in SUBSET {"overlap", "crash"}
      BY DEF TypeOK
    <3> QED
      BY <3>1, <3>2
  <2> QED
    <3>1. /\ pc' \in [Server -> {"idle", "define", "find receipt", "find binding",
                                "opening", "worldbook", "binding", "receipt"}]
          /\ reply' \in [Server -> {"none", "reused", "version conflict", "success",
                                   "greeting not found", "crashed"}]
      BY <1>1 DEF Begin, TypeOK
    <3> QED
      BY <1>1, <2>1, <2>4, <2>5, <3>1 DEF Begin, TypeOK, tables
<1>2. ASSUME NEW p \in Server, SaveDefinition(p) PROVE TypeOK'
  <2>1. [card |-> job[p].card, source |-> job[p].source] \in [card: Card, source: Source]
    BY <1>2, AtWork DEF SaveDefinition, Job
  <2> QED
    BY <1>2, <2>1, GotoType DEF SaveDefinition, TypeOK
<1>3. ASSUME NEW p \in Server, FindReceipt(p) PROVE TypeOK'
  <2>1. Return(p, "reused") \/ Goto(p, "find binding")
    BY <1>3 DEF FindReceipt
  <2> QED
    BY <1>3, <2>1, GotoType, ReturnType DEF FindReceipt, TypeOK, tables
<1>4. ASSUME NEW p \in Server, FindBinding(p) PROVE TypeOK'
  <2>1. \/ Return(p, "version conflict") \/ Return(p, "greeting not found")
        \/ Goto(p, "opening")
    BY <1>4 DEF FindBinding
  <2> QED
    BY <1>4, <2>1, GotoType, ReturnType DEF FindBinding, TypeOK, tables
<1>5. ASSUME NEW p \in Server, SaveOpening(p) PROVE TypeOK'
  <2> DEFINE Row == [session: Session, greeting: Greeting, card: Card]
             row == [session |-> job[p].session, greeting |-> job[p].greeting,
                     card |-> job[p].card]
             same == {i \in 1..Len(openings) :
                        /\ openings[i].session = job[p].session
                        /\ openings[i].greeting = job[p].greeting}
             out == CHOOSE i \in same : TRUE
  <2>1. row \in Row
    BY <1>5, AtWork DEF SaveOpening, Job
  <2>2. openings' = Append(IF same = {} THEN openings
                           ELSE RemoveAt(openings, out), row)
    BY <1>5 DEF SaveOpening, InsertOrReplace
  <2>3. openings' \in Seq(Row)
    <3>1. openings \in Seq(Row) /\ same \in SUBSET (1..Len(openings))
      BY DEF TypeOK
    <3>2. same # {} => out \in same
      OBVIOUS
    <3> HIDE DEF row, same, out, Row
    <3>3. HasReplaced(Row, openings, row, same, openings')
      BY <2>1, <2>2, <3>1, <3>2, Replaced
    <3> QED
      BY <3>3 DEF HasReplaced
  <2> QED
    BY <1>5, <2>3, GotoType DEF SaveOpening, TypeOK
<1>6. ASSUME NEW p \in Server, SaveWorldbook(p) PROVE TypeOK'
  <2> DEFINE Row == [session: Session, card: Card, source: Source]
             row == [session |-> job[p].session, card |-> job[p].card,
                     source |-> job[p].source]
             same == {i \in 1..Len(worldbooks) :
                        /\ worldbooks[i].session = job[p].session
                        /\ worldbooks[i].card = job[p].card}
             out == CHOOSE i \in same : TRUE
  <2>1. row \in Row
    BY <1>6, AtWork DEF SaveWorldbook, Job
  <2>2. worldbooks' = Append(IF same = {} THEN worldbooks
                             ELSE RemoveAt(worldbooks, out), row)
    BY <1>6 DEF SaveWorldbook, InsertOrReplace
  <2>3. worldbooks' \in Seq(Row)
    <3>1. worldbooks \in Seq(Row) /\ same \in SUBSET (1..Len(worldbooks))
      BY DEF TypeOK
    <3>2. same # {} => out \in same
      OBVIOUS
    <3> HIDE DEF row, same, out, Row
    <3>3. HasReplaced(Row, worldbooks, row, same, worldbooks')
      BY <2>1, <2>2, <3>1, <3>2, Replaced
    <3> QED
      BY <3>3 DEF HasReplaced
  <2> QED
    BY <1>6, <2>3, GotoType DEF SaveWorldbook, TypeOK
<1>7. ASSUME NEW p \in Server, SaveBinding(p) PROVE TypeOK'
  <2>1. /\ bindings' \in [Session -> Binding \cup {Nothing}]
        /\ boundBy' \in [Session -> Request \cup {Nothing}]
    BY <1>7, AtWork DEF SaveBinding, TypeOK, Job, Binding
  <2> QED
    BY <1>7, <2>1, GotoType DEF SaveBinding, TypeOK
<1>8. ASSUME NEW p \in Server, SaveReceipt(p) PROVE TypeOK'
  <2> DEFINE Row == [request: Request, session: Session, card: Card, greeting: Greeting]
             row == [request |-> job[p].request, session |-> job[p].session,
                     card |-> job[p].card, greeting |-> job[p].greeting]
             same == {i \in 1..Len(receipts) :
                        /\ receipts[i].request = job[p].request
                        /\ receipts[i].session = job[p].session}
             out == CHOOSE i \in same : TRUE
  <2>1. row \in Row
    BY <1>8, AtWork DEF SaveReceipt, Job
  <2>2. receipts' = Append(IF same = {} THEN receipts
                           ELSE RemoveAt(receipts, out), row)
    BY <1>8 DEF SaveReceipt, InsertOrReplace
  <2>3. receipts' \in Seq(Row)
    <3>1. receipts \in Seq(Row) /\ same \in SUBSET (1..Len(receipts))
      BY DEF TypeOK
    <3>2. same # {} => out \in same
      OBVIOUS
    <3> HIDE DEF row, same, out, Row
    <3>3. HasReplaced(Row, receipts, row, same, receipts')
      BY <2>1, <2>2, <3>1, <3>2, Replaced
    <3> QED
      BY <3>3 DEF HasReplaced
  <2> QED
    BY <1>8, <2>3, ReturnType DEF SaveReceipt, TypeOK
<1>9. ASSUME NEW p \in Server, Crash(p) PROVE TypeOK'
  <2>1. disturbed' \in [Session -> SUBSET {"overlap", "crash"}]
    BY <1>9, AtWork DEF Crash, TypeOK, Job
  <2> QED
    BY <1>9, <2>1, ReturnType DEF Crash, TypeOK, tables
<1>10. CASE UNCHANGED vars
  BY <1>10 DEF vars, tables, TypeOK
<1> QED
  BY <1>1, <1>2, <1>3, <1>4, <1>5, <1>6, <1>7, <1>8, <1>9, <1>10 DEF Next, Step

(* The tables hold rows of their type, whichever executions overlap, are   *)
(* answered early or die, and no request outlives its execution.           *)
THEOREM TypeCorrect == Spec => []TypeOK
BY TypeInit, TypeStep, PTL DEF Spec

-----------------------------------------------------------------------------
(* The inductive invariant.                                                *)

(* What an execution has written before the statement it is at.            *)
Written(p) ==
  /\ pc[p] \in {"find receipt", "find binding", "opening", "worldbook", "binding", "receipt"}
       => [card |-> job[p].card, source |-> job[p].source] \in definitions
  /\ pc[p] \in {"worldbook", "binding", "receipt"} =>
       \E r \in Rows(openings) :
         r.session = job[p].session /\ r.greeting = job[p].greeting
  /\ pc[p] \in {"binding", "receipt"} =>
       \E r \in Rows(worldbooks) : r.session = job[p].session /\ r.card = job[p].card

HasParts(s) ==
  /\ [card |-> bindings[s].card, source |-> bindings[s].source] \in definitions
  /\ \E r \in Rows(openings) : r.session = s /\ r.greeting = bindings[s].greeting
  /\ \E r \in Rows(worldbooks) : r.session = s /\ r.card = bindings[s].card

PartsInv == (\A p \in Server : Written(p)) /\ (\A s \in Bound : HasParts(s))

(* A card id belongs to one execution: no session is bound to it before    *)
(* that execution binds its own.                                           *)
CardsInv ==
  /\ \A p \in Server : pc[p] # "idle" => job[p].card <= runs
  /\ \A s \in Bound : bindings[s].card <= runs
  /\ \A p, q \in Server : pc[p] # "idle" /\ pc[q] # "idle" /\ job[p].card = job[q].card => p = q
  /\ \A p \in Server : pc[p] \notin {"idle", "receipt"} =>
       \A s \in Bound : bindings[s].card # job[p].card

(* The executions for a serial session run one at a time, and one that is  *)
(* past the check of the binding found none.                               *)
SerialInv ==
  /\ \A p, q \in Server :
       /\ pc[p] # "idle" /\ pc[q] # "idle"
       /\ job[p].session = job[q].session /\ job[p].session \in Serial
       => p = q
  /\ \A p \in Server :
       pc[p] \in {"opening", "worldbook", "binding"} /\ job[p].session \in Serial
         => job[p].session \notin Bound

(* An execution that has bound its serial session is to write the only     *)
(* receipt of that session.                                                *)
ReceiptsInv ==
  /\ \A r \in Rows(receipts) : r.session \in Serial =>
       /\ r.session \in Bound
       /\ r.card = bindings[r.session].card
       /\ r.greeting = bindings[r.session].greeting
  /\ \A i, k \in 1..Len(receipts) :
       receipts[i].session = receipts[k].session /\ receipts[i].session \in Serial => k = i
  /\ \A p \in Server : pc[p] = "receipt" /\ job[p].session \in Serial =>
       /\ job[p].session \in Bound
       /\ job[p].card = bindings[job[p].session].card
       /\ job[p].greeting = bindings[job[p].session].greeting
       /\ job[p].request = boundBy[job[p].session]
       /\ \A r \in Rows(receipts) : r.session # job[p].session

(* The rows of a calm session are those its binding names, or is to name.  *)
RowsInv ==
  /\ \A r \in Rows(openings) : r.session \in Calm =>
       \/ r.session \in Bound /\ r.greeting = bindings[r.session].greeting
       \/ \E p \in Server :
            /\ pc[p] \in {"worldbook", "binding"}
            /\ job[p].session = r.session /\ job[p].greeting = r.greeting
  /\ \A r \in Rows(worldbooks) : r.session \in Calm =>
       \/ r.session \in Bound /\ r.source = bindings[r.session].source
       \/ \E p \in Server :
            /\ pc[p] = "binding"
            /\ job[p].session = r.session /\ job[p].source = r.source

(* The request that bound a calm session has its receipt or is to write    *)
(* it, and a request past the receipt check has none.                      *)
RequestsInv ==
  /\ \A s \in Bound \cap Calm :
       \/ \E r \in Rows(receipts) : r.session = s /\ r.request = boundBy[s]
       \/ \E p \in Server : pc[p] = "receipt" /\ job[p].session = s
  /\ \A p \in Server : pc[p] = "find binding" /\ job[p].session \in Serial =>
       \A r \in Rows(receipts) :
         ~(r.session = job[p].session /\ r.request = job[p].request)

BootstrapInv ==
  TypeOK /\ PartsInv /\ CardsInv /\ SerialInv /\ ReceiptsInv /\ RowsInv /\ RequestsInv

-----------------------------------------------------------------------------
(* What a step leaves alone.                                               *)

Moves(p) ==
  \/ \E s \in Session, g \in Greeting, r \in Request, c \in Source : Begin(p, s, g, r, c)
  \/ Step(p)
  \/ Crash(p)

LEMMA OthersWait ==
  ASSUME TypeOK, NEW p \in Server, Moves(p), NEW q \in Server \ {p}
  PROVE  pc'[q] = pc[q] /\ job'[q] = job[q] /\ reply'[q] = reply[q]
<1> USE DEF TypeOK, Goto, Return
<1>1. ASSUME NEW s \in Session, NEW g \in Greeting, NEW r \in Request, NEW c \in Source,
             Begin(p, s, g, r, c)
      PROVE  pc'[q] = pc[q] /\ job'[q] = job[q] /\ reply'[q] = reply[q]
  BY <1>1 DEF Begin
<1>2. ASSUME SaveDefinition(p) \/ FindReceipt(p) \/ FindBinding(p)
      PROVE  pc'[q] = pc[q] /\ job'[q] = job[q] /\ reply'[q] = reply[q]
  BY <1>2, ZenonT(40) DEF SaveDefinition, FindReceipt, FindBinding
<1>3. ASSUME SaveOpening(p) \/ SaveWorldbook(p) \/ SaveBinding(p)
      PROVE  pc'[q] = pc[q] /\ job'[q] = job[q] /\ reply'[q] = reply[q]
  BY <1>3 DEF SaveOpening, SaveWorldbook, SaveBinding
<1>4. ASSUME SaveReceipt(p) \/ Crash(p)
      PROVE  pc'[q] = pc[q] /\ job'[q] = job[q] /\ reply'[q] = reply[q]
  BY <1>4 DEF SaveReceipt, Crash
<1> QED
  BY <1>1, <1>2, <1>3, <1>4 DEF Moves, Step

(* Which actions touch which tables.                                       *)
LEMMA Untouched ==
  ASSUME TypeOK, NEW p \in Server, Moves(p)
  PROVE  /\ definitions' = definitions \/ SaveDefinition(p)
         /\ openings' = openings \/ SaveOpening(p)
         /\ worldbooks' = worldbooks \/ SaveWorldbook(p)
         /\ ((bindings' = bindings /\ boundBy' = boundBy) \/ SaveBinding(p))
         /\ receipts' = receipts \/ SaveReceipt(p)
         /\ runs' \in {runs, runs + 1}
BY DEF Moves, Step, Begin, SaveDefinition, FindReceipt, FindBinding, SaveOpening,
       SaveWorldbook, SaveBinding, SaveReceipt, Crash, tables

(* The history of a session only grows.                                    *)
LEMMA HistoryGrows ==
  ASSUME TypeOK, NEW p \in Server, Moves(p)
  PROVE  Serial' \subseteq Serial /\ Calm' \subseteq Calm
<1>1. \A s \in Session : disturbed[s] \subseteq disturbed'[s]
  <2>1. ASSUME NEW s \in Session, NEW g \in Greeting, NEW r \in Request, NEW c \in Source,
               Begin(p, s, g, r, c)
        PROVE  \A t \in Session : disturbed[t] \subseteq disturbed'[t]
    <3>1. disturbed' = disturbed \/ disturbed' = [disturbed EXCEPT ![s] = @ \cup {"overlap"}]
      BY <2>1 DEF Begin
    <3> QED
      BY <3>1, ZenonT(40) DEF TypeOK
  <2>2. ASSUME Step(p) PROVE disturbed' = disturbed
    BY <2>2 DEF Step, SaveDefinition, FindReceipt, FindBinding, SaveOpening, SaveWorldbook,
                SaveBinding, SaveReceipt
  <2>3. ASSUME Crash(p) PROVE \A t \in Session : disturbed[t] \subseteq disturbed'[t]
    BY <2>3 DEF Crash, TypeOK
  <2> QED
    BY <2>1, <2>2, <2>3 DEF Moves
<1> QED
  BY <1>1 DEF Serial, Calm

LEMMA JobIsTyped ==
  ASSUME TypeOK, NEW p \in Server, pc[p] # "idle"
  PROVE  /\ job[p].session \in Session /\ job[p].greeting \in Greeting
         /\ job[p].request \in Request /\ job[p].source \in Source
         /\ job[p].card \in Card /\ job[p].card \in Nat
BY AtWork DEF Job, Card

LEMMA CalmIsSerial == Calm \subseteq Serial
BY DEF Calm, Serial

-----------------------------------------------------------------------------
(* What the statements of an execution do.                                 *)

LEMMA OpeningRows ==
  ASSUME TypeOK, NEW p \in Server, SaveOpening(p)
  PROVE  /\ \A r \in Rows(openings') :
              \/ r \in Rows(openings)
              \/ /\ r.session = job[p].session /\ r.greeting = job[p].greeting
                 /\ r.card = job[p].card
         /\ \E r \in Rows(openings') :
              /\ r.session = job[p].session /\ r.greeting = job[p].greeting
              /\ r.card = job[p].card
         /\ \A r \in Rows(openings) :
              r \in Rows(openings') \/ (r.session = job[p].session /\ r.greeting = job[p].greeting)
<1> DEFINE Row == [session: Session, greeting: Greeting, card: Card]
           row == [session |-> job[p].session, greeting |-> job[p].greeting,
                   card |-> job[p].card]
           same == {i \in 1..Len(openings) :
                      /\ openings[i].session = job[p].session
                      /\ openings[i].greeting = job[p].greeting}
           out == CHOOSE i \in same : TRUE
<1>1. row \in Row
  BY AtWork DEF SaveOpening, Job
<1>9. row.session = job[p].session /\ row.greeting = job[p].greeting /\ row.card = job[p].card
  OBVIOUS
<1>2. openings' = Append(IF same = {} THEN openings
                         ELSE RemoveAt(openings, out), row)
  BY DEF SaveOpening, InsertOrReplace
<1>3. openings \in Seq(Row) /\ same \in SUBSET (1..Len(openings))
  BY DEF TypeOK
<1>4. \A i \in 1..Len(openings) :
        \/ openings[i].session = row.session /\ openings[i].greeting = row.greeting
        \/ i \in (1..Len(openings)) \ same
  OBVIOUS
<1>7. same # {} => out \in same
  OBVIOUS
<1> HIDE DEF row, same, out, Row
<1>8. HasReplaced(Row, openings, row, same, openings')
  BY <1>1, <1>2, <1>3, <1>7, Replaced
<1>5. /\ Rows(openings') \subseteq Rows(openings) \cup {row}
      /\ row \in Rows(openings')
      /\ \A i \in (1..Len(openings)) \ same : openings[i] \in Rows(openings')
  BY <1>8 DEF HasReplaced
<1>6. \A r \in Rows(openings) :
        \/ r.session = row.session /\ r.greeting = row.greeting
        \/ r \in Rows(openings')
  BY <1>4, <1>5 DEF Rows
<1> QED
  BY <1>5, <1>6, <1>9

LEMMA WorldbookRows ==
  ASSUME TypeOK, NEW p \in Server, SaveWorldbook(p)
  PROVE  /\ \A r \in Rows(worldbooks') :
              \/ r \in Rows(worldbooks)
              \/ /\ r.session = job[p].session /\ r.card = job[p].card
                 /\ r.source = job[p].source
         /\ \E r \in Rows(worldbooks') :
              /\ r.session = job[p].session /\ r.card = job[p].card
              /\ r.source = job[p].source
         /\ \A r \in Rows(worldbooks) :
              r \in Rows(worldbooks') \/ (r.session = job[p].session /\ r.card = job[p].card)
<1> DEFINE Row == [session: Session, card: Card, source: Source]
           row == [session |-> job[p].session, card |-> job[p].card,
                   source |-> job[p].source]
           same == {i \in 1..Len(worldbooks) :
                      /\ worldbooks[i].session = job[p].session
                      /\ worldbooks[i].card = job[p].card}
           out == CHOOSE i \in same : TRUE
<1>1. row \in Row
  BY AtWork DEF SaveWorldbook, Job
<1>9. row.session = job[p].session /\ row.card = job[p].card /\ row.source = job[p].source
  OBVIOUS
<1>2. worldbooks' = Append(IF same = {} THEN worldbooks
                           ELSE RemoveAt(worldbooks, out), row)
  BY DEF SaveWorldbook, InsertOrReplace
<1>3. worldbooks \in Seq(Row) /\ same \in SUBSET (1..Len(worldbooks))
  BY DEF TypeOK
<1>4. \A i \in 1..Len(worldbooks) :
        \/ worldbooks[i].session = row.session /\ worldbooks[i].card = row.card
        \/ i \in (1..Len(worldbooks)) \ same
  OBVIOUS
<1>7. same # {} => out \in same
  OBVIOUS
<1> HIDE DEF row, same, out, Row
<1>8. HasReplaced(Row, worldbooks, row, same, worldbooks')
  BY <1>1, <1>2, <1>3, <1>7, Replaced
<1>5. /\ Rows(worldbooks') \subseteq Rows(worldbooks) \cup {row}
      /\ row \in Rows(worldbooks')
      /\ \A i \in (1..Len(worldbooks)) \ same : worldbooks[i] \in Rows(worldbooks')
  BY <1>8 DEF HasReplaced
<1>6. \A r \in Rows(worldbooks) :
        \/ r.session = row.session /\ r.card = row.card
        \/ r \in Rows(worldbooks')
  BY <1>4, <1>5 DEF Rows
<1> QED
  BY <1>5, <1>6, <1>9

LEMMA ReceiptRows ==
  ASSUME TypeOK, NEW p \in Server, SaveReceipt(p)
  PROVE  /\ \A r \in Rows(receipts') :
              \/ r \in Rows(receipts)
              \/ /\ r.session = job[p].session /\ r.request = job[p].request
                 /\ r.card = job[p].card /\ r.greeting = job[p].greeting
         /\ \E r \in Rows(receipts') :
              /\ r.session = job[p].session /\ r.request = job[p].request
              /\ r.card = job[p].card /\ r.greeting = job[p].greeting
         /\ \A r \in Rows(receipts) :
              r \in Rows(receipts') \/ (r.session = job[p].session /\ r.request = job[p].request)
         /\ receipts'[Len(receipts')].session = job[p].session
         /\ \A i \in 1..(Len(receipts') - 1) : receipts'[i] \in Rows(receipts)
         /\ \A i, k \in 1..(Len(receipts') - 1) : i # k =>
              \E a, b \in 1..Len(receipts) :
                a # b /\ receipts'[i] = receipts[a] /\ receipts'[k] = receipts[b]
<1> DEFINE Row == [request: Request, session: Session, card: Card, greeting: Greeting]
           row == [request |-> job[p].request, session |-> job[p].session,
                   card |-> job[p].card, greeting |-> job[p].greeting]
           same == {i \in 1..Len(receipts) :
                      /\ receipts[i].request = job[p].request
                      /\ receipts[i].session = job[p].session}
           out == CHOOSE i \in same : TRUE
<1>1. row \in Row
  BY AtWork DEF SaveReceipt, Job
<1>9. /\ row.session = job[p].session /\ row.request = job[p].request
      /\ row.card = job[p].card /\ row.greeting = job[p].greeting
  OBVIOUS
<1>2. receipts' = Append(IF same = {} THEN receipts
                         ELSE RemoveAt(receipts, out), row)
  BY DEF SaveReceipt, InsertOrReplace
<1>3. receipts \in Seq(Row) /\ same \in SUBSET (1..Len(receipts))
  BY DEF TypeOK
<1>4. \A i \in 1..Len(receipts) :
        \/ receipts[i].session = row.session /\ receipts[i].request = row.request
        \/ i \in (1..Len(receipts)) \ same
  OBVIOUS
<1>7. same # {} => out \in same
  OBVIOUS
<1> HIDE DEF row, same, out, Row
<1>8. HasReplaced(Row, receipts, row, same, receipts')
  BY <1>1, <1>2, <1>3, <1>7, Replaced
<1>5. /\ Rows(receipts') \subseteq Rows(receipts) \cup {row}
      /\ row \in Rows(receipts')
      /\ \A i \in (1..Len(receipts)) \ same : receipts[i] \in Rows(receipts')
      /\ receipts'[Len(receipts')] = row
      /\ \A i \in 1..(Len(receipts') - 1) : receipts'[i] \in Rows(receipts)
      /\ \A i, k \in 1..(Len(receipts') - 1) : i # k =>
           \E a, b \in 1..Len(receipts) :
             a # b /\ receipts'[i] = receipts[a] /\ receipts'[k] = receipts[b]
  BY <1>8 DEF HasReplaced
<1>6. \A r \in Rows(receipts) :
        \/ r.session = row.session /\ r.request = row.request
        \/ r \in Rows(receipts')
  BY <1>4, <1>5 DEF Rows
<1> QED
  BY <1>5, <1>6, <1>9

LEMMA BindingSets ==
  ASSUME TypeOK, NEW p \in Server, SaveBinding(p)
  PROVE  LET s == job[p].session IN
         /\ pc[p] = "binding" /\ pc'[p] = "receipt" /\ job' = job
         /\ s \in Session /\ Bound' = Bound \cup {s}
         /\ bindings'[s].card = job[p].card /\ bindings'[s].source = job[p].source
         /\ bindings'[s].greeting = job[p].greeting /\ boundBy'[s] = job[p].request
         /\ \A t \in Session \ {s} : bindings'[t] = bindings[t] /\ boundBy'[t] = boundBy[t]
<1> DEFINE s == job[p].session
           row == [card |-> job[p].card, source |-> job[p].source,
                   greeting |-> job[p].greeting]
<1>1. pc[p] = "binding" /\ pc'[p] = "receipt" /\ job' = job
  BY DEF SaveBinding, Goto, TypeOK
<1>2. /\ row \in Binding /\ row # Nothing /\ s \in Session
      /\ row.card = job[p].card /\ row.source = job[p].source
      /\ row.greeting = job[p].greeting
  BY <1>1, JobIsTyped, NothingAssumption DEF Binding
<1>3. /\ bindings' = [bindings EXCEPT ![s] = row]
      /\ boundBy' = [boundBy EXCEPT ![s] = job[p].request]
  BY DEF SaveBinding
<1> HIDE DEF row, s
<1>4. /\ bindings'[s] = row /\ boundBy'[s] = job[p].request
      /\ \A t \in Session \ {s} : bindings'[t] = bindings[t] /\ boundBy'[t] = boundBy[t]
  BY <1>2, <1>3 DEF TypeOK
<1>5. Bound' = Bound \cup {s}
  BY <1>2, <1>4 DEF Bound
<1> QED
  BY <1>1, <1>2, <1>4, <1>5 DEF s

LEMMA BeginSets ==
  ASSUME TypeOK, NEW p \in Server, NEW s \in Session, NEW g \in Greeting,
         NEW r \in Request, NEW c \in Source, Begin(p, s, g, r, c)
  PROVE  /\ pc[p] = "idle" /\ pc'[p] = "define"
         /\ job'[p].session = s /\ job'[p].card = runs + 1 /\ runs' = runs + 1
         /\ UNCHANGED tables /\ UNCHANGED boundBy
         /\ s \in Serial' => \A q \in Server : pc[q] = "idle" \/ job[q].session # s
<1> DEFINE new == [session |-> s, greeting |-> g, request |-> r, source |-> c, card |-> runs + 1]
<1>1. new.session = s /\ new.card = runs + 1
  OBVIOUS
<1>2. job' = [job EXCEPT ![p] = new]
  BY DEF Begin
<1> HIDE DEF new
<1>3. job'[p] = new
  BY <1>2 DEF TypeOK
<1>4. ASSUME NEW q \in Server, pc[q] # "idle", job[q].session = s
      PROVE  s \notin Serial'
  <2>1. disturbed' = [disturbed EXCEPT ![s] = @ \cup {"overlap"}]
    BY <1>4 DEF Begin
  <2> QED
    BY <2>1 DEF TypeOK, Serial
<1> QED
  BY <1>1, <1>3, <1>4 DEF Begin, TypeOK

(* An execution ends, or goes on to its next statement.                    *)
LEMMA Advances ==
  ASSUME TypeOK, NEW p \in Server, Step(p) \/ Crash(p)
  PROVE  /\ pc[p] # "idle"
         /\ \/ pc'[p] = "idle"
            \/ /\ job'[p] = job[p]
               /\ \/ SaveDefinition(p) /\ pc[p] = "define" /\ pc'[p] = "find receipt"
                  \/ FindReceipt(p) /\ pc[p] = "find receipt" /\ pc'[p] = "find binding"
                  \/ FindBinding(p) /\ pc[p] = "find binding" /\ pc'[p] = "opening"
                  \/ SaveOpening(p) /\ pc[p] = "opening" /\ pc'[p] = "worldbook"
                  \/ SaveWorldbook(p) /\ pc[p] = "worldbook" /\ pc'[p] = "binding"
                  \/ SaveBinding(p) /\ pc[p] = "binding" /\ pc'[p] = "receipt"
<1> USE DEF TypeOK, Goto, Return
<1>1. CASE SaveDefinition(p)
  BY <1>1 DEF SaveDefinition
<1>2. CASE FindReceipt(p)
  BY <1>2 DEF FindReceipt
<1>3. CASE FindBinding(p)
  BY <1>3 DEF FindBinding
<1>4. CASE SaveOpening(p)
  BY <1>4 DEF SaveOpening
<1>5. CASE SaveWorldbook(p)
  BY <1>5 DEF SaveWorldbook
<1>6. CASE SaveBinding(p)
  BY <1>6 DEF SaveBinding
<1>7. CASE SaveReceipt(p) \/ Crash(p)
  BY <1>7 DEF SaveReceipt, Crash
<1> QED
  BY <1>1, <1>2, <1>3, <1>4, <1>5, <1>6, <1>7 DEF Step

(* A session is bound to what it was bound to, or by this very step.       *)
LEMMA BoundGrows ==
  ASSUME TypeOK, NEW p \in Server, Moves(p), NEW s \in Bound'
  PROVE  \/ s \in Bound /\ bindings'[s] = bindings[s] /\ boundBy'[s] = boundBy[s]
         \/ SaveBinding(p) /\ s = job[p].session
<1>1. CASE bindings' = bindings /\ boundBy' = boundBy
  BY <1>1 DEF Bound
<1>2. CASE SaveBinding(p)
  BY <1>2, BindingSets DEF Bound
<1> QED
  BY <1>1, <1>2, Untouched

LEMMA StaysBound ==
  ASSUME TypeOK, NEW p \in Server, Moves(p)
  PROVE  Bound \subseteq Bound'
<1>1. CASE bindings' = bindings /\ boundBy' = boundBy
  BY <1>1 DEF Bound
<1>2. CASE SaveBinding(p)
  BY <1>2, BindingSets
<1> QED
  BY <1>1, <1>2, Untouched

-----------------------------------------------------------------------------
(* The parts of a binding.                                                 *)

LEMMA PartsStay ==
  ASSUME TypeOK, NEW p \in Server, Moves(p)
  PROVE  /\ definitions \subseteq definitions'
         /\ \A r \in Rows(openings) : \E t \in Rows(openings') :
              t.session = r.session /\ t.greeting = r.greeting
         /\ \A r \in Rows(worldbooks) : \E t \in Rows(worldbooks') :
              t.session = r.session /\ t.card = r.card
<1>1. definitions \subseteq definitions'
  BY Untouched DEF SaveDefinition
<1>2. ASSUME NEW r \in Rows(openings)
      PROVE  \E t \in Rows(openings') : t.session = r.session /\ t.greeting = r.greeting
  <2>1. CASE openings' = openings
    BY <2>1
  <2>2. CASE SaveOpening(p)
    BY <2>2, OpeningRows
  <2> QED
    BY <2>1, <2>2, Untouched
<1>3. ASSUME NEW r \in Rows(worldbooks)
      PROVE  \E t \in Rows(worldbooks') : t.session = r.session /\ t.card = r.card
  <2>1. CASE worldbooks' = worldbooks
    BY <2>1
  <2>2. CASE SaveWorldbook(p)
    BY <2>2, WorldbookRows
  <2> QED
    BY <2>1, <2>2, Untouched
<1> QED
  BY <1>1, <1>2, <1>3

LEMMA StaysWritten ==
  ASSUME TypeOK, NEW p \in Server, Moves(p), NEW q \in Server, Written(q),
         job'[q] = job[q],
         \/ pc'[q] = pc[q]
         \/ <<pc[q], pc'[q]>> \in {<<"find receipt", "find binding">>,
                                  <<"find binding", "opening">>, <<"binding", "receipt">>}
  PROVE  Written(q)'
<1> DEFINE Past(label) ==
      /\ label \in {"find receipt", "find binding", "opening", "worldbook", "binding", "receipt"}
           => [card |-> job[q].card, source |-> job[q].source] \in definitions
      /\ label \in {"worldbook", "binding", "receipt"} =>
           \E r \in Rows(openings) :
             r.session = job[q].session /\ r.greeting = job[q].greeting
      /\ label \in {"binding", "receipt"} =>
           \E r \in Rows(worldbooks) : r.session = job[q].session /\ r.card = job[q].card
<1>1. Past(pc'[q])
  BY DEF Written
<1>2. ASSUME pc'[q] \in {"worldbook", "binding", "receipt"}
      PROVE  \E r \in Rows(openings') :
               r.session = job[q].session /\ r.greeting = job[q].greeting
  <2>1. PICK r \in Rows(openings) :
          r.session = job[q].session /\ r.greeting = job[q].greeting
    BY <1>1, <1>2
  <2>2. PICK t \in Rows(openings') : t.session = r.session /\ t.greeting = r.greeting
    BY PartsStay
  <2> QED
    BY <2>1, <2>2
<1>3. ASSUME pc'[q] \in {"binding", "receipt"}
      PROVE  \E r \in Rows(worldbooks') : r.session = job[q].session /\ r.card = job[q].card
  <2>1. PICK r \in Rows(worldbooks) : r.session = job[q].session /\ r.card = job[q].card
    BY <1>1, <1>3
  <2>2. PICK t \in Rows(worldbooks') : t.session = r.session /\ t.card = r.card
    BY PartsStay
  <2> QED
    BY <2>1, <2>2
<1> QED
  BY <1>1, <1>2, <1>3, PartsStay DEF Written

LEMMA PartsStep ==
  ASSUME TypeOK, PartsInv, NEW p \in Server, Moves(p)
  PROVE  PartsInv'
<1>1. ASSUME NEW q \in Server PROVE Written(q)'
  <2>1. CASE q # p
    <3>1. pc'[q] = pc[q] /\ job'[q] = job[q] /\ Written(q)
      BY <2>1, OthersWait DEF PartsInv
    <3> QED
      BY <3>1, StaysWritten
  <2>2. CASE q = p
    <3>1. ASSUME NEW s \in Session, NEW g \in Greeting, NEW r \in Request, NEW c \in Source,
                 Begin(p, s, g, r, c)
          PROVE  pc'[p] = "define"
      BY <3>1, BeginSets
    <3>2. ASSUME Step(p) \/ Crash(p) PROVE Written(p)'
      <4>1. Written(p)
        BY DEF PartsInv
      <4>2. CASE pc'[p] = "idle"
        BY <4>2 DEF Written
      <4>3. CASE SaveDefinition(p) /\ pc[p] = "define" /\ pc'[p] = "find receipt"
                 /\ job'[p] = job[p]
        BY <4>3 DEF Written, SaveDefinition
      <4>4. CASE SaveOpening(p) /\ pc[p] = "opening" /\ pc'[p] = "worldbook"
                 /\ job'[p] = job[p]
        <5>1. \E r \in Rows(openings') :
                r.session = job[p].session /\ r.greeting = job[p].greeting
          BY <4>4, OpeningRows
        <5> QED
          BY <4>1, <4>4, <5>1, PartsStay DEF Written
      <4>5. CASE SaveWorldbook(p) /\ pc[p] = "worldbook" /\ pc'[p] = "binding"
                 /\ job'[p] = job[p]
        <5>1. \E r \in Rows(worldbooks') :
                r.session = job[p].session /\ r.card = job[p].card
          BY <4>5, WorldbookRows
        <5> QED
          BY <4>1, <4>5, <5>1, PartsStay DEF Written
      <4>6. CASE job'[p] = job[p] /\ <<pc[p], pc'[p]>> \in
                   {<<"find receipt", "find binding">>, <<"find binding", "opening">>,
                    <<"binding", "receipt">>}
        BY <4>1, <4>6, StaysWritten
      <4> QED
        BY <3>2, <4>2, <4>3, <4>4, <4>5, <4>6, Advances
    <3> QED
      BY <2>2, <3>1, <3>2 DEF Moves, Written
  <2> QED
    BY <2>1, <2>2
<1>2. ASSUME NEW s \in Bound' PROVE HasParts(s)'
  <2>1. CASE s \in Bound /\ bindings'[s] = bindings[s]
    <3>1. HasParts(s)
      BY <2>1 DEF PartsInv
    <3> QED
      BY <2>1, <3>1, PartsStay DEF HasParts
  <2>2. CASE SaveBinding(p) /\ s = job[p].session
    <3>1. Written(p) /\ pc[p] = "binding"
      BY <2>2, BindingSets DEF PartsInv
    <3>2. /\ bindings'[s].card = job[p].card /\ bindings'[s].source = job[p].source
          /\ bindings'[s].greeting = job[p].greeting
      BY <2>2, BindingSets
    <3> QED
      BY <2>2, <3>1, <3>2, PartsStay DEF HasParts, Written
  <2> QED
    BY <2>1, <2>2, BoundGrows
<1> QED
  BY <1>1, <1>2 DEF PartsInv

-----------------------------------------------------------------------------
(* The cards and the executions of serial sessions.                        *)

(* An execution starts, or one under way ends or goes on with its request. *)
LEMMA StartsOrGoesOn ==
  ASSUME TypeOK, NEW p \in Server, Moves(p)
  PROVE  \/ \E s \in Session, g \in Greeting, r \in Request, c \in Source :
              Begin(p, s, g, r, c)
         \/ pc[p] # "idle" /\ (pc'[p] = "idle" \/ job'[p] = job[p])
BY Advances DEF Moves

LEMMA Numbers ==
  ASSUME TypeOK
  PROVE  /\ runs \in Nat
         /\ \A s \in Bound : bindings[s].card \in Nat /\ s \in Session
         /\ \A q \in Server : pc[q] # "idle" => job[q].card \in Nat
<1>1. runs \in Nat
  <2>1. runs \in 0..MaxRuns
    BY DEF TypeOK
  <2> QED
    BY <2>1, MaxRunsAssumption
<1>2. ASSUME NEW s \in Bound PROVE bindings[s].card \in Nat /\ s \in Session
  <2>1. bindings[s] \in Binding /\ s \in Session
    BY DEF TypeOK, Bound
  <2> QED
    BY <2>1 DEF Binding, Card
<1> QED
  BY <1>1, <1>2, JobIsTyped

LEMMA CardsStep ==
  ASSUME TypeOK, TypeOK', CardsInv, NEW p \in Server, Moves(p)
  PROVE  CardsInv'
<1>1. runs \in Nat /\ runs' \in Nat /\ runs <= runs'
  BY Numbers, Untouched
<1>2. ASSUME NEW q \in Server, pc'[q] # "idle"
      PROVE  \/ pc[q] # "idle" /\ job'[q] = job[q]
             \/ q = p /\ job'[q].card = runs + 1 /\ runs' = runs + 1 /\ pc'[q] = "define"
                /\ Bound' = Bound /\ bindings' = bindings
  <2>1. CASE q # p
    BY <1>2, <2>1, OthersWait
  <2>2. CASE q = p
    <3>1. ASSUME NEW s \in Session, NEW g \in Greeting, NEW r \in Request, NEW c \in Source,
                 Begin(p, s, g, r, c)
          PROVE  /\ job'[q].card = runs + 1 /\ runs' = runs + 1 /\ pc'[q] = "define"
                 /\ Bound' = Bound /\ bindings' = bindings
      BY <2>2, <3>1, BeginSets DEF tables, Bound
    <3> QED
      BY <1>2, <2>2, <3>1, StartsOrGoesOn
  <2> QED
    BY <2>1, <2>2
<1>3. ASSUME NEW q \in Server, pc'[q] # "idle" PROVE job'[q].card <= runs'
  BY <1>1, <1>2, <1>3, Numbers DEF CardsInv
<1>4. ASSUME NEW s \in Bound' PROVE bindings'[s].card <= runs'
  <2>1. CASE s \in Bound /\ bindings'[s] = bindings[s]
    BY <1>1, <2>1, Numbers DEF CardsInv
  <2>2. CASE SaveBinding(p) /\ s = job[p].session
    BY <1>1, <2>2, BindingSets, Numbers DEF CardsInv
  <2> QED
    BY <2>1, <2>2, BoundGrows
<1>5. ASSUME NEW q \in Server, NEW u \in Server, pc'[q] # "idle", pc'[u] # "idle",
             job'[q].card = job'[u].card
      PROVE  q = u
  BY <1>1, <1>2, <1>5, Numbers DEF CardsInv
<1>6. ASSUME NEW q \in Server, pc'[q] \notin {"idle", "receipt"}, NEW s \in Bound'
      PROVE  bindings'[s].card # job'[q].card
  <2>1. CASE q = p /\ job'[q].card = runs + 1 /\ Bound' = Bound /\ bindings' = bindings
    BY <1>1, <1>6, <2>1, Numbers DEF CardsInv
  <2>2. CASE pc[q] # "idle" /\ job'[q] = job[q]
    <3>1. pc[q] \notin {"idle", "receipt"}
      <4>1. CASE q # p
        BY <1>6, <4>1, OthersWait
      <4>2. CASE q = p
        BY <1>6, <2>2, <4>2, Advances, BeginSets DEF Moves
      <4> QED
        BY <4>1, <4>2
    <3>2. CASE s \in Bound /\ bindings'[s] = bindings[s]
      BY <2>2, <3>1, <3>2 DEF CardsInv
    <3>3. CASE SaveBinding(p) /\ s = job[p].session
      <4>1. /\ pc[p] = "binding" /\ pc'[p] = "receipt"
            /\ bindings'[s].card = job[p].card
        BY <3>3, BindingSets
      <4>2. q # p
        BY <1>6, <4>1
      <4> QED
        BY <2>2, <4>1, <4>2 DEF CardsInv
    <3> QED
      BY <3>2, <3>3, BoundGrows
  <2> QED
    BY <1>2, <1>6, <2>1, <2>2
<1> QED
  BY <1>3, <1>4, <1>5, <1>6 DEF CardsInv

(* Two executions of a serial session are one.                             *)
LEMMA SerialAlone ==
  ASSUME TypeOK, SerialInv, NEW p \in Server, Moves(p), NEW q \in Server \ {p},
         pc'[p] # "idle", pc'[q] # "idle", job'[p].session = job'[q].session,
         job'[p].session \in Serial'
  PROVE  FALSE
<1>1. pc[q] # "idle" /\ job'[q] = job[q]
  BY OthersWait
<1>2. ASSUME NEW s \in Session, NEW g \in Greeting, NEW r \in Request, NEW c \in Source,
             Begin(p, s, g, r, c)
      PROVE  FALSE
  BY <1>1, <1>2, BeginSets
<1>3. ASSUME pc[p] # "idle", job'[p] = job[p] PROVE FALSE
  <2>1. job[p].session \in Serial
    BY <1>3, HistoryGrows
  <2> QED
    BY <1>1, <1>3, <2>1 DEF SerialInv
<1> QED
  BY <1>2, <1>3, StartsOrGoesOn

LEMMA SerialStep ==
  ASSUME TypeOK, CardsInv, SerialInv, NEW p \in Server, Moves(p)
  PROVE  SerialInv'
<1>1. ASSUME NEW q \in Server, NEW u \in Server, pc'[q] # "idle", pc'[u] # "idle",
             job'[q].session = job'[u].session, job'[q].session \in Serial'
      PROVE  q = u
  <2>1. CASE q # p /\ u # p
    <3>1. /\ pc[q] # "idle" /\ job'[q] = job[q] /\ pc[u] # "idle" /\ job'[u] = job[u]
          /\ job[q].session \in Serial
      BY <1>1, <2>1, OthersWait, HistoryGrows
    <3> QED
      BY <1>1, <3>1 DEF SerialInv
  <2>2. CASE q = p \/ u = p
    BY <1>1, <2>2, SerialAlone
  <2> QED
    BY <2>1, <2>2
<1>2. ASSUME NEW q \in Server, pc'[q] \in {"opening", "worldbook", "binding"},
             job'[q].session \in Serial'
      PROVE  job'[q].session \notin Bound'
  <2>1. job'[q] = job[q] /\ job[q].session \in Serial /\ pc[q] # "idle"
        /\ (q = p => Step(p) \/ Crash(p))
    <3>1. CASE q # p
      BY <1>2, <3>1, OthersWait, HistoryGrows
    <3>2. CASE q = p
      BY <1>2, <3>2, BeginSets, Advances, HistoryGrows DEF Moves
    <3> QED
      BY <3>1, <3>2
  <2>2. job[q].session \notin Bound
    <3>1. CASE q # p
      BY <1>2, <2>1, <3>1, OthersWait DEF SerialInv
    <3>2. CASE q = p /\ FindBinding(p) /\ pc[p] = "find binding" /\ pc'[p] = "opening"
      <4>1. ~(bindings[job[p].session] # Nothing /\ bindings[job[p].session].card # job[p].card)
        BY <3>2 DEF FindBinding, Return, TypeOK
      <4> QED
        BY <2>1, <3>2, <4>1 DEF CardsInv, Bound
    <3>3. CASE q = p /\ pc[p] \in {"opening", "worldbook"}
      BY <2>1, <3>3 DEF SerialInv
    <3> QED
      BY <1>2, <2>1, <3>1, <3>2, <3>3, Advances
  <2>3. ASSUME SaveBinding(p), job[q].session = job[p].session PROVE FALSE
    <3>1. pc[p] = "binding" /\ pc'[p] = "receipt"
      BY <2>3, BindingSets
    <3> QED
      BY <1>2, <2>1, <2>3, <3>1 DEF SerialInv
  <2> QED
    BY <2>1, <2>2, <2>3, BoundGrows
<1> QED
  BY <1>1, <1>2 DEF SerialInv

(* What a serial session is bound to does not change.                      *)
LEMMA SerialStaysBound ==
  ASSUME TypeOK, SerialInv, NEW p \in Server, Moves(p), NEW s \in Bound, s \in Serial
  PROVE  s \in Bound' /\ bindings'[s] = bindings[s] /\ boundBy'[s] = boundBy[s]
<1>1. s \in Bound'
  BY StaysBound
<1>2. ASSUME SaveBinding(p), s = job[p].session PROVE FALSE
  BY <1>2, BindingSets DEF SerialInv
<1> QED
  BY <1>1, <1>2, BoundGrows

-----------------------------------------------------------------------------
(* The receipts.                                                           *)

LEMMA ReceiptsStep ==
  ASSUME TypeOK, TypeOK', SerialInv, ReceiptsInv, NEW p \in Server, Moves(p)
  PROVE  ReceiptsInv'
<1> DEFINE j == job[p]
<1>1. ASSUME NEW r \in Rows(receipts'), r.session \in Serial'
      PROVE  /\ r.session \in Bound'
             /\ r.card = bindings'[r.session].card
             /\ r.greeting = bindings'[r.session].greeting
  <2>1. r.session \in Serial
    BY <1>1, HistoryGrows
  <2>2. CASE r \in Rows(receipts)
    <3>1. /\ r.session \in Bound /\ r.card = bindings[r.session].card
          /\ r.greeting = bindings[r.session].greeting
      BY <2>1, <2>2 DEF ReceiptsInv
    <3> QED
      BY <2>1, <3>1, SerialStaysBound
  <2>3. CASE r \notin Rows(receipts)
    <3>1. SaveReceipt(p)
      BY <1>1, <2>3, Untouched
    <3>2. r.session = j.session /\ r.card = j.card /\ r.greeting = j.greeting
      BY <1>1, <2>3, <3>1, ReceiptRows
    <3>3. pc[p] = "receipt" /\ bindings' = bindings
      BY <3>1 DEF SaveReceipt
    <3> QED
      BY <2>1, <3>2, <3>3, StaysBound DEF ReceiptsInv
  <2> QED
    BY <2>2, <2>3
<1>2. ASSUME NEW i \in 1..Len(receipts'), NEW k \in 1..Len(receipts'),
             receipts'[i].session = receipts'[k].session, receipts'[i].session \in Serial',
             i # k
      PROVE  FALSE
  <2>1. receipts'[i].session \in Serial
    BY <1>2, HistoryGrows
  <2>2. CASE receipts' = receipts
    BY <1>2, <2>1, <2>2 DEF ReceiptsInv
  <2>3. CASE SaveReceipt(p)
    <3>1. Len(receipts') \in Nat
      BY LenProperties DEF TypeOK
    <3>2. CASE i # Len(receipts') /\ k # Len(receipts')
      <4>1. i \in 1..(Len(receipts') - 1) /\ k \in 1..(Len(receipts') - 1)
        BY <3>1, <3>2
      <4>2. PICK a, b \in 1..Len(receipts) :
              a # b /\ receipts'[i] = receipts[a] /\ receipts'[k] = receipts[b]
        BY <1>2, <2>3, <4>1, ReceiptRows
      <4> QED
        BY <1>2, <2>1, <4>2 DEF ReceiptsInv
    <3>3. ASSUME NEW l \in 1..Len(receipts'), l # Len(receipts'),
                 receipts'[l].session = receipts'[Len(receipts')].session,
                 receipts'[l].session \in Serial
          PROVE  FALSE
      <4>1. l \in 1..(Len(receipts') - 1)
        BY <3>1, <3>3
      <4>2. receipts'[l] \in Rows(receipts) /\ receipts'[Len(receipts')].session = j.session
        BY <2>3, <4>1, ReceiptRows
      <4>3. pc[p] = "receipt"
        BY <2>3 DEF SaveReceipt
      <4> QED
        BY <3>3, <4>2, <4>3 DEF ReceiptsInv
    <3> QED
      BY <1>2, <2>1, <3>2, <3>3
  <2> QED
    BY <2>2, <2>3, Untouched
<1>3. ASSUME NEW q \in Server, pc'[q] = "receipt", job'[q].session \in Serial'
      PROVE  /\ job'[q].session \in Bound'
             /\ job'[q].card = bindings'[job'[q].session].card
             /\ job'[q].greeting = bindings'[job'[q].session].greeting
             /\ job'[q].request = boundBy'[job'[q].session]
             /\ \A r \in Rows(receipts') : r.session # job'[q].session
  <2>1. CASE q = p
    <3>1. SaveBinding(p)
      <4>1. ASSUME NEW s \in Session, NEW g \in Greeting, NEW r \in Request, NEW c \in Source,
                   Begin(p, s, g, r, c)
            PROVE  FALSE
        BY <1>3, <2>1, <4>1, BeginSets
      <4> QED
        BY <1>3, <2>1, <4>1, Advances DEF Moves
    <3>2. /\ pc[p] = "binding" /\ job'[p] = job[p] /\ j.session \in Bound'
          /\ bindings'[j.session].card = j.card /\ bindings'[j.session].greeting = j.greeting
          /\ boundBy'[j.session] = j.request
      BY <3>1, BindingSets
    <3>3. j.session \in Serial /\ receipts' = receipts
      BY <1>3, <2>1, <3>1, <3>2, HistoryGrows DEF SaveBinding
    <3>4. j.session \notin Bound
      BY <3>2, <3>3 DEF SerialInv
    <3>5. \A r \in Rows(receipts) : r.session # j.session
      BY <3>3, <3>4 DEF ReceiptsInv
    <3> QED
      BY <2>1, <3>2, <3>3, <3>5
  <2>2. CASE q # p
    <3>1. pc[q] = "receipt" /\ job'[q] = job[q] /\ job[q].session \in Serial
      BY <1>3, <2>2, OthersWait, HistoryGrows
    <3>2. /\ job[q].session \in Bound
          /\ job[q].card = bindings[job[q].session].card
          /\ job[q].greeting = bindings[job[q].session].greeting
          /\ job[q].request = boundBy[job[q].session]
          /\ \A r \in Rows(receipts) : r.session # job[q].session
      BY <3>1 DEF ReceiptsInv
    <3>3. \A r \in Rows(receipts') : r.session # job[q].session
      <4>1. CASE receipts' = receipts
        BY <3>2, <4>1
      <4>2. CASE SaveReceipt(p)
        <5>1. pc[p] # "idle" /\ j.session # job[q].session
          BY <2>2, <3>1, <4>2 DEF SerialInv, SaveReceipt
        <5>2. \A r \in Rows(receipts') : r \in Rows(receipts) \/ r.session = j.session
          BY <4>2, ReceiptRows
        <5> QED
          BY <3>2, <5>1, <5>2
      <4> QED
        BY <4>1, <4>2, Untouched
    <3> QED
      BY <3>1, <3>2, <3>3, SerialStaysBound
  <2> QED
    BY <2>1, <2>2
<1> QED
  BY <1>1, <1>2, <1>3 DEF ReceiptsInv

-----------------------------------------------------------------------------
(* The rows of calm sessions.                                              *)

(* A calm session is not the one of an execution that dies.                *)
LEMMA CrashDisturbs ==
  ASSUME TypeOK, NEW p \in Server, Crash(p)
  PROVE  job[p].session \notin Calm'
<1>1. disturbed' = [disturbed EXCEPT ![job[p].session] = @ \cup {"crash"}]
  BY DEF Crash
<1>2. job[p].session \in Session
  BY JobIsTyped DEF Crash
<1> QED
  BY <1>1, <1>2 DEF TypeOK, Calm

(* In a calm session only an answer ends an execution.                     *)
LEMMA CalmGoesOn ==
  ASSUME TypeOK, NEW p \in Server, Moves(p), pc[p] # "idle", job[p].session \in Calm'
  PROVE  /\ pc[p] = "worldbook" =>
              SaveWorldbook(p) /\ pc'[p] = "binding" /\ job'[p] = job[p]
         /\ pc[p] = "binding" => SaveBinding(p)
         /\ pc[p] = "receipt" => SaveReceipt(p)
<1>1. ~Crash(p)
  BY CrashDisturbs
<1>2. Step(p)
  BY <1>1, BeginSets DEF Moves
<1>3. pc[p] \in {"worldbook", "binding", "receipt"} =>
        SaveWorldbook(p) \/ SaveBinding(p) \/ SaveReceipt(p)
  BY <1>2 DEF Step, SaveDefinition, FindReceipt, FindBinding, SaveOpening
<1>4. /\ SaveWorldbook(p) => pc[p] = "worldbook" /\ pc'[p] = "binding" /\ job'[p] = job[p]
      /\ SaveBinding(p) => pc[p] = "binding"
      /\ SaveReceipt(p) => pc[p] = "receipt"
  BY DEF SaveWorldbook, SaveBinding, SaveReceipt, Goto, TypeOK
<1> QED
  BY <1>3, <1>4

LEMMA RowsStep ==
  ASSUME TypeOK, SerialInv, RowsInv, NEW p \in Server, Moves(p)
  PROVE  RowsInv'
<1>1. ASSUME NEW r \in Rows(openings'), r.session \in Calm'
      PROVE  \/ r.session \in Bound' /\ r.greeting = bindings'[r.session].greeting
             \/ \E q \in Server :
                  /\ pc'[q] \in {"worldbook", "binding"}
                  /\ job'[q].session = r.session /\ job'[q].greeting = r.greeting
  <2>1. r.session \in Calm /\ r.session \in Serial
    BY <1>1, HistoryGrows, CalmIsSerial
  <2>2. CASE r \notin Rows(openings)
    <3>1. SaveOpening(p)
      BY <1>1, <2>2, Untouched
    <3>2. r.session = job[p].session /\ r.greeting = job[p].greeting
      BY <1>1, <2>2, <3>1, OpeningRows
    <3>3. pc'[p] = "worldbook" /\ job'[p] = job[p]
      BY <3>1 DEF SaveOpening, Goto, TypeOK
    <3> QED
      BY <3>2, <3>3
  <2>3. CASE r.session \in Bound /\ r.greeting = bindings[r.session].greeting
    BY <2>1, <2>3, SerialStaysBound
  <2>4. ASSUME NEW q \in Server, pc[q] \in {"worldbook", "binding"},
               job[q].session = r.session, job[q].greeting = r.greeting
        PROVE  \/ r.session \in Bound' /\ r.greeting = bindings'[r.session].greeting
               \/ pc'[q] \in {"worldbook", "binding"} /\ job'[q] = job[q]
    <3>1. CASE q # p
      BY <2>4, <3>1, OthersWait
    <3>2. CASE q = p
      BY <1>1, <2>4, <3>2, CalmGoesOn, BindingSets
    <3> QED
      BY <3>1, <3>2
  <2> QED
    BY <2>1, <2>2, <2>3, <2>4 DEF RowsInv
<1>2. ASSUME NEW r \in Rows(worldbooks'), r.session \in Calm'
      PROVE  \/ r.session \in Bound' /\ r.source = bindings'[r.session].source
             \/ \E q \in Server :
                  /\ pc'[q] = "binding"
                  /\ job'[q].session = r.session /\ job'[q].source = r.source
  <2>1. r.session \in Calm /\ r.session \in Serial
    BY <1>2, HistoryGrows, CalmIsSerial
  <2>2. CASE r \notin Rows(worldbooks)
    <3>1. SaveWorldbook(p)
      BY <1>2, <2>2, Untouched
    <3>2. r.session = job[p].session /\ r.source = job[p].source
      BY <1>2, <2>2, <3>1, WorldbookRows
    <3>3. pc'[p] = "binding" /\ job'[p] = job[p]
      BY <3>1 DEF SaveWorldbook, Goto, TypeOK
    <3> QED
      BY <3>2, <3>3
  <2>3. CASE r.session \in Bound /\ r.source = bindings[r.session].source
    BY <2>1, <2>3, SerialStaysBound
  <2>4. ASSUME NEW q \in Server, pc[q] = "binding",
               job[q].session = r.session, job[q].source = r.source
        PROVE  \/ r.session \in Bound' /\ r.source = bindings'[r.session].source
               \/ pc'[q] = "binding" /\ job'[q] = job[q]
    <3>1. CASE q # p
      BY <2>4, <3>1, OthersWait
    <3>2. CASE q = p
      BY <1>2, <2>4, <3>2, CalmGoesOn, BindingSets
    <3> QED
      BY <3>1, <3>2
  <2> QED
    BY <2>1, <2>2, <2>3, <2>4 DEF RowsInv
<1> QED
  BY <1>1, <1>2 DEF RowsInv

-----------------------------------------------------------------------------
(* The requests.                                                           *)

(* An execution past the receipt check found no receipt of its request.    *)
LEMMA NoReceiptFound ==
  ASSUME TypeOK, NEW p \in Server, FindReceipt(p), pc'[p] = "find binding"
  PROVE  \A r \in Rows(receipts) : r.request # job[p].request
<1> DEFINE I == {i \in 1..Len(receipts) : receipts[i].request = job[p].request}
<1>1. ~Found(receipts, LAMBDA r : r.request = job[p].request)
  BY DEF FindReceipt, Return, TypeOK
<1>2. ~((IF I # {} THEN Min(I) ELSE 0) # 0)
  BY <1>1 DEF Found, SelectInSeq
<1>3. Len(receipts) \in Nat /\ I \in SUBSET (1..Len(receipts))
  BY LenProperties DEF TypeOK
<1>4. I = {}
  <2> HIDE DEF I
  <2> QED
    BY <1>2, <1>3, LowestPlace
<1> QED
  BY <1>4 DEF Rows

LEMMA RequestsStep ==
  ASSUME TypeOK, SerialInv, ReceiptsInv, RequestsInv, NEW p \in Server, Moves(p)
  PROVE  RequestsInv'
<1>1. ASSUME NEW s \in Bound', s \in Calm'
      PROVE  \/ \E r \in Rows(receipts') : r.session = s /\ r.request = boundBy'[s]
             \/ \E q \in Server : pc'[q] = "receipt" /\ job'[q].session = s
  <2>1. s \in Calm /\ s \in Serial
    BY <1>1, HistoryGrows, CalmIsSerial
  <2>2. CASE SaveBinding(p) /\ s = job[p].session
    BY <2>2, BindingSets
  <2>3. CASE s \in Bound /\ boundBy'[s] = boundBy[s]
    <3>1. ASSUME NEW r \in Rows(receipts), r.session = s, r.request = boundBy[s]
          PROVE  \E t \in Rows(receipts') : t.session = s /\ t.request = boundBy'[s]
      <4>1. CASE receipts' = receipts
        BY <2>3, <3>1, <4>1
      <4>2. CASE SaveReceipt(p)
        BY <2>3, <3>1, <4>2, ReceiptRows
      <4> QED
        BY <4>1, <4>2, Untouched
    <3>2. ASSUME NEW q \in Server, pc[q] = "receipt", job[q].session = s
          PROVE  \/ \E r \in Rows(receipts') : r.session = s /\ r.request = boundBy'[s]
                 \/ pc'[q] = "receipt" /\ job'[q].session = s
      <4>1. CASE q # p
        BY <3>2, <4>1, OthersWait
      <4>2. CASE q = p
        <5>1. SaveReceipt(p)
          BY <1>1, <3>2, <4>2, CalmGoesOn
        <5>2. job[p].request = boundBy[s]
          BY <2>1, <3>2, <4>2 DEF ReceiptsInv
        <5>3. PICK r \in Rows(receipts') :
                r.session = job[p].session /\ r.request = job[p].request
          BY <5>1, ReceiptRows
        <5> QED
          BY <2>3, <3>2, <4>2, <5>2, <5>3
      <4> QED
        BY <4>1, <4>2
    <3> QED
      BY <2>1, <2>3, <3>1, <3>2 DEF RequestsInv
  <2> QED
    BY <2>2, <2>3, BoundGrows
<1>2. ASSUME NEW q \in Server, pc'[q] = "find binding", job'[q].session \in Serial',
             NEW r \in Rows(receipts'), r.session = job'[q].session,
             r.request = job'[q].request
      PROVE  FALSE
  <2>1. CASE q = p
    <3>1. FindReceipt(p) /\ job'[p] = job[p]
      <4>1. ASSUME NEW s \in Session, NEW g \in Greeting, NEW t \in Request, NEW c \in Source,
                   Begin(p, s, g, t, c)
            PROVE  FALSE
        BY <1>2, <2>1, <4>1, BeginSets
      <4> QED
        BY <1>2, <2>1, <4>1, Advances DEF Moves
    <3>2. receipts' = receipts
      BY <3>1 DEF FindReceipt, tables
    <3> QED
      BY <1>2, <2>1, <3>1, <3>2, NoReceiptFound
  <2>2. CASE q # p
    <3>1. pc[q] = "find binding" /\ job'[q] = job[q] /\ job[q].session \in Serial
      BY <1>2, <2>2, OthersWait, HistoryGrows
    <3>2. r \notin Rows(receipts)
      BY <1>2, <3>1, ZenonT(40) DEF RequestsInv
    <3>3. SaveReceipt(p)
      BY <1>2, <3>2, Untouched
    <3>4. r.session = job[p].session /\ pc[p] = "receipt"
      BY <1>2, <3>2, <3>3, ReceiptRows DEF SaveReceipt
    <3> QED
      BY <1>2, <2>2, <3>1, <3>4 DEF SerialInv
  <2> QED
    BY <2>1, <2>2
<1> QED
  BY <1>1, <1>2 DEF RequestsInv

-----------------------------------------------------------------------------
LEMMA BootstrapInit == Init => BootstrapInv
<1> SUFFICES ASSUME Init PROVE BootstrapInv
  OBVIOUS
<1>1. Bound = {} /\ Rows(openings) = {} /\ Rows(worldbooks) = {} /\ Rows(receipts) = {}
  BY DEF Init, Bound, Rows
<1>2. \A p \in Server : pc[p] = "idle"
  BY DEF Init
<1>3. Len(receipts) = 0
  BY DEF Init
<1>4. TypeOK
  BY TypeInit
<1>5. PartsInv /\ CardsInv /\ SerialInv
  BY <1>1, <1>2 DEF PartsInv, Written, CardsInv, SerialInv
<1>6. ReceiptsInv /\ RowsInv /\ RequestsInv
  BY <1>1, <1>2, <1>3 DEF ReceiptsInv, RowsInv, RequestsInv
<1> QED
  BY <1>4, <1>5, <1>6 DEF BootstrapInv

LEMMA BootstrapStep == BootstrapInv /\ [Next]_vars => BootstrapInv'
<1> SUFFICES ASSUME BootstrapInv, [Next]_vars PROVE BootstrapInv'
  OBVIOUS
<1>1. TypeOK'
  BY TypeStep DEF BootstrapInv
<1>2. ASSUME NEW p \in Server, Moves(p) PROVE BootstrapInv'
  BY <1>1, <1>2, PartsStep, CardsStep, SerialStep, ReceiptsStep, RowsStep, RequestsStep
     DEF BootstrapInv
<1>3. CASE UNCHANGED vars
  <2> USE DEF vars, tables
  <2>1. Bound' = Bound /\ Serial' = Serial /\ Calm' = Calm
    BY <1>3 DEF Bound, Serial, Calm
  <2>2. PartsInv'
    BY <1>3, <2>1, ZenonT(40) DEF BootstrapInv, PartsInv, Written, HasParts
  <2>3. CardsInv'
    BY <1>3, <2>1 DEF BootstrapInv, CardsInv
  <2>4. SerialInv'
    BY <1>3, <2>1 DEF BootstrapInv, SerialInv
  <2>5. ReceiptsInv'
    BY <1>3, <2>1 DEF BootstrapInv, ReceiptsInv
  <2>6. RowsInv'
    BY <1>3, <2>1 DEF BootstrapInv, RowsInv
  <2>7. RequestsInv'
    BY <1>3, <2>1 DEF BootstrapInv, RequestsInv
  <2> QED
    BY <1>1, <2>2, <2>3, <2>4, <2>5, <2>6, <2>7 DEF BootstrapInv
<1> QED
  BY <1>2, <1>3 DEF Next, Moves

(* At every moment, whatever executions overlap or die, the tables and the *)
(* executions under way are related as the parts of BootstrapInv say.      *)
THEOREM BootstrapInvariant == Spec => []BootstrapInv
BY BootstrapInit, BootstrapStep, PTL DEF Spec

-----------------------------------------------------------------------------
(* What the invariant says of a bound session.                             *)

(* Every row a binding names is found by the query the loader makes.       *)
LEMMA PartsAreFound ==
  ASSUME TypeOK, PartsInv, NEW s \in Bound
  PROVE  /\ \E d \in definitions : d.card = bindings[s].card /\ d.source = bindings[s].source
         /\ Found(openings, LAMBDA r : r.session = s /\ r.greeting = bindings[s].greeting)
         /\ Found(worldbooks, LAMBDA r : r.session = s /\ r.card = bindings[s].card)
<1> DEFINE I == {i \in 1..Len(openings) :
                   openings[i].session = s /\ openings[i].greeting = bindings[s].greeting}
           K == {i \in 1..Len(worldbooks) :
                   worldbooks[i].session = s /\ worldbooks[i].card = bindings[s].card}
<1>1. HasParts(s)
  BY DEF PartsInv
<1>2. I # {} /\ K # {}
  BY <1>1 DEF HasParts, Rows
<1>3. /\ Len(openings) \in Nat /\ I \in SUBSET (1..Len(openings))
      /\ Len(worldbooks) \in Nat /\ K \in SUBSET (1..Len(worldbooks))
  BY LenProperties DEF TypeOK
<1>4. /\ (IF I # {} THEN Min(I) ELSE 0) # 0
      /\ (IF K # {} THEN Min(K) ELSE 0) # 0
  <2> HIDE DEF I, K
  <2> QED
    BY <1>2, <1>3, LowestPlace
<1>5. Found(openings, LAMBDA r : r.session = s /\ r.greeting = bindings[s].greeting)
  BY <1>4 DEF Found, SelectInSeq
<1>6. Found(worldbooks, LAMBDA r : r.session = s /\ r.card = bindings[s].card)
  BY <1>4 DEF Found, SelectInSeq
<1>7. \E d \in definitions : d.card = bindings[s].card /\ d.source = bindings[s].source
  BY <1>1 DEF HasParts
<1> QED
  BY <1>5, <1>6, <1>7

(* A binding never dangles: the definition, the opening and the worldbook  *)
(* binding it names are stored at every moment, whichever executions for   *)
(* the session overlap, and whatever dies between two of the five inserts. *)
THEOREM BindingsNeverDangle == Spec => []BindingHasItsParts
<1>1. BootstrapInv => BindingHasItsParts
  BY PartsAreFound DEF BootstrapInv, BindingHasItsParts
<1> QED
  BY <1>1, BootstrapInvariant, PTL

(* A receipt of a session whose executions never overlapped names what the *)
(* session is bound to, and is its only receipt: a retry under another     *)
(* request id is refused before it can write a second one.                 *)
THEOREM ReceiptsTellBindings == Spec => []ReceiptsAgree
<1>1. BootstrapInv => ReceiptsAgree
  <2> SUFFICES ASSUME BootstrapInv, NEW i \in 1..Len(receipts),
                      receipts[i].session \in Serial
               PROVE  /\ receipts[i].session \in Bound
                      /\ receipts[i].card = bindings[receipts[i].session].card
                      /\ receipts[i].greeting = bindings[receipts[i].session].greeting
                      /\ \A k \in 1..Len(receipts) :
                           receipts[k].session = receipts[i].session => k = i
    BY DEF ReceiptsAgree
  <2>1. receipts[i] \in Rows(receipts)
    BY DEF Rows
  <2> QED
    BY <2>1 DEF BootstrapInv, ReceiptsInv
<1> QED
  BY <1>1, BootstrapInvariant, PTL

LEMMA OpeningIsFound ==
  ASSUME TypeOK, NEW s, \E r \in Rows(openings) : r.session = s
  PROVE  /\ Found(openings, LAMBDA r : r.session = s)
         /\ OpeningOf(s) \in Rows(openings) /\ OpeningOf(s).session = s
<1> DEFINE I == {i \in 1..Len(openings) : openings[i].session = s}
           place == IF I # {} THEN Min(I) ELSE 0
<1>1. I # {} /\ Len(openings) \in Nat /\ I \in SUBSET (1..Len(openings))
  <2>1. PICK r \in Rows(openings) : r.session = s
    OBVIOUS
  <2>2. PICK i \in 1..Len(openings) : openings[i].session = s
    BY <2>1 DEF Rows
  <2>3. Len(openings) \in Nat
    BY LenProperties DEF TypeOK
  <2> QED
    BY <2>2, <2>3
<1>2. place # 0 /\ place \in I
  <2> HIDE DEF I
  <2> QED
    BY <1>1, LowestPlace
<1>3. Found(openings, LAMBDA r : r.session = s)
  BY <1>2 DEF Found, SelectInSeq
<1>4. OpeningOf(s) = openings[place]
  BY DEF OpeningOf, First, SelectInSeq
<1>5. openings[place] \in Rows(openings) /\ openings[place].session = s
  <2> HIDE DEF place
  <2> QED
    BY <1>2 DEF Rows
<1> QED
  BY <1>3, <1>4, <1>5

LEMMA WorldbookIsFound ==
  ASSUME TypeOK, NEW s, \E r \in Rows(worldbooks) : r.session = s
  PROVE  /\ Found(worldbooks, LAMBDA r : r.session = s)
         /\ WorldbookOf(s) \in Rows(worldbooks) /\ WorldbookOf(s).session = s
<1> DEFINE I == {i \in 1..Len(worldbooks) : worldbooks[i].session = s}
           place == IF I # {} THEN Min(I) ELSE 0
<1>1. I # {} /\ Len(worldbooks) \in Nat /\ I \in SUBSET (1..Len(worldbooks))
  <2>1. PICK r \in Rows(worldbooks) : r.session = s
    OBVIOUS
  <2>2. PICK i \in 1..Len(worldbooks) : worldbooks[i].session = s
    BY <2>1 DEF Rows
  <2>3. Len(worldbooks) \in Nat
    BY LenProperties DEF TypeOK
  <2> QED
    BY <2>2, <2>3
<1>2. place # 0 /\ place \in I
  <2> HIDE DEF I
  <2> QED
    BY <1>1, LowestPlace
<1>3. Found(worldbooks, LAMBDA r : r.session = s)
  BY <1>2 DEF Found, SelectInSeq
<1>4. WorldbookOf(s) = worldbooks[place]
  BY DEF WorldbookOf, First, SelectInSeq
<1>5. worldbooks[place] \in Rows(worldbooks) /\ worldbooks[place].session = s
  <2> HIDE DEF place
  <2> QED
    BY <1>2 DEF Rows
<1> QED
  BY <1>3, <1>4, <1>5

(* A session whose executions neither overlapped nor died is loadable from *)
(* the moment it is bound, by queries that do not mention the ids of the   *)
(* binding: the first opening and the first worldbook binding of the       *)
(* session are those of its binding.                                       *)
THEOREM ReadySessionsLoad == Spec => []ReadySessionLoads
<1>1. BootstrapInv => ReadySessionLoads
  <2> SUFFICES ASSUME BootstrapInv, NEW s \in Bound, s \in Calm
               PROVE  Loads(s) /\ OpeningOf(s).greeting = bindings[s].greeting
    BY DEF ReadySessionLoads
  <2> USE DEF BootstrapInv
  <2>1. s \in Serial /\ HasParts(s)
    BY CalmIsSerial DEF PartsInv
  <2>2. \A p \in Server : pc[p] \in {"worldbook", "binding"} => job[p].session # s
    BY <2>1 DEF SerialInv
  <2>3. /\ Found(openings, LAMBDA r : r.session = s)
        /\ OpeningOf(s) \in Rows(openings) /\ OpeningOf(s).session = s
    BY <2>1, OpeningIsFound DEF HasParts
  <2>4. /\ Found(worldbooks, LAMBDA r : r.session = s)
        /\ WorldbookOf(s) \in Rows(worldbooks) /\ WorldbookOf(s).session = s
    BY <2>1, WorldbookIsFound DEF HasParts
  <2>5. OpeningOf(s).greeting = bindings[s].greeting
    BY <2>2, <2>3 DEF RowsInv
  <2>6. WorldbookOf(s).source = bindings[s].source
    BY <2>2, <2>4 DEF RowsInv
  <2>7. \E d \in definitions : d.card = bindings[s].card /\ d.source = bindings[s].source
    BY PartsAreFound
  <2> QED
    BY <2>3, <2>4, <2>5, <2>6, <2>7 DEF Loads
<1> QED
  BY <1>1, BootstrapInvariant, PTL

(* What a session is bound to never changes while its executions run one   *)
(* at a time, whatever died before: the check of the binding and the       *)
(* insert of another one are seven statements apart, and no other          *)
(* execution of the session can be between them.                           *)
THEOREM BoundSessionsStayBound == Spec => BindingImmutable
<1> DEFINE Keeps == \A s \in Bound \cap Serial' : bindings'[s] = bindings[s]
<1>1. ASSUME BootstrapInv, [Next]_vars PROVE [Keeps]_vars
  <2>1. ASSUME NEW p \in Server, Moves(p) PROVE Keeps
    BY <1>1, <2>1, HistoryGrows, SerialStaysBound DEF BootstrapInv
  <2>2. Next => \E p \in Server : Moves(p)
    BY DEF Next, Moves
  <2> QED
    BY <1>1, <2>1, <2>2
<1>2. Spec => [][Keeps]_vars
  <2> HIDE DEF Keeps
  <2> QED
    BY <1>1, BootstrapInvariant, PTL DEF Spec
<1> QED
  BY <1>2 DEF BindingImmutable

(* A version conflict is the answer of the check of the binding.           *)
LEMMA ConflictIsOfBinding ==
  ASSUME TypeOK, NEW q \in Server, Moves(q), NEW p \in Server, Refused(p)
  PROVE  FindBinding(p) /\ pc[p] = "find binding" /\ job[p].session \in Bound
<1>1. p = q
  BY OthersWait DEF Refused
<1> USE DEF TypeOK, Goto, Return, Refused
<1>2. ASSUME NEW s \in Session, NEW g \in Greeting, NEW r \in Request, NEW c \in Source,
             Begin(p, s, g, r, c)
      PROVE  FALSE
  BY <1>2 DEF Begin
<1>3. ASSUME SaveDefinition(p) \/ FindReceipt(p) PROVE FALSE
  BY <1>3 DEF SaveDefinition, FindReceipt
<1>4. ASSUME SaveOpening(p) \/ SaveWorldbook(p) \/ SaveBinding(p) PROVE FALSE
  BY <1>4 DEF SaveOpening, SaveWorldbook, SaveBinding
<1>5. ASSUME SaveReceipt(p) \/ Crash(p) PROVE FALSE
  BY <1>5 DEF SaveReceipt, Crash
<1>6. FindBinding(p)
  BY <1>1, <1>2, <1>3, <1>4, <1>5 DEF Moves, Step
<1>7. pc[p] = "find binding" /\ bindings[job[p].session] # Nothing
  BY <1>6 DEF FindBinding
<1>8. job[p].session \in Session
  BY <1>7, JobIsTyped
<1> QED
  BY <1>6, <1>7, <1>8 DEF Bound

(* A retry is not refused for what its own first attempt wrote: in a calm  *)
(* session the request that bound it left its receipt before it let go, so *)
(* the same request is answered before the binding is looked at.           *)
THEOREM RetriesAreNotRefused == Spec => RetrySucceeds
<1> DEFINE Accepts == \A p \in Server :
                        Refused(p) /\ job[p].session \in Calm
                          => boundBy[job[p].session] # job[p].request
<1>1. ASSUME BootstrapInv, [Next]_vars PROVE [Accepts]_vars
  <2>1. ASSUME NEW q \in Server, Moves(q), NEW p \in Server, Refused(p),
               job[p].session \in Calm, boundBy[job[p].session] = job[p].request
        PROVE  FALSE
    <3>1. pc[p] = "find binding" /\ job[p].session \in Bound
      BY <1>1, <2>1, ConflictIsOfBinding DEF BootstrapInv
    <3>2. job[p].session \in Serial
      BY <2>1, CalmIsSerial
    <3>3. ASSUME NEW o \in Server, pc[o] = "receipt", job[o].session = job[p].session
          PROVE  FALSE
      BY <1>1, <3>1, <3>2, <3>3 DEF BootstrapInv, SerialInv
    <3>4. PICK r \in Rows(receipts) :
            r.session = job[p].session /\ r.request = boundBy[job[p].session]
      BY <1>1, <2>1, <3>1, <3>3 DEF BootstrapInv, RequestsInv
    <3> QED
      BY <1>1, <2>1, <3>1, <3>2, <3>4 DEF BootstrapInv, RequestsInv
  <2>2. Next => \E q \in Server : Moves(q)
    BY DEF Next, Moves
  <2> QED
    BY <1>1, <2>1, <2>2
<1>2. Spec => [][Accepts]_vars
  <2> HIDE DEF Accepts
  <2> QED
    BY <1>1, BootstrapInvariant, PTL DEF Spec
<1> QED
  BY <1>2 DEF RetrySucceeds

=============================================================================
