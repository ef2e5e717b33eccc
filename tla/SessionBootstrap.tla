---------------------------- MODULE SessionBootstrap ----------------------------
(***************************************************************************)
(* The persistent bootstrap node and CardSessionBootstrapPipeline over the *)
(* SQLite session stores: a card is imported under a fresh logical card id *)
(* and a session is bound to it by five inserts, each committed by itself. *)
(* A session bound here is what PersistentTurn calls Bound.                *)
(***************************************************************************)
EXTENDS Integers, Sequences, SequencesExt

CONSTANTS
  Server,     \* processes that opened the database file
  Session,    \* session ids
  Request,    \* request ids, the idempotency keys
  Source,     \* card files, told apart by their source hash
  Greeting,   \* greeting ids
  Offered,    \* Offered[c]: greetings of card file c
  Nothing,    \* no binding; the local variables of an idle server
  MaxRuns,    \* bound of the model: node executions started
  Faults      \* "crash": the process dies, or a statement raises

ASSUME OfferedAssumption == Offered \in [Source -> SUBSET Greeting]
ASSUME MaxRunsAssumption == MaxRuns \in Nat
ASSUME FaultsAssumption == Faults \subseteq {"crash"}

VARIABLES
  definitions,  \* card_definitions: logical card id and source
  openings,     \* opening_records in rowid order
  worldbooks,   \* worldbook_bindings in rowid order
  bindings,     \* bindings[s]: row of card_session_bindings
  receipts,     \* bootstrap_receipts in rowid order
  pc,           \* pc[p]: the statement server p executes next
  job,          \* job[p]: the request p serves
  reply,        \* reply[p]: how the last execution of p ended
  runs,         \* executions started; the source of fresh card ids
  boundBy,      \* history: boundBy[s]: request whose execution bound s
  disturbed     \* history: disturbed[s]: whether executions for s overlapped,
                \* or one of them died

tables == <<definitions, openings, worldbooks, bindings, receipts>>
vars == <<tables, pc, job, reply, runs, boundBy, disturbed>>

(* A uuid: the number of the execution that drew it.                       *)
Card == 1..MaxRuns

Job == [session: Session, greeting: Greeting, request: Request,
        source: Source, card: Card]

Binding == [card: Card, source: Source, greeting: Greeting]

ASSUME NothingAssumption == Nothing \notin Job \cup Binding \cup Request

Init ==
  /\ definitions = {}
  /\ openings = <<>>
  /\ worldbooks = <<>>
  /\ bindings = [s \in Session |-> Nothing]
  /\ receipts = <<>>
  /\ pc = [p \in Server |-> "idle"]
  /\ job = [p \in Server |-> Nothing]
  /\ reply = [p \in Server |-> "none"]
  /\ runs = 0
  /\ boundBy = [s \in Session |-> Nothing]
  /\ disturbed = [s \in Session |-> {}]

Goto(p, label) == pc' = [pc EXCEPT ![p] = label] /\ UNCHANGED <<job, reply>>

Return(p, answer) ==
  /\ pc' = [pc EXCEPT ![p] = "idle"]
  /\ job' = [job EXCEPT ![p] = Nothing]
  /\ reply' = [reply EXCEPT ![p] = answer]

(* INSERT OR REPLACE: a row with the same key leaves, the new row gets the *)
(* highest rowid.                                                          *)
InsertOrReplace(table, row, SameKey(_)) ==
  LET same == {i \in 1..Len(table) : SameKey(table[i])} IN
  Append(IF same = {} THEN table ELSE RemoveAt(table, CHOOSE i \in same : TRUE), row)

(* SELECT ... WHERE ... LIMIT 1 over an index: the row of lowest rowid.    *)
Found(table, Test(_)) == SelectInSeq(table, Test) # 0

First(table, Test(_)) == table[SelectInSeq(table, Test)]

-----------------------------------------------------------------------------
(* The card is parsed and its definition stored under a new id before the  *)
(* pipeline looks whether the request was served.                          *)
Begin(p, s, g, r, c) ==
  /\ pc[p] = "idle"
  /\ runs < MaxRuns
  /\ runs' = runs + 1
  /\ job' = [job EXCEPT ![p] = [session |-> s, greeting |-> g, request |-> r,
                                source |-> c, card |-> runs + 1]]
  /\ reply' = [reply EXCEPT ![p] = "none"]
  /\ pc' = [pc EXCEPT ![p] = "define"]
  /\ disturbed' = IF \E q \in Server : pc[q] # "idle" /\ job[q].session = s
                  THEN [disturbed EXCEPT ![s] = @ \cup {"overlap"}]
                  ELSE disturbed
  /\ UNCHANGED <<tables, boundBy>>

SaveDefinition(p) ==
  /\ pc[p] = "define"
  /\ definitions' = definitions \cup {[card |-> job[p].card, source |-> job[p].source]}
  /\ Goto(p, "find receipt")
  /\ UNCHANGED <<openings, worldbooks, bindings, receipts, runs, boundBy, disturbed>>

(* Mutation of FindReceipt: the receipt has to be of the card at hand.     *)
FindReceiptOfCard(p) ==
  /\ pc[p] = "find receipt"
  /\ IF Found(receipts, LAMBDA r : r.request = job[p].request /\ r.card = job[p].card)
     THEN Return(p, "reused")
     ELSE Goto(p, "find binding")
  /\ UNCHANGED <<tables, runs, boundBy, disturbed>>

(* Step 0: a request with a receipt is answered by it.  Steps 1 to 4 find  *)
(* the definition this execution stored, ready and with its own hash.      *)
FindReceipt(p) ==
  /\ pc[p] = "find receipt"
  /\ IF Found(receipts, LAMBDA r : r.request = job[p].request)
     THEN Return(p, "reused")
     ELSE Goto(p, "find binding")
  /\ UNCHANGED <<tables, runs, boundBy, disturbed>>

(* Mutation of FindBinding: a binding of another card is not looked for.   *)
FindBindingUnchecked(p) ==
  /\ pc[p] = "find binding"
  /\ IF job[p].greeting \notin Offered[job[p].source]
     THEN Return(p, "greeting not found")
     ELSE Goto(p, "opening")
  /\ UNCHANGED <<tables, runs, boundBy, disturbed>>

(* Steps 5 and 6: a ready binding to another card is a conflict; then the  *)
(* greeting has to be one of the card.                                     *)
FindBinding(p) ==
  LET bound == bindings[job[p].session]
      conflict == bound # Nothing /\ bound.card # job[p].card
  IN
  /\ pc[p] = "find binding"
  /\ \/ conflict /\ Return(p, "version conflict")
     \/ /\ ~conflict
        /\ IF job[p].greeting \notin Offered[job[p].source]
           THEN Return(p, "greeting not found")
           ELSE Goto(p, "opening")
  /\ UNCHANGED <<tables, runs, boundBy, disturbed>>

(* Steps 8 to 11.  The id of an opening is made of session and greeting,   *)
(* that of a worldbook binding of session and card.                        *)
SaveOpening(p) ==
  LET j == job[p] IN
  /\ pc[p] = "opening"
  /\ openings' = InsertOrReplace(openings,
                   [session |-> j.session, greeting |-> j.greeting, card |-> j.card],
                   LAMBDA r : r.session = j.session /\ r.greeting = j.greeting)
  /\ Goto(p, "worldbook")
  /\ UNCHANGED <<definitions, worldbooks, bindings, receipts, runs, boundBy, disturbed>>

(* Mutation of SaveWorldbook: the row is keyed by the session alone and an *)
(* existing one is kept.                                                   *)
SaveWorldbookIfAbsent(p) ==
  LET j == job[p] IN
  /\ pc[p] = "worldbook"
  /\ worldbooks' = IF Found(worldbooks, LAMBDA r : r.session = j.session)
                   THEN worldbooks
                   ELSE Append(worldbooks, [session |-> j.session, card |-> j.card,
                                            source |-> j.source])
  /\ Goto(p, "binding")
  /\ UNCHANGED <<definitions, openings, bindings, receipts, runs, boundBy, disturbed>>

SaveWorldbook(p) ==
  LET j == job[p] IN
  /\ pc[p] = "worldbook"
  /\ worldbooks' = InsertOrReplace(worldbooks,
                     [session |-> j.session, card |-> j.card, source |-> j.source],
                     LAMBDA r : r.session = j.session /\ r.card = j.card)
  /\ Goto(p, "binding")
  /\ UNCHANGED <<definitions, openings, bindings, receipts, runs, boundBy, disturbed>>

SaveBinding(p) ==
  LET j == job[p] IN
  /\ pc[p] = "binding"
  /\ bindings' = [bindings EXCEPT ![j.session] =
                    [card |-> j.card, source |-> j.source, greeting |-> j.greeting]]
  /\ boundBy' = [boundBy EXCEPT ![j.session] = j.request]
  /\ Goto(p, "receipt")
  /\ UNCHANGED <<definitions, openings, worldbooks, receipts, runs, disturbed>>

SaveReceipt(p) ==
  LET j == job[p] IN
  /\ pc[p] = "receipt"
  /\ receipts' = InsertOrReplace(receipts,
                   [request |-> j.request, session |-> j.session,
                    card |-> j.card, greeting |-> j.greeting],
                   LAMBDA r : r.request = j.request /\ r.session = j.session)
  /\ Return(p, "success")
  /\ UNCHANGED <<definitions, openings, worldbooks, bindings, runs, boundBy, disturbed>>

Crash(p) ==
  /\ "crash" \in Faults
  /\ pc[p] # "idle"
  /\ Return(p, "crashed")
  /\ disturbed' = [disturbed EXCEPT ![job[p].session] = @ \cup {"crash"}]
  /\ UNCHANGED <<tables, runs, boundBy>>

Step(p) ==
  \/ SaveDefinition(p) \/ FindReceipt(p) \/ FindBinding(p) \/ SaveOpening(p)
  \/ SaveWorldbook(p) \/ SaveBinding(p) \/ SaveReceipt(p)

Next ==
  \E p \in Server :
    \/ \E s \in Session, g \in Greeting, r \in Request, c \in Source :
         Begin(p, s, g, r, c)
    \/ Step(p)
    \/ Crash(p)

Spec == Init /\ [][Next]_vars

FairSpec == Spec /\ \A p \in Server : WF_vars(Step(p))

-----------------------------------------------------------------------------
(* SessionRuntimeLoad over what the bootstrap left: the binding, then the  *)
(* first opening and the first worldbook binding of the session, whichever *)
(* ids the binding names; VersionLockedWorldbookResolver refuses a         *)
(* worldbook binding of another source hash.                               *)
Bound == {s \in Session : bindings[s] # Nothing}

OpeningOf(s) == First(openings, LAMBDA r : r.session = s)

WorldbookOf(s) == First(worldbooks, LAMBDA r : r.session = s)

Loads(s) ==
  /\ s \in Bound
  /\ Found(openings, LAMBDA r : r.session = s)
  /\ Found(worldbooks, LAMBDA r : r.session = s)
  /\ \E d \in definitions : d.card = bindings[s].card /\ d.source = bindings[s].source
  /\ WorldbookOf(s).source = bindings[s].source

(* Every variable has its type, and a server has a request exactly while   *)
(* it executes one.                                                        *)
TypeOK ==
  /\ definitions \subseteq [card: Card, source: Source]
  /\ openings \in Seq([session: Session, greeting: Greeting, card: Card])
  /\ worldbooks \in Seq([session: Session, card: Card, source: Source])
  /\ bindings \in [Session -> Binding \cup {Nothing}]
  /\ receipts \in Seq([request: Request, session: Session, card: Card,
                       greeting: Greeting])
  /\ pc \in [Server -> {"idle", "define", "find receipt", "find binding",
                        "opening", "worldbook", "binding", "receipt"}]
  /\ job \in [Server -> Job \cup {Nothing}]
  /\ \A p \in Server : (pc[p] = "idle") <=> (job[p] = Nothing)
  /\ reply \in [Server -> {"none", "reused", "version conflict", "success",
                           "greeting not found", "crashed"}]
  /\ runs \in 0..MaxRuns
  /\ boundBy \in [Session -> Request \cup {Nothing}]
  /\ disturbed \in [Session -> SUBSET {"overlap", "crash"}]

(* A binding never dangles: the card definition, the opening record and    *)
(* the worldbook binding it refers to are stored, at every moment and      *)
(* whichever bootstraps of the session overlap or died.                    *)
BindingHasItsParts ==
  \A s \in Bound :
    /\ \E d \in definitions : d.card = bindings[s].card /\ d.source = bindings[s].source
    /\ Found(openings, LAMBDA r : r.session = s /\ r.greeting = bindings[s].greeting)
    /\ Found(worldbooks, LAMBDA r : r.session = s /\ r.card = bindings[s].card)

(* The sessions the following properties are about: those no two           *)
(* executions of which overlapped; of these, those none of which died.     *)
Serial == {s \in Session : "overlap" \notin disturbed[s]}

Calm == {s \in Session : disturbed[s] = {}}

(* Once a session is ready, its card, version and source hash are          *)
(* immutable, whatever crashes between and happens to other sessions.      *)
BindingImmutable ==
  [][\A s \in Bound \cap Serial' : bindings'[s] = bindings[s]]_vars

(* The receipts and the bindings tell the same story: a receipt names the  *)
(* card and the greeting its session is bound to, and a session has        *)
(* receipts of one bootstrap at most.                                      *)
ReceiptsAgree ==
  \A i \in 1..Len(receipts) :
    LET r == receipts[i] IN
    r.session \in Serial =>
      /\ r.session \in Bound
      /\ r.card = bindings[r.session].card
      /\ r.greeting = bindings[r.session].greeting
      /\ \A k \in 1..Len(receipts) : receipts[k].session = r.session => k = i

(* A ready session loads, and what is loaded is what the binding names.    *)
ReadySessionLoads ==
  \A s \in Bound \cap Calm :
    Loads(s) /\ OpeningOf(s).greeting = bindings[s].greeting

Refused(p) == reply[p] # "version conflict" /\ reply'[p] = "version conflict"

(* A retry of a bootstrap is not refused because of what an earlier        *)
(* attempt of the same request wrote.                                      *)
RetrySucceeds ==
  [][\A p \in Server :
       Refused(p) /\ job[p].session \in Calm
         => boundBy[job[p].session] # job[p].request]_vars

=============================================================================
