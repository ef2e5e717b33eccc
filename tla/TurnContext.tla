------------------------------ MODULE TurnContext ------------------------------
(***************************************************************************)
(* What a turn is told: SessionRuntimeLoad lets the resolver choose the    *)
(* entries of the bound worldbook, and RoundSnapshotBuilder recalls        *)
(* memories of both layers and assembles the context.  The worldbook has   *)
(* the ids the card parser gave its entries, in the order of the card.     *)
(* Entries with a condition are left out: the parser makes none.           *)
(***************************************************************************)
EXTENDS Integers, FiniteSets, SequencesExt

CONSTANTS
  Book,         \* worldbooks: sequences of entries
  NoUid,        \* an entry the card gives no uid
  EntryChars,   \* ResolverBudget.max_entry_chars
  TotalChars,   \* ResolverBudget.max_total_chars
  Memory,       \* stored memories; the higher is the more important
  ActiveLimit,  \* max_active_memories, of the request and of the assembler
  RagLimit,     \* limit of the RAG request, and max_rag of the assembler
  Quality,      \* how well the full-text search finds a text matches, -bm25
  ScoreCap,     \* the match from which on the score is 0, 10 in the code
  RankScore,    \* _rank_score: of importance and confidence together
  Unsearched    \* no text was found by the full-text search

(* An entry of the card; "keyed" is one with a key, "unknown" one with     *)
(* secondary keys or activation fields the resolver does not support.      *)
BookEntry ==
  [uid: Int \cup {NoUid}, priority: Int, chars: Nat, constant: BOOLEAN, selective: BOOLEAN,
   keyed: BOOLEAN, enabled: BOOLEAN, unknown: BOOLEAN]

ASSUME ContextAssumption ==
  /\ Book \subseteq Seq(BookEntry)
  /\ {EntryChars, TotalChars, ActiveLimit, RagLimit} \subseteq Nat
  /\ Memory \subseteq Int /\ IsFiniteSet(Memory)
  /\ Quality \subseteq Nat /\ ScoreCap \in Nat
  /\ RankScore \in [Memory -> Int]
  /\ \A set \in SUBSET Memory : Unsearched \notin [set -> Quality]

VARIABLES
  contextStage,  \* where load is
  book,          \* entries of the binding, which are those of its definition
  heard,         \* places of entries a key of which occurs in input or history
  candidates,    \* places still to be resolved, best first
  used,          \* total_budget
  activated,     \* activated_content: pairs of id and place of the content
  rejected,      \* rejected: pairs of id and reason
  matched,       \* matched[l]: memories of layer l that pass the filters
  match,         \* how well the RAG memories match, or Unsearched
  recalled,      \* recalled[l]: the hits of layer l
  touched,       \* touched[l]: memories whose recall count went up
  shown          \* shown[l]: memories of layer l in the snapshot

bookVars == <<book, heard, candidates, used, activated, rejected>>
memoryVars == <<matched, match, recalled, touched, shown>>
contextVars == <<contextStage, bookVars, memoryVars>>

ContextStage ==
  {"load", "resolve", "recall", "recallRag", "assemble", "done", "failed"}

Layer == {"active", "rag"}

NoMemories == [l \in Layer |-> {}]

Limit(l) == IF l = "active" THEN ActiveLimit ELSE RagLimit

-----------------------------------------------------------------------------
(* The card parser: an entry without uid is named after its place, so two  *)
(* entries may share an id.  A dictionary over the catalog keeps the last. *)
EntryId(b, i) == IF b[i].uid = NoUid THEN i - 1 ELSE b[i].uid

Place(b, i) == CHOOSE k \in DOMAIN b :
  /\ EntryId(b, k) = EntryId(b, i)
  /\ \A m \in DOMAIN b : EntryId(b, m) = EntryId(b, i) => m <= k

Entry(b, i) == b[Place(b, i)]

(* The key of the sort; the sort is stable.                                *)
SortKey(b, i) ==
  <<IF b[i].constant THEN 0 ELSE 1, -Entry(b, i).priority, Place(b, i), i>>

(* Mutation of Ahead: constants are not put first.                        *)
AheadByPriority(b, i, k) ==
  \E n \in 2..4 : /\ SortKey(b, i)[n] < SortKey(b, k)[n]
                  /\ \A m \in 2..(n - 1) : SortKey(b, i)[m] = SortKey(b, k)[m]

Ahead(b, i, k) ==
  \E n \in 1..4 : /\ SortKey(b, i)[n] < SortKey(b, k)[n]
                  /\ \A m \in 1..(n - 1) : SortKey(b, i)[m] = SortKey(b, k)[m]

Sorted(b) ==
  [n \in DOMAIN b |->
     CHOOSE i \in DOMAIN b : Cardinality({k \in DOMAIN b : Ahead(b, k, i)}) = n - 1]

ContextInit ==
  /\ contextStage = "load"
  /\ book = <<>> /\ heard = {} /\ candidates = <<>>
  /\ used = 0 /\ activated = <<>> /\ rejected = {}
  /\ matched = NoMemories /\ match = Unsearched /\ recalled = NoMemories
  /\ touched = NoMemories /\ shown = NoMemories

ContextForgotten ==
  /\ contextStage' = "load"
  /\ book' = <<>> /\ heard' = {} /\ candidates' = <<>>
  /\ used' = 0 /\ activated' = <<>> /\ rejected' = {}
  /\ matched' = NoMemories /\ match' = Unsearched /\ recalled' = NoMemories
  /\ touched' = NoMemories /\ shown' = NoMemories

-----------------------------------------------------------------------------
(* A session that is not ready, or whose parts are missing or of another   *)
(* version, is not loaded (SessionBootstrap!Loads); the turn fails.        *)
LoadFails ==
  /\ contextStage = "load"
  /\ contextStage' = "failed"
  /\ UNCHANGED <<bookVars, memoryVars>>

LoadBook ==
  /\ contextStage = "load"
  /\ contextStage' = "resolve"
  /\ book' \in Book
  /\ heard' \in SUBSET {i \in DOMAIN book' : book'[i].keyed}
  /\ candidates' = Sorted(book')
  /\ UNCHANGED <<used, activated, rejected, memoryVars>>

(* The candidate, with the entry its id leads to.                          *)
Here == Head(candidates)
Id == EntryId(book, Here)
Found == Entry(book, Here)

Excerpt(e) == IF e.chars > EntryChars THEN EntryChars ELSE e.chars

(* The flag of the binding counts, not that of the entry found.            *)
Enabled == book[Here].enabled

(* Secondary keys, or activation fields the resolver does not know; a      *)
(* selective entry needs a key, a constant one never does.                 *)
Supported == ~Found.unknown

Called == ~Found.constant /\ Found.selective => Found.keyed /\ Place(book, Here) \in heard

Fits == used + Excerpt(Found) <= TotalChars

NotYet == \A n \in DOMAIN activated : activated[n].id # Id

LeaveOut(reason) ==
  /\ rejected' = {r \in rejected : r.id # Id} \cup {[id |-> Id, reason |-> reason]}
  /\ UNCHANGED <<used, activated>>

Activate ==
  /\ activated' = Append(activated, [id |-> Id, place |-> Place(book, Here)])
  /\ used' = used + Excerpt(Found)
  /\ UNCHANGED rejected

(* One candidate: the first reason to leave it out, or its content.        *)
ResolveEntry ==
  /\ contextStage = "resolve" /\ candidates # <<>>
  /\ candidates' = Tail(candidates)
  /\ \/ ~Enabled /\ LeaveOut("disabled")
     \/ Enabled /\ ~Supported /\ LeaveOut("unsupported")
     \/ Enabled /\ Supported /\ ~Called /\ LeaveOut("uncalled")
     \/ Enabled /\ Supported /\ Called /\ ~Fits /\ LeaveOut("budget")
     \/ Enabled /\ Supported /\ Called /\ Fits /\ ~NotYet /\ LeaveOut("duplicate")
     \/ Enabled /\ Supported /\ Called /\ Fits /\ NotYet /\ Activate
  /\ UNCHANGED <<contextStage, book, heard, memoryVars>>

EndResolve ==
  /\ contextStage = "resolve" /\ candidates = <<>>
  /\ contextStage' = "recall"
  /\ UNCHANGED <<bookVars, memoryVars>>

-----------------------------------------------------------------------------
(* _b25_to_score falls as the match gets better, and 0 is its floor; the   *)
(* active layer is sorted by importance alone.                             *)
Score(l, how, m) ==
  CASE l = "active" -> 0
    [] l = "rag" /\ how = Unsearched -> RankScore[m]
    [] OTHER -> IF how[m] < ScoreCap THEN ScoreCap - how[m] ELSE 0

Scores(l) == [m \in matched[l] |-> Score(l, match, m)]

(* The higher score, then the more important.                              *)
SortsBefore(score, n, m) == score[n] > score[m] \/ (score[n] = score[m] /\ n > m)

Best(score, set, limit) ==
  {m \in set : Cardinality({n \in set : SortsBefore(score, n, m)}) < limit}

(* The store filters by status, strength and words of the input, sorts,    *)
(* cuts at the limit of the request and counts a recall for each hit.      *)
Recall(l) ==
  /\ recalled' = [recalled EXCEPT ![l] = Best(Scores(l)', matched'[l], Limit(l))]
  /\ touched' = [touched EXCEPT ![l] = recalled'[l]]
  /\ UNCHANGED <<bookVars, shown>>

Matches(l) == matched' \in {[matched EXCEPT ![l] = set] : set \in SUBSET Memory}

RecallActive ==
  /\ contextStage = "recall"
  /\ contextStage' = "recallRag"
  /\ Matches("active") /\ UNCHANGED match
  /\ Recall("active")

(* Without a text in the full-text index that has all the words, or on an  *)
(* error of the search, texts with some of the words are taken instead.    *)
RecallRag ==
  /\ contextStage = "recallRag"
  /\ contextStage' = "assemble"
  /\ Matches("rag") /\ match' \in [matched'["rag"] -> Quality] \cup {Unsearched}
  /\ Recall("rag")

(* Without conflict signals and token budget, which build never passes,    *)
(* the assembler keeps the first that its own limits let through.          *)
Assemble ==
  /\ contextStage = "assemble"
  /\ contextStage' = "done"
  /\ shown' = [l \in Layer |-> Best(Scores(l), recalled[l], Limit(l))]
  /\ UNCHANGED <<bookVars, matched, match, recalled, touched>>

ContextNext ==
  \/ LoadFails \/ LoadBook \/ ResolveEntry \/ EndResolve
  \/ RecallActive \/ RecallRag \/ Assemble

-----------------------------------------------------------------------------
ContextTypeOK ==
  /\ contextStage \in ContextStage
  /\ book \in Book \cup {<<>>}
  /\ heard \subseteq DOMAIN book
  /\ candidates \in Seq(DOMAIN book)
  /\ used \in 0..TotalChars
  /\ activated \in Seq([id: Int, place: DOMAIN book])
  /\ \A r \in rejected : r.reason \in
       {"disabled", "unsupported", "uncalled", "budget", "duplicate"}
  /\ match \in [matched["rag"] -> Quality] \cup {Unsearched}
  /\ \A f \in {matched, recalled, touched, shown} : f \in [Layer -> SUBSET Memory]

-----------------------------------------------------------------------------
DistinctIds == \A i, k \in DOMAIN book : EntryId(book, i) = EntryId(book, k) => i = k

(* Constant entries come first, then the priority counts, then the card.   *)
Outranks(b, i, k) ==
  \/ b[i].constant /\ ~b[k].constant
  \/ /\ b[i].constant = b[k].constant
     /\ \/ b[i].priority > b[k].priority
        \/ b[i].priority = b[k].priority /\ i < k

Told == {a.place : a \in Range(activated)}

(* The characters of some of the entries.                                  *)
CharsOf(b, places) ==
  LET sum[n \in 0..Len(b)] ==
        IF n = 0 THEN 0 ELSE sum[n - 1] + (IF n \in places THEN Excerpt(b[n]) ELSE 0)
  IN sum[Len(b)]

(* Every entry is in the context or left out for a reason, and the budget  *)
(* takes nothing away from an entry that outranks the others: it only      *)
(* leaves out what does not fit beside the entries above it.               *)
BookIsTold ==
  /\ \A i \in DOMAIN book : i \in Told <=> ~\E r \in rejected : r.id = EntryId(book, i)
  /\ \A i \in Told : book[i].enabled
  /\ \A i \in DOMAIN book : [id |-> EntryId(book, i), reason |-> "budget"] \in rejected
       => CharsOf(book, {k \in Told : Outranks(book, k, i)}) + Excerpt(book[i]) > TotalChars

(* What puts n before m, seen from outside: in the active layer n is the   *)
(* more important; of two texts found without a search it is that or has   *)
(* the higher rank; of two that match the search equally well it is that.  *)
Precedes(l, n, m) ==
  CASE l = "active" -> n > m
    [] l = "rag" /\ match = Unsearched -> n > m \/ RankScore[n] > RankScore[m]
    [] OTHER -> match[n] = match[m] => n > m

(* No memory is shown in the place of one that precedes it, none is left   *)
(* out while there is room, and a recall is counted for those shown.       *)
BestAreShown ==
  \A l \in Layer :
    /\ shown[l] \subseteq matched[l] /\ Cardinality(shown[l]) <= Limit(l)
    /\ \A m \in matched[l] \ shown[l] :
         Cardinality(shown[l]) = Limit(l) /\ \A n \in shown[l] : Precedes(l, n, m)
    /\ touched[l] = shown[l]

(* The director and the writer see the best of the worldbook, and of       *)
(* memories the most important (of those the search finds, among equal     *)
(* matches), that the limits let through, unless two entries of the card   *)
(* share an id; then an entry is still told once at most, and the text     *)
(* stays within the budget.                                                *)
BestContext ==
  contextStage = "done" =>
    /\ CharsOf(book, Told) <= TotalChars /\ Cardinality(Told) = Len(activated)
    /\ DistinctIds => BookIsTold
    /\ BestAreShown

=============================================================================
