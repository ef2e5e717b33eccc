--------------------------- MODULE SuggestionReview ---------------------------
(***************************************************************************)
(* What becomes of the sub-agents' suggestions in the orchestrator:        *)
(* SuggestionMerger.merge takes them by falling score, one that names a    *)
(* state path already taken is a conflict; SuggestionConflictGovernor      *)
(* removes from the adopted ones what states facts, decides for the player *)
(* or contradicts the card state; the director's resolution names the      *)
(* accepted and the rejected.                                              *)
(***************************************************************************)
EXTENDS Integers, FiniteSets, Sequences

CONSTANTS
  Path,       \* paths of the card state
  Suggestion, \* what an agent may suggest: paths it changes, and its flaws
  MaxAdopted  \* MAX_ADOPTED

(* "banned": violates mustNotDo; "unproven": two risk flags, no evidence;  *)
(* "leak": a kind that may not state facts does; "agency": decides for the *)
(* player; "unsourced": three risk flags, no source.                       *)
Flaw == {"banned", "unproven", "leak", "agency", "unsourced"}

ASSUME ReviewAssumption ==
  /\ Suggestion \subseteq [paths: SUBSET Path, flaws: SUBSET Flaw]
  /\ MaxAdopted \in Nat

VARIABLES
  reviewStage, \* where the suggestions are
  items,       \* suggestions by falling score
  governed,    \* is there a governor and a resolution
  merged,      \* items classified so far
  taken,       \* taken[p]: the item that holds path p (adopted_paths)
  adopted, ignored, conflicts, \* the lists of the merge result
  resolution   \* accepted and rejected suggestions

reviewVars ==
  <<reviewStage, items, governed, merged, taken, adopted, ignored, conflicts, resolution>>

ReviewStage == {"waiting", "merging", "governing", "resolving", "done"}

NothingTaken == [p \in {} |-> 0]
NoResolution == [accepted |-> {}, rejected |-> {}]

ReviewInit ==
  /\ reviewStage = "waiting"
  /\ items = <<>>
  /\ governed = FALSE
  /\ merged = 0
  /\ taken = NothingTaken
  /\ adopted = {} /\ ignored = {} /\ conflicts = {}
  /\ resolution = NoResolution

(* The next component is at work: this one's locals are gone.              *)
ReviewForgotten ==
  /\ reviewStage' = "waiting"
  /\ items' = <<>>
  /\ governed' = FALSE
  /\ merged' = 0
  /\ taken' = NothingTaken
  /\ adopted' = {} /\ ignored' = {} /\ conflicts' = {}
  /\ resolution' = NoResolution

-----------------------------------------------------------------------------
StartMerge(suggestions, withGovernor) ==
  /\ reviewStage = "waiting"
  /\ items' = suggestions
  /\ governed' = withGovernor
  /\ reviewStage' = "merging"
  /\ UNCHANGED <<merged, taken, adopted, ignored, conflicts, resolution>>

Has(i, flaw) == flaw \in items[i].flaws

Clashes(i) == items[i].paths \cap DOMAIN taken # {}

(* Mutation of MergeNext: every suggestion that breaks no rule is adopted. *)
MergeClashing ==
  LET i == merged + 1 IN
  /\ reviewStage = "merging" /\ i \in DOMAIN items
  /\ merged' = i
  /\ IF Has(i, "banned") \/ Has(i, "unproven") \/ Cardinality(adopted) >= MaxAdopted
     THEN ignored' = ignored \cup {i} /\ UNCHANGED adopted
     ELSE adopted' = adopted \cup {i} /\ UNCHANGED ignored
  /\ UNCHANGED <<reviewStage, items, governed, taken, conflicts, resolution>>

(* The next suggestion by score.  It takes its paths before the limit is   *)
(* looked at: one that is ignored for the limit still holds them.          *)
MergeNext ==
  LET i == merged + 1 IN
  /\ reviewStage = "merging" /\ i \in DOMAIN items
  /\ merged' = i
  /\ \/ /\ Has(i, "banned") \/ Has(i, "unproven")
        /\ ignored' = ignored \cup {i}
        /\ UNCHANGED <<taken, adopted, conflicts>>
     \/ /\ ~(Has(i, "banned") \/ Has(i, "unproven"))
        /\ Clashes(i)
        /\ conflicts' = conflicts \cup {i}
        /\ UNCHANGED <<taken, adopted, ignored>>
     \/ /\ ~(Has(i, "banned") \/ Has(i, "unproven"))
        /\ ~Clashes(i)
        /\ taken' = [p \in DOMAIN taken \cup items[i].paths |->
                       IF p \in items[i].paths THEN i ELSE taken[p]]
        /\ IF Cardinality(adopted) < MaxAdopted
           THEN adopted' = adopted \cup {i} /\ UNCHANGED ignored
           ELSE ignored' = ignored \cup {i} /\ UNCHANGED adopted
        /\ UNCHANGED conflicts
  /\ UNCHANGED <<reviewStage, items, governed, resolution>>

(* The plain pool's suggestions are merged only.                           *)
EndMerge ==
  /\ reviewStage = "merging" /\ merged = Len(items)
  /\ reviewStage' = IF governed THEN "governing" ELSE "done"
  /\ UNCHANGED <<items, governed, merged, taken, adopted, ignored, conflicts, resolution>>

(* The governor's rules in their order: a leak is a conflict, what decides *)
(* for the player or has no source is ignored.                             *)
Leaks == {i \in adopted : Has(i, "leak")}
Blocked == {i \in adopted \ Leaks : Has(i, "agency") \/ Has(i, "unsourced")}

(* Mutation of Govern: what is blocked is in no list.                      *)
GovernLosesBlocked ==
  /\ reviewStage = "governing"
  /\ adopted' = adopted \ (Leaks \cup Blocked)
  /\ conflicts' = conflicts \cup Leaks
  /\ reviewStage' = "resolving"
  /\ UNCHANGED <<items, governed, merged, taken, ignored, resolution>>

Govern ==
  /\ reviewStage = "governing"
  /\ adopted' = adopted \ (Leaks \cup Blocked)
  /\ ignored' = ignored \cup Blocked
  /\ conflicts' = conflicts \cup Leaks
  /\ reviewStage' = "resolving"
  /\ UNCHANGED <<items, governed, merged, taken, resolution>>

(* No governed item has a conflict of its own left: none is half accepted. *)
Resolve ==
  /\ reviewStage = "resolving"
  /\ resolution' = [accepted |-> adopted, rejected |-> ignored \cup conflicts]
  /\ reviewStage' = "done"
  /\ UNCHANGED <<items, governed, merged, taken, adopted, ignored, conflicts>>

ReviewStep ==
  \/ MergeNext
  \/ EndMerge
  \/ Govern
  \/ Resolve

-----------------------------------------------------------------------------
ReviewTypeOK ==
  /\ reviewStage \in ReviewStage
  /\ items \in Seq(Suggestion)
  /\ governed \in BOOLEAN
  /\ merged \in 0..Len(items)
  /\ DOMAIN taken \subseteq Path /\ \A p \in DOMAIN taken : taken[p] \in 1..merged
  /\ adopted \cup ignored \cup conflicts = 1..merged
  /\ \A kind \in DOMAIN resolution : resolution[kind] \subseteq 1..merged

(* Whatever the scores and the flaws, every suggestion ends in exactly one *)
(* list; the adopted ones are within the limit, change no path twice, and  *)
(* after the governor none of them states facts, decides for the player or *)
(* lacks a source; a suggestion lost to a conflict of the merge lost to    *)
(* one of higher score that breaks no rule of the merge; and the director  *)
(* accepts what is adopted and rejects all the rest.                       *)
AdoptedAreCompatible ==
  /\ \A i \in 1..merged :
       Cardinality({list \in {"adopted", "ignored", "conflicts"} :
         i \in CASE list = "adopted"   -> adopted
                [] list = "ignored"   -> ignored
                [] list = "conflicts" -> conflicts}) = 1
  /\ Cardinality(adopted) <= MaxAdopted
  /\ \A i, j \in adopted : i # j => items[i].paths \cap items[j].paths = {}
  /\ \A i \in adopted : ~Has(i, "banned") /\ ~Has(i, "unproven")
  /\ \A i \in conflicts :
       \/ Has(i, "leak")
       \/ \E j \in 1..(i - 1) : /\ items[i].paths \cap items[j].paths # {}
                                /\ ~Has(j, "banned") /\ ~Has(j, "unproven")
  /\ resolution # NoResolution =>
       /\ \A i \in adopted : items[i].flaws = {}
       /\ resolution.accepted = adopted
       /\ resolution.rejected = DOMAIN items \ adopted

=============================================================================
