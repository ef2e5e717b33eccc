------------------------------ MODULE WriterDraft ------------------------------
(***************************************************************************)
(* RealWriterV2Adapter.generate: a first draft and up to Revisions more    *)
(* calls to the model while the deterministic checks find issues.  Every   *)
(* call is one DeepSeekAdapter.generate_text, which never raises: it       *)
(* answers "" with a receipt of the failure.                               *)
(***************************************************************************)
EXTENDS Naturals, Sequences

CONSTANT Revisions  \* max_revisions

ASSUME RevisionsAssumption == Revisions \in Nat

VARIABLES
  draftStage, \* where the writer is
  drafts,     \* history: what each call answered, in order
  draft,      \* the call that wrote the current text, and how it reads
  receipt     \* the call the receipt is about, and whether it succeeded

draftVars == <<draftStage, drafts, draft, receipt>>

(* A text without issues; one of the wrong length or with a heading; "".   *)
Text == {"good", "flawed", "blank"}

DraftStage == {"waiting", "checking", "done"}

DraftInit ==
  /\ draftStage = "waiting"
  /\ drafts = <<>>
  /\ draft = [call |-> 0, text |-> "blank"]
  /\ receipt = [call |-> 0, success |-> FALSE]

(* The receipt generate_text, or _handle_error, writes for call n.         *)
ReceiptOf(n, text) == [call |-> n, success |-> text # "blank"]

FirstDraft(text) ==
  /\ draftStage = "waiting"
  /\ drafts' = <<text>>
  /\ draft' = [call |-> 1, text |-> text]
  /\ receipt' = ReceiptOf(1, text)
  /\ draftStage' = "checking"

(* _check_output: a blank text is too short.                               *)
HasIssues == draft.text # "good"

(* Mutation of Revise: the receipt is taken whatever the answer.           *)
ReviseReceiptFirst(text) ==
  LET n == Len(drafts) + 1 IN
  /\ draftStage = "checking" /\ HasIssues /\ Len(drafts) <= Revisions
  /\ drafts' = Append(drafts, text)
  /\ receipt' = ReceiptOf(n, text)
  /\ draft' = IF text = "blank" THEN draft ELSE [call |-> n, text |-> text]
  /\ UNCHANGED draftStage

(* A revision that is not blank replaces the text, better or worse.        *)
Revise(text) ==
  LET n == Len(drafts) + 1 IN
  /\ draftStage = "checking" /\ HasIssues /\ Len(drafts) <= Revisions
  /\ drafts' = Append(drafts, text)
  /\ IF text = "blank"
     THEN UNCHANGED <<draft, receipt>>
     ELSE /\ draft' = [call |-> n, text |-> text]
          /\ receipt' = ReceiptOf(n, text)
  /\ UNCHANGED draftStage

HandOver ==
  /\ draftStage = "checking"
  /\ ~HasIssues \/ Len(drafts) > Revisions
  /\ draftStage' = "done"
  /\ UNCHANGED <<drafts, draft, receipt>>

DraftNext ==
  \/ \E text \in Text : FirstDraft(text) \/ Revise(text)
  \/ HandOver

-----------------------------------------------------------------------------
DraftTypeOK ==
  /\ draftStage \in DraftStage
  /\ drafts \in Seq(Text)
  /\ draft \in [call: Nat, text: Text]
  /\ receipt \in [call: Nat, success: BOOLEAN]

(* The text handed to the quality gate and the receipt the engine reads    *)
(* the failure from are of the same call, the last one that answered       *)
(* anything; a failed or blank last call never turns a usable draft into   *)
(* a failed turn, and a text with issues is handed over only when every    *)
(* revision has been used.                                                 *)
DraftHasItsReceipt ==
  draftStage = "done" =>
    /\ receipt.call = draft.call
    /\ receipt.success = (draft.text # "blank")
    /\ drafts[draft.call] = draft.text
    /\ \A i \in DOMAIN drafts :
         drafts[i] # "blank" => i <= draft.call /\ receipt.success
    /\ draft.text # "good" => Len(drafts) = Revisions + 1

=============================================================================
