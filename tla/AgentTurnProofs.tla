---------------------------- MODULE AgentTurnProofs ----------------------------
(***************************************************************************)
(* Theorems about the generation of a turn: what every component of        *)
(* AgentTurn promises, for all plans, worldbooks, suggestions and limits.  *)
(* The components share no variable, so each has an inductive invariant of *)
(* its own, and the section on the whole turn puts them together.          *)
(***************************************************************************)
EXTENDS AgentTurn, TableLemmas, FiniteSetTheorems, SequenceTheorems, TLAPS

-----------------------------------------------------------------------------
(* The writer.  Between two calls the text, the receipt and the history    *)
(* already belong together.                                                *)

Together ==
  /\ Len(drafts) \in 1..(Revisions + 1)
  /\ draft.call \in 1..Len(drafts)
  /\ drafts[draft.call] = draft.text
  /\ receipt = [call |-> draft.call, success |-> draft.text # "blank"]
  /\ \A i \in 1..Len(drafts) : drafts[i] # "blank" => i <= draft.call /\ draft.text # "blank"

DraftInv ==
  /\ DraftTypeOK
  /\ draftStage # "waiting" => Together
  /\ draftStage = "done" /\ draft.text # "good" => Len(drafts) = Revisions + 1

LEMMA DraftStarts == DraftInit => DraftInv
BY DEF DraftInit, DraftInv, DraftTypeOK, DraftStage, Text

LEMMA DraftStays == ASSUME DraftInv, UNCHANGED draftVars PROVE DraftInv'
BY DEF DraftInv, draftVars, DraftTypeOK, Together

LEMMA DraftMoves == ASSUME DraftInv, DraftNext PROVE DraftInv'
<1> USE RevisionsAssumption
<1>1. ASSUME NEW text \in Text, FirstDraft(text) PROVE DraftInv'
  <2>1. drafts' = <<text>> /\ <<text>> \in Seq(Text) /\ Len(<<text>>) = 1 /\ <<text>>[1] = text
    BY <1>1 DEF FirstDraft
  <2>2. DraftTypeOK'
    BY <1>1, <2>1 DEF FirstDraft, DraftInv, DraftTypeOK, ReceiptOf, DraftStage, Text
  <2>3. Together'
    BY <1>1, <2>1 DEF FirstDraft, Together, ReceiptOf
  <2> QED
    BY <1>1, <2>2, <2>3 DEF DraftInv, FirstDraft
<1>2. ASSUME NEW text \in Text, Revise(text) PROVE DraftInv'
  <2> DEFINE n == Len(drafts) + 1
  <2>1. /\ drafts \in Seq(Text) /\ drafts' = Append(drafts, text)
        /\ draftStage' = "checking" /\ draftStage = "checking" /\ Together
        /\ Len(drafts) <= Revisions
    BY <1>2 DEF Revise, DraftInv, DraftTypeOK
  <2>2. /\ drafts' \in Seq(Text) /\ Len(drafts') = n /\ drafts'[n] = text
        /\ Len(drafts) \in Nat
        /\ \A i \in 1..Len(drafts) : drafts'[i] = drafts[i]
    BY <2>1
  <2>3. CASE text = "blank"
    <3>1. UNCHANGED <<draft, receipt>>
      BY <1>2, <2>3 DEF Revise
    <3>2. Together'
      BY <2>1, <2>2, <2>3, <3>1 DEF Together
    <3> QED
      BY <2>1, <2>2, <3>1, <3>2 DEF DraftInv, DraftTypeOK
  <2>4. CASE text # "blank"
    <3>1. draft' = [call |-> n, text |-> text] /\ receipt' = ReceiptOf(n, text)
      BY <1>2, <2>4 DEF Revise
    <3>2. Together'
      BY <2>1, <2>2, <2>4, <3>1 DEF Together, ReceiptOf
    <3>3. DraftTypeOK'
      BY <1>2, <2>1, <2>2, <3>1 DEF DraftInv, DraftTypeOK, ReceiptOf, DraftStage
    <3> QED
      BY <2>1, <3>2, <3>3 DEF DraftInv
  <2> QED
    BY <2>3, <2>4
<1>3. ASSUME HandOver PROVE DraftInv'
  <2>1. /\ Together /\ draftStage' = "done" /\ UNCHANGED <<drafts, draft, receipt>>
        /\ DraftTypeOK
    BY <1>3 DEF HandOver, DraftInv
  <2>2. draft.text # "good" => Len(drafts) = Revisions + 1
    BY <1>3, <2>1 DEF HandOver, HasIssues, Together
  <2>3. DraftTypeOK' /\ Together'
    BY <2>1 DEF DraftTypeOK, DraftStage, Together
  <2> QED
    BY <2>1, <2>2, <2>3 DEF DraftInv
<1> QED
  BY <1>1, <1>2, <1>3 DEF DraftNext

LEMMA DraftDelivers == ASSUME DraftInv PROVE DraftHasItsReceipt
<1>1. drafts \in Seq(Text) /\ DOMAIN drafts = 1..Len(drafts)
  BY DEF DraftInv, DraftTypeOK
<1> SUFFICES ASSUME draftStage = "done" PROVE DraftHasItsReceipt
  BY DEF DraftHasItsReceipt
<1>2. Together /\ (draft.text # "good" => Len(drafts) = Revisions + 1)
  BY DEF DraftInv
<1>3. receipt.call = draft.call /\ receipt.success = (draft.text # "blank")
  BY <1>2 DEF Together
<1> QED
  BY <1>1, <1>2, <1>3 DEF Together, DraftHasItsReceipt

-----------------------------------------------------------------------------
(* The sub-agents of the engine.                                           *)

Untouched ==
  /\ delegated = FALSE /\ requested = {} /\ evaluated = 0 /\ policyFails = {}
  /\ summaries = None /\ calls = None /\ collected = {} /\ guidance = None

(* Who has a suggestion, and what its summary is worth.                    *)
Heard ==
  /\ policyFails \subseteq 1..evaluated
  /\ DOMAIN summaries \subseteq 1..evaluated
  /\ delegated => DOMAIN summaries = (requested \cap (1..evaluated)) \ policyFails
  /\ \A a \in DOMAIN summaries : summaries[a] = "llm" => a \in DOMAIN calls /\ calls[a] = "text"

(* What the loop over the futures has taken is in the summaries.           *)
Taken ==
  /\ DOMAIN calls \subseteq DOMAIN summaries
  /\ collected \subseteq DOMAIN calls
  /\ \A a \in collected : calls[a] # "running" /\ (calls[a] = "text" => summaries[a] = "llm")

AllTaken ==
  /\ \A a \in DOMAIN calls : Ended(a)
  /\ (\A b \in DOMAIN calls : calls[b] # "raised") =>
       \A a \in DOMAIN calls : calls[a] = "text" => summaries[a] = "llm"

AgentInv ==
  /\ AgentTypeOK
  /\ agentStage = "waiting" => Untouched
  /\ agentStage = "triggering" => calls = None
  /\ agentStage \in {"deepening", "abandoned", "merging", "done"} => evaluated = Agents
  /\ Heard
  /\ Taken
  /\ agentStage = "abandoned" => \E b \in DOMAIN calls : calls[b] = "raised"
  /\ agentStage \in {"merging", "done"} => AllTaken
  /\ agentStage = "done" => guidance = summaries

LEMMA SomeAgentsAre ==
  ASSUME NEW T, NEW f
  PROVE  f \in SomeAgents(T)
           <=> /\ f = [a \in DOMAIN f |-> f[a]]
               /\ DOMAIN f \subseteq Agent
               /\ \A a \in DOMAIN f : f[a] \in T
<1>1. ASSUME f \in SomeAgents(T)
      PROVE  /\ f = [a \in DOMAIN f |-> f[a]]
             /\ DOMAIN f \subseteq Agent
             /\ \A a \in DOMAIN f : f[a] \in T
  <2>1. PICK A \in SUBSET Agent : f \in [A -> T]
    BY <1>1 DEF SomeAgents
  <2> QED
    BY <2>1
<1>2. ASSUME f = [a \in DOMAIN f |-> f[a]], DOMAIN f \subseteq Agent,
             \A a \in DOMAIN f : f[a] \in T
      PROVE  f \in SomeAgents(T)
  <2>1. f \in [DOMAIN f -> T]
    BY <1>2
  <2> QED
    BY <1>2, <2>1 DEF SomeAgents
<1> QED
  BY <1>1, <1>2

LEMMA NoneIsEmpty ==
  /\ DOMAIN None = {}
  /\ None \in SomeAgents(Author)
  /\ None \in SomeAgents(CallState)
<1>1. DOMAIN None = {}
  BY DEF None
<1>2. None = [a \in DOMAIN None |-> None[a]]
  BY DEF None
<1> QED
  BY <1>1, <1>2, SomeAgentsAre

LEMMA AgentStarts == AgentInit => AgentInv
<1> SUFFICES ASSUME AgentInit PROVE AgentInv
  OBVIOUS
<1>1. Untouched
  BY DEF AgentInit, Untouched
<1>2. AgentTypeOK
  <2>1. 0 \in 0..Agents
    BY AgentsAssumption
  <2>2. {None, None} \subseteq SomeAgents(Author)
    BY NoneIsEmpty
  <2> QED
    BY <2>1, <2>2, NoneIsEmpty, Zenon DEF AgentInit, AgentTypeOK, AgentStage
<1>3. Heard /\ Taken
  BY <1>1, NoneIsEmpty DEF Untouched, Heard, Taken
<1> QED
  BY <1>1, <1>2, <1>3 DEF AgentInit, AgentInv

LEMMA AgentForgets == ASSUME AgentForgotten PROVE AgentInv'
<1>1. Untouched'
  BY DEF AgentForgotten, Untouched
<1>2. AgentTypeOK'
  <2>1. 0 \in 0..Agents
    BY AgentsAssumption
  <2>2. {None, None} \subseteq SomeAgents(Author)
    BY NoneIsEmpty
  <2> QED
    BY <2>1, <2>2, NoneIsEmpty, Zenon DEF AgentForgotten, AgentTypeOK, AgentStage
<1>3. Heard' /\ Taken'
  BY <1>1, NoneIsEmpty DEF Untouched, Heard, Taken
<1> QED
  BY <1>1, <1>2, <1>3 DEF AgentForgotten, AgentInv

LEMMA AgentStays == ASSUME AgentInv, UNCHANGED agentVars PROVE AgentInv'
BY DEF AgentInv, agentVars, AgentTypeOK, Untouched, Heard, Taken, AllTaken, Ended

LEMMA AgentMoves == ASSUME AgentInv, AgentNext PROVE AgentInv'
<1>0. /\ AgentTypeOK /\ Heard /\ Taken
      /\ summaries \in SomeAgents(Author) /\ guidance \in SomeAgents(Author)
      /\ calls \in SomeAgents(CallState) /\ Agents \in Nat /\ evaluated \in 0..Agents
  BY AgentsAssumption DEF AgentInv, AgentTypeOK
<1>1. ASSUME NEW asked \in SUBSET Agent, Delegate(asked) PROVE AgentInv'
  <2>1. Untouched /\ agentStage' = "triggering" /\ delegated' = TRUE /\ requested' = asked
        /\ UNCHANGED <<evaluated, policyFails, summaries, calls, collected, guidance>>
    BY <1>1 DEF Delegate, AgentInv
  <2>2. AgentTypeOK'
    BY <1>0, <2>1 DEF AgentTypeOK, AgentStage
  <2>3. Heard' /\ Taken'
    BY <2>1, NoneIsEmpty DEF Heard, Taken, Untouched
  <2> QED
    BY <2>1, <2>2, <2>3 DEF AgentInv, Untouched
<1>2. ASSUME DelegationFails PROVE AgentInv'
  <2>1. Untouched /\ agentStage' = "triggering"
        /\ UNCHANGED <<delegated, requested, evaluated, policyFails, summaries, calls,
                       collected, guidance>>
    BY <1>2 DEF DelegationFails, AgentInv
  <2>2. AgentTypeOK'
    BY <1>0, <2>1 DEF AgentTypeOK, AgentStage
  <2>3. Heard' /\ Taken'
    BY <1>0, <2>1 DEF Heard, Taken
  <2> QED
    BY <2>1, <2>2, <2>3 DEF AgentInv, Untouched
<1>3. ASSUME NEW triggers \in BOOLEAN, Trigger(triggers) PROVE AgentInv'
  <2> DEFINE a == evaluated + 1
  <2>1. /\ agentStage = "triggering" /\ a \in Agent /\ evaluated' = a
        /\ UNCHANGED <<agentStage, delegated, requested, policyFails, calls, collected, guidance>>
        /\ calls = None
    BY <1>3 DEF Trigger, AgentInv
  <2>2. DOMAIN calls = {} /\ collected = {} /\ a \notin 1..evaluated
        /\ 1..evaluated' = (1..evaluated) \cup {a}
    BY <1>0, <2>1, NoneIsEmpty DEF Taken
  <2>3. CASE ShouldRun(a, triggers)
    <3>1. summaries' = [b \in DOMAIN summaries \cup {a} |-> IF b = a THEN "rule" ELSE summaries[b]]
      BY <1>3, <2>3 DEF Trigger
    <3>2. summaries' \in SomeAgents(Author)
      <4>1. /\ DOMAIN summaries' = DOMAIN summaries \cup {a}
            /\ \A b \in DOMAIN summaries' :
                 summaries'[b] = IF b = a THEN "rule" ELSE summaries[b]
            /\ summaries' = [b \in DOMAIN summaries' |-> summaries'[b]]
        BY <3>1
      <4>2. DOMAIN summaries \subseteq Agent /\ \A b \in DOMAIN summaries : summaries[b] \in Author
        BY <1>0, SomeAgentsAre
      <4>3. DOMAIN summaries' \subseteq Agent /\ \A b \in DOMAIN summaries' : summaries'[b] \in Author
        BY <2>1, <4>1, <4>2 DEF Author
      <4> QED
        BY <4>1, <4>3, SomeAgentsAre
    <3>3. Heard'
      <4>1. delegated => a \in requested
        BY <2>3 DEF ShouldRun
      <4>2. a \notin policyFails
        BY <1>0, <2>2 DEF Heard
      <4>3. DOMAIN summaries' = DOMAIN summaries \cup {a}
            /\ \A b \in DOMAIN summaries' : summaries'[b] = IF b = a THEN "rule" ELSE summaries[b]
        BY <3>1
      <4>4. policyFails' \subseteq 1..evaluated' /\ DOMAIN summaries' \subseteq 1..evaluated'
        BY <1>0, <2>1, <2>2, <4>3 DEF Heard
      <4>5. delegated' => DOMAIN summaries' = (requested' \cap (1..evaluated')) \ policyFails'
        BY <1>0, <2>1, <2>2, <4>1, <4>2, <4>3 DEF Heard
      <4>6. \A b \in DOMAIN summaries' : summaries'[b] = "llm" => b \in DOMAIN calls' /\ calls'[b] = "text"
        BY <1>0, <2>1, <4>3 DEF Heard
      <4> QED
        BY <4>4, <4>5, <4>6 DEF Heard
    <3>4. Taken'
      BY <2>1, <2>2 DEF Taken
    <3>5. AgentTypeOK'
      BY <1>0, <2>1, <3>2 DEF AgentTypeOK, Agent
    <3> QED
      BY <2>1, <3>3, <3>4, <3>5 DEF AgentInv
  <2>4. CASE ~ShouldRun(a, triggers)
    <3>1. summaries' = summaries
      BY <1>3, <2>4 DEF Trigger
    <3>2. delegated => a \notin requested
      BY <2>4 DEF ShouldRun
    <3>3. Heard'
      BY <1>0, <2>1, <2>2, <3>1, <3>2 DEF Heard
    <3>4. Taken'
      BY <2>1, <2>2 DEF Taken
    <3>5. AgentTypeOK'
      BY <1>0, <2>1, <3>1 DEF AgentTypeOK, Agent
    <3> QED
      BY <2>1, <3>3, <3>4, <3>5 DEF AgentInv
  <2> QED
    BY <2>3, <2>4
<1>4. ASSUME PolicyRaises PROVE AgentInv'
  <2> DEFINE a == evaluated + 1
  <2>1. /\ agentStage = "triggering" /\ a \in Agent /\ evaluated' = a
        /\ policyFails' = policyFails \cup {a}
        /\ UNCHANGED <<agentStage, delegated, requested, summaries, calls, collected, guidance>>
        /\ calls = None
    BY <1>4 DEF PolicyRaises, AgentInv
  <2>2. a \notin 1..evaluated /\ 1..evaluated' = (1..evaluated) \cup {a}
    BY <1>0, <2>1
  <2>3. Heard'
    BY <1>0, <2>1, <2>2 DEF Heard
  <2>4. Taken'
    BY <1>0, <2>1 DEF Taken
  <2>5. AgentTypeOK'
    BY <1>0, <2>1 DEF AgentTypeOK, Agent
  <2> QED
    BY <2>1, <2>3, <2>4, <2>5 DEF AgentInv
<1>5. ASSUME KeepRuleSummaries PROVE AgentInv'
  <2>1. /\ agentStage' = "merging" /\ evaluated = Agents /\ calls = None
        /\ UNCHANGED <<delegated, requested, evaluated, policyFails, summaries, calls,
                       collected, guidance>>
    BY <1>5 DEF KeepRuleSummaries, AgentInv
  <2>2. AgentTypeOK' /\ Heard' /\ Taken'
    BY <1>0, <2>1 DEF AgentTypeOK, AgentStage, Heard, Taken
  <2>3. AllTaken'
    BY <2>1, NoneIsEmpty DEF AllTaken
  <2> QED
    BY <2>1, <2>2, <2>3 DEF AgentInv
<1>6. ASSUME SubmitCalls PROVE AgentInv'
  <2>1. /\ agentStage' = "deepening" /\ evaluated = Agents /\ calls = None
        /\ calls' = [a \in DOMAIN summaries |-> "running"]
        /\ UNCHANGED <<delegated, requested, evaluated, policyFails, summaries, collected, guidance>>
    BY <1>6 DEF SubmitCalls, AgentInv
  <2>2. /\ DOMAIN calls' = DOMAIN summaries
        /\ \A a \in DOMAIN calls' : calls'[a] = "running"
        /\ calls' = [a \in DOMAIN calls' |-> calls'[a]]
    BY <2>1
  <2>3. DOMAIN summaries \subseteq Agent
    BY <1>0, SomeAgentsAre
  <2>4. calls' \in SomeAgents(CallState)
    BY <2>2, <2>3, SomeAgentsAre DEF CallState
  <2>5. AgentTypeOK'
    BY <1>0, <2>1, <2>4 DEF AgentTypeOK, AgentStage
  <2>6. collected = {} /\ \A a \in DOMAIN summaries : summaries[a] # "llm"
    BY <1>0, <2>1, NoneIsEmpty DEF Heard, Taken
  <2>7. Heard' /\ Taken'
    BY <1>0, <2>1, <2>2, <2>6 DEF Heard, Taken
  <2> QED
    BY <2>1, <2>5, <2>7 DEF AgentInv
<1>7. ASSUME NEW a \in Agent, NEW answer \in CallState \ {"running"}, CallEnds(a, answer)
      PROVE  AgentInv'
  <2>1. /\ a \in DOMAIN calls /\ calls[a] = "running" /\ calls' = [calls EXCEPT ![a] = answer]
        /\ UNCHANGED <<agentStage, delegated, requested, evaluated, policyFails, summaries,
                       collected, guidance>>
    BY <1>7 DEF CallEnds
  <2>2. DOMAIN calls \subseteq Agent /\ \A b \in DOMAIN calls : calls[b] \in CallState
    BY <1>0, SomeAgentsAre
  <2>3. /\ DOMAIN calls' = DOMAIN calls
        /\ \A b \in DOMAIN calls : calls'[b] = IF b = a THEN answer ELSE calls[b]
        /\ calls' = [b \in DOMAIN calls' |-> calls'[b]]
    BY <2>1
  <2>4. calls' \in SomeAgents(CallState)
    BY <2>2, <2>3, SomeAgentsAre
  <2>5. AgentTypeOK'
    BY <1>0, <2>1, <2>4 DEF AgentTypeOK
  <2>6. agentStage \notin {"merging", "done"} /\ calls # None
    BY <2>1, NoneIsEmpty DEF AgentInv, AllTaken, Ended
  <2>7. agentStage \notin {"waiting", "triggering"}
    BY <2>6 DEF AgentInv, Untouched
  <2>8. Heard' /\ Taken'
    BY <1>0, <2>1, <2>3 DEF Heard, Taken
  <2>9. agentStage = "abandoned" => \E b \in DOMAIN calls' : calls'[b] = "raised"
    BY <2>1, <2>3 DEF AgentInv
  <2> QED
    BY <2>1, <2>5, <2>6, <2>7, <2>8, <2>9 DEF AgentInv
<1>8. ASSUME NEW a \in Agent, Collect(a) PROVE AgentInv'
  <2>1. /\ agentStage = "deepening" /\ a \in DOMAIN calls /\ calls[a] # "running"
        /\ collected' = collected \cup {a}
        /\ UNCHANGED <<delegated, requested, evaluated, policyFails, calls, guidance>>
        /\ evaluated = Agents
    BY <1>8 DEF Collect, Ended, AgentInv
  <2>2. CASE calls[a] = "raised"
    <3>1. agentStage' = "abandoned" /\ summaries' = summaries
      BY <1>8, <2>2 DEF Collect
    <3>2. AgentTypeOK' /\ Heard' /\ Taken'
      BY <1>0, <2>1, <2>2, <3>1 DEF AgentTypeOK, AgentStage, Heard, Taken
    <3> QED
      BY <2>1, <2>2, <3>1, <3>2 DEF AgentInv
  <2>3. CASE calls[a] = "text"
    <3>1. agentStage' = agentStage /\ summaries' = [summaries EXCEPT ![a] = "llm"]
      BY <1>8, <2>3 DEF Collect
    <3>2. /\ a \in DOMAIN summaries
          /\ DOMAIN summaries' = DOMAIN summaries
          /\ \A b \in DOMAIN summaries : summaries'[b] = IF b = a THEN "llm" ELSE summaries[b]
          /\ summaries' = [b \in DOMAIN summaries' |-> summaries'[b]]
      BY <1>0, <2>1, <3>1 DEF Taken
    <3>3. DOMAIN summaries \subseteq Agent /\ \A b \in DOMAIN summaries : summaries[b] \in Author
      BY <1>0, SomeAgentsAre
    <3>4. summaries' \in SomeAgents(Author)
      BY <3>2, <3>3, SomeAgentsAre DEF Author
    <3>5. AgentTypeOK'
      BY <1>0, <2>1, <3>1, <3>4 DEF AgentTypeOK
    <3>6. Heard' /\ Taken'
      BY <1>0, <2>1, <2>3, <3>2 DEF Heard, Taken
    <3> QED
      BY <2>1, <3>1, <3>5, <3>6 DEF AgentInv
  <2>4. CASE calls[a] \notin {"raised", "text"}
    <3>1. agentStage' = agentStage /\ summaries' = summaries
      BY <1>8, <2>4 DEF Collect
    <3>2. AgentTypeOK' /\ Heard' /\ Taken'
      BY <1>0, <2>1, <2>4, <3>1 DEF AgentTypeOK, Heard, Taken
    <3> QED
      BY <2>1, <3>1, <3>2 DEF AgentInv
  <2> QED
    BY <2>2, <2>3, <2>4
<1>9. ASSUME LeavePool PROVE AgentInv'
  <2>1. /\ agentStage \in {"abandoned", "deepening"} /\ agentStage' = "merging"
        /\ evaluated = Agents
        /\ UNCHANGED <<delegated, requested, evaluated, policyFails, summaries, calls,
                       collected, guidance>>
    BY <1>9 DEF LeavePool, AgentInv
  <2>2. AgentTypeOK' /\ Heard' /\ Taken'
    BY <1>0, <2>1 DEF AgentTypeOK, AgentStage, Heard, Taken
  <2>3. AllTaken'
    <3>1. CASE agentStage = "abandoned"
      BY <1>9, <2>1, <3>1 DEF AgentInv, LeavePool, AllTaken, Ended
    <3>2. CASE agentStage = "deepening"
      BY <1>0, <1>9, <2>1, <3>2 DEF LeavePool, AllTaken, Ended, Taken
    <3> QED
      BY <2>1, <3>1, <3>2
  <2> QED
    BY <2>1, <2>2, <2>3 DEF AgentInv
<1>10. ASSUME MergeSummaries PROVE AgentInv'
  <2>1. /\ agentStage = "merging" /\ agentStage' = "done" /\ guidance' = summaries
        /\ UNCHANGED <<delegated, requested, evaluated, policyFails, summaries, calls, collected>>
        /\ evaluated = Agents /\ AllTaken
    BY <1>10 DEF MergeSummaries, AgentInv
  <2>2. AgentTypeOK' /\ Heard' /\ Taken' /\ AllTaken'
    BY <1>0, <2>1 DEF AgentTypeOK, AgentStage, Heard, Taken, AllTaken, Ended
  <2> QED
    BY <2>1, <2>2 DEF AgentInv
<1> QED
  BY <1>1, <1>2, <1>3, <1>4, <1>5, <1>6, <1>7, <1>8, <1>9, <1>10 DEF AgentNext

LEMMA AgentDelivers == ASSUME AgentInv PROVE DeepenedOrRule
<1> SUFFICES ASSUME agentStage = "done" PROVE DeepenedOrRule
  BY DEF DeepenedOrRule
<1>1. /\ AllTaken /\ Heard /\ Taken /\ guidance = summaries /\ evaluated = Agents
      /\ requested \subseteq 1..Agents
  BY DEF AgentInv, AgentTypeOK, Agent
<1>2. delegated => DOMAIN guidance = requested \ policyFails
  BY <1>1 DEF Heard
<1> QED
  BY <1>1, <1>2 DEF DeepenedOrRule, AllTaken, Heard, Taken

-----------------------------------------------------------------------------
(* The orchestrator around its sub-agents.  Until the commit nothing is    *)
(* written, not even in what a commit of another turn has loaded.  As long *)
(* as commits did not overlap, who has compared holds the stored state.    *)

Unwritten ==
  /\ ~state.mine /\ record = NoRecord /\ memory = {}
  /\ \A r \in Rival : ~rivalLoaded[r].mine

Accepted == {"proposing", "loading", "committing", "storing", "recording",
             "active memory", "rag memory"}

WithLoaded == {"committing", "storing"}

AtCommit ==
  /\ turnStage \in WithLoaded =>
       /\ base <= loaded.revision /\ loaded.revision <= state.revision
       /\ loaded.revision = loaded.others
  /\ turnStage = "storing" => base = state.revision

AtRecord ==
  turnStage = "recording" =>
    /\ state.mine = operations
    /\ state.revision >= base + (IF operations THEN 1 ELSE 0)

RivalFits(r) ==
  /\ rivalStage[r] = "loaded" =>
       /\ rivalLoaded[r].revision <= state.revision
       /\ rivalLoaded[r].revision = state.revision => rivalLoaded[r] = state
  /\ rivalStage[r] = "compared" => rivalLoaded[r] = state

InStep ==
  /\ base <= state.revision
  /\ AtCommit
  /\ AtRecord
  /\ \A r \in Rival : RivalFits(r)

TurnInv ==
  /\ TurnTypeOK
  /\ WritesFollowGate
  /\ turnStage \notin {"recording", "active memory", "rag memory", "ended"} => Unwritten
  /\ outcome \in {"rejected", "commit failed"} => Unwritten
  /\ turnStage \in Accepted => verdict = "accept"
  /\ (\E r \in Rival : rivalLoaded[r].mine) => verdict = "accept"
  /\ turnStage \in {"loading", "committing", "storing"} => operations = TRUE
  /\ turnStage = "recording" => record = NoRecord /\ memory = {}
  /\ turnStage \in {"active memory", "rag memory"} => record # NoRecord
  /\ turnStage # "ended" => outcome = "none"
  /\ ~overlap => InStep

LEMMA TurnStarts == TurnInit => TurnInv
<1> SUFFICES ASSUME TurnInit PROVE TurnInv
  OBVIOUS
<1>1. state = [revision |-> 0, mine |-> FALSE, others |-> 0] /\ loaded = state
      /\ state \in CardState
  BY DEF TurnInit, CardState
<1>2. \A r \in Rival : rivalStage[r] = "away" /\ rivalLoaded[r] = state
  BY DEF TurnInit
<1>3. TurnTypeOK
  <2>1. {base, retries} \subseteq Nat
    BY DEF TurnInit
  <2>2. rivalStage \in [Rival -> RivalStage] /\ rivalLoaded \in [Rival -> CardState]
    BY <1>1 DEF TurnInit, RivalStage
  <2> QED
    BY <1>1, <2>1, <2>2, Zenon DEF TurnInit, TurnTypeOK, TurnStage, Verdict, TurnOutcome
<1>4. WritesFollowGate
  BY <1>1 DEF TurnInit, WritesFollowGate
<1>5. Unwritten
  BY <1>1, <1>2 DEF TurnInit, Unwritten
<1>6. InStep
  BY <1>1, <1>2 DEF TurnInit, InStep, AtCommit, AtRecord, WithLoaded, RivalFits
<1> QED
  BY <1>1, <1>2, <1>3, <1>4, <1>5, <1>6 DEF TurnInit, TurnInv, Accepted

LEMMA TurnStays == ASSUME TurnInv, UNCHANGED turnVars PROVE TurnInv'
BY DEF TurnInv, turnVars, rivals, TurnTypeOK, WritesFollowGate, Unwritten, Accepted, InStep,
       WithLoaded, AtCommit, AtRecord, RivalFits

(* The types of a state, one field at a time.                              *)
LEMMA TypesOfTurn ==
  ASSUME TurnTypeOK
  PROVE  /\ base \in Nat /\ retries \in Nat /\ operations \in BOOLEAN /\ overlap \in BOOLEAN
         /\ state \in CardState /\ loaded \in CardState
         /\ state.revision \in Nat /\ state.others \in Nat /\ state.mine \in BOOLEAN
         /\ loaded.revision \in Nat /\ loaded.others \in Nat /\ loaded.mine \in BOOLEAN
BY DEF TurnTypeOK, CardState

(* The steps before anything is written leave nothing written.             *)
LEMMA StaysUnwritten ==
  ASSUME TurnInv, Unwritten, UNCHANGED <<state, record, memory, rivals>>, outcome' # "success"
  PROVE  WritesFollowGate' /\ Unwritten'
BY DEF TurnInv, WritesFollowGate, Unwritten, rivals

(* A step of the turn that writes no state leaves the other turns in step. *)
LEMMA RivalsStayInStep ==
  ASSUME InStep, UNCHANGED <<state, rivals>>
  PROVE  \A r \in Rival : RivalFits(r)'
BY DEF InStep, RivalFits, rivals

LEMMA EarlyMoves ==
  ASSUME TurnInv, BuildSnapshot \/ StartWriting \/ Write \/ Accept
                  \/ \E allowed \in BOOLEAN : Retry(allowed)
  PROVE  TurnInv'
<1>0. /\ TurnTypeOK /\ base \in Nat /\ retries \in Nat /\ state.revision \in Nat
  BY TypesOfTurn DEF TurnInv
<1>1. /\ Unwritten /\ outcome = "none"
      /\ \/ turnStage' \notin Accepted \cup {"ended"}
         \/ turnStage' = "proposing" /\ verdict' = "accept"
  BY DEF BuildSnapshot, StartWriting, Write, Accept, Retry, TurnInv, Accepted
<1>2. UNCHANGED <<operations, loaded, state, record, memory, outcome, rivals>>
  BY DEF BuildSnapshot, StartWriting, Write, Accept, Retry
<1>3. base' \in {base, state.revision} /\ retries' \in {retries, retries + 1}
  BY DEF BuildSnapshot, StartWriting, Write, Accept, Retry
<1>4. verdict' \in Verdict /\ turnStage' \in TurnStage
  BY <1>0 DEF BuildSnapshot, StartWriting, Write, Accept, Retry, Verdict, TurnStage, TurnTypeOK
<1>5. TurnTypeOK'
  <2>1. {base, retries}' \subseteq Nat
    BY <1>0, <1>3
  <2> QED
    BY <1>0, <1>2, <1>4, <2>1 DEF TurnTypeOK, rivals
<1>6. WritesFollowGate' /\ Unwritten'
  BY <1>1, <1>2, StaysUnwritten
<1>7. ASSUME ~overlap' PROVE InStep'
  <2>1. InStep
    BY <1>2, <1>7 DEF TurnInv, rivals
  <2>2. \A r \in Rival : RivalFits(r)'
    BY <1>2, <2>1, RivalsStayInStep
  <2>3. (base <= state.revision)'
    BY <1>0, <1>2, <1>3, <2>1 DEF InStep
  <2> QED
    BY <1>1, <2>2, <2>3 DEF InStep, AtCommit, AtRecord, WithLoaded, Accepted
<1> QED
  BY <1>1, <1>2, <1>5, <1>6, <1>7 DEF TurnInv, Accepted, Unwritten

LEMMA FailureMoves ==
  ASSUME TurnInv, UNCHANGED <<base, retries, operations, loaded, state, record, memory, rivals>>,
         turnStage' = "ended",
         \/ outcome' = "exception" /\ verdict' = verdict
         \/ outcome' \in {"rejected", "commit failed"} /\ Unwritten /\ verdict' \in Verdict
  PROVE  TurnInv'
<1>1. TurnTypeOK'
  BY DEF TurnInv, TurnTypeOK, TurnStage, TurnOutcome, rivals
<1>2. WritesFollowGate' /\ (Unwritten => Unwritten')
  <2>1. CASE Unwritten
    BY <2>1, StaysUnwritten
  <2>2. CASE outcome' = "exception" /\ verdict' = verdict
    BY <2>2 DEF TurnInv, WritesFollowGate, rivals, Unwritten
  <2> QED
    BY <2>1, <2>2
<1>3. ~overlap' => InStep'
  <2>1. ~overlap' => InStep
    BY DEF TurnInv, rivals
  <2> QED
    BY <2>1, RivalsStayInStep DEF InStep, AtCommit, AtRecord, WithLoaded
<1>4. (\E r \in Rival : rivalLoaded[r].mine)' => verdict' = "accept"
  BY DEF TurnInv, Unwritten, rivals
<1> QED
  BY <1>1, <1>2, <1>3, <1>4 DEF TurnInv, Accepted

LEMMA CommitMoves ==
  ASSUME TurnInv, LoadState \/ WriteState
                  \/ (\E some \in BOOLEAN : Propose(some))
                  \/ (\E valid \in BOOLEAN : CheckState(valid))
  PROVE  TurnInv'
<1>0. /\ TurnTypeOK /\ WritesFollowGate
      /\ base \in Nat /\ retries \in Nat /\ operations \in BOOLEAN /\ overlap \in BOOLEAN
      /\ state \in CardState /\ loaded \in CardState
      /\ state.revision \in Nat /\ state.others \in Nat /\ state.mine \in BOOLEAN
      /\ loaded.revision \in Nat /\ loaded.others \in Nat /\ loaded.mine \in BOOLEAN
  BY TypesOfTurn DEF TurnInv
<1>1. Unwritten /\ verdict = "accept" /\ outcome = "none"
  BY DEF LoadState, WriteState, Propose, CheckState, TurnInv, Accepted
<1>2. ASSUME NEW some \in BOOLEAN, Propose(some) PROVE TurnInv'
  <2>1. /\ operations' = some /\ turnStage' = IF some THEN "loading" ELSE "recording"
        /\ UNCHANGED <<base, retries, verdict, loaded, state, record, memory, outcome, rivals>>
    BY <1>2 DEF Propose
  <2>2. TurnTypeOK'
    BY <1>0, <2>1 DEF TurnTypeOK, TurnStage, rivals
  <2>3. WritesFollowGate' /\ Unwritten'
    BY <1>1, <2>1, StaysUnwritten
  <2>4. ASSUME ~overlap' PROVE InStep'
    <3>1. InStep
      BY <2>1, <2>4 DEF TurnInv, rivals
    <3>2. \A r \in Rival : RivalFits(r)'
      BY <2>1, <3>1, RivalsStayInStep
    <3>3. (base <= state.revision)' /\ AtCommit'
      BY <2>1, <3>1 DEF InStep, AtCommit, WithLoaded
    <3>4. AtRecord'
      <4>1. CASE some = TRUE
        BY <2>1, <4>1 DEF AtRecord
      <4>2. CASE some = FALSE
        <5>1. state'.mine = operations'
          BY <1>0, <1>1, <2>1, <4>2 DEF Unwritten
        <5>2. state'.revision >= base' + (IF operations' THEN 1 ELSE 0)
          BY <1>0, <2>1, <3>1, <4>2 DEF InStep
        <5> QED
          BY <5>1, <5>2 DEF AtRecord
      <4> QED
        BY <4>1, <4>2
    <3> QED
      BY <3>2, <3>3, <3>4 DEF InStep
  <2>5. (turnStage' = "loading" => operations' = TRUE) /\ turnStage' \in {"loading", "recording"}
    BY <2>1
  <2> QED
    BY <1>1, <2>1, <2>2, <2>3, <2>4, <2>5 DEF TurnInv, Accepted, Unwritten
<1>3. CASE LoadState
  <2>1. /\ turnStage' = "committing" /\ loaded' = state /\ operations = TRUE
        /\ UNCHANGED <<base, retries, verdict, operations, state, record, memory, outcome, rivals>>
    BY <1>3 DEF LoadState, TurnInv
  <2>2. TurnTypeOK'
    BY <1>0, <2>1 DEF TurnTypeOK, TurnStage, rivals
  <2>3. WritesFollowGate' /\ Unwritten'
    BY <1>1, <2>1, StaysUnwritten
  <2>4. ASSUME ~overlap' PROVE InStep'
    <3>1. InStep /\ ~overlap
      BY <2>1, <2>4 DEF TurnInv, rivals
    <3>2. \A r \in Rival : RivalFits(r)'
      BY <2>1, <3>1, RivalsStayInStep
    <3>3. state.revision = state.others
      BY <1>0, <1>1, <3>1 DEF WritesFollowGate, Unwritten
    <3>4. base <= state.revision
      BY <3>1 DEF InStep
    <3> QED
      BY <1>0, <2>1, <3>2, <3>3, <3>4 DEF InStep, AtCommit, AtRecord, WithLoaded
  <2> QED
    BY <1>1, <2>1, <2>2, <2>3, <2>4 DEF TurnInv, Accepted, Unwritten
<1>4. ASSUME NEW valid \in BOOLEAN, CheckState(valid) PROVE TurnInv'
  <2>1. /\ operations = TRUE
        /\ UNCHANGED <<base, retries, verdict, operations, loaded, state, record, memory, rivals>>
    BY <1>4 DEF CheckState, TurnInv
  <2>2. CASE valid /\ state.revision = base
    <3>1. turnStage = "committing" /\ turnStage' = "storing" /\ outcome' = outcome
      BY <1>4, <2>2 DEF CheckState
    <3>2. TurnTypeOK'
      BY <1>0, <2>1, <3>1 DEF TurnTypeOK, TurnStage, rivals
    <3>3. WritesFollowGate' /\ Unwritten'
      BY <1>1, <2>1, <3>1, StaysUnwritten
    <3>4. ASSUME ~overlap' PROVE InStep'
      <4>1. InStep
        BY <2>1, <3>4 DEF TurnInv, rivals
      <4>2. \A r \in Rival : RivalFits(r)'
        BY <2>1, <4>1, RivalsStayInStep
      <4> QED
        BY <2>1, <2>2, <3>1, <4>1, <4>2 DEF InStep, AtCommit, AtRecord, WithLoaded
    <3> QED
      BY <1>1, <2>1, <3>1, <3>2, <3>3, <3>4 DEF TurnInv, Accepted, Unwritten
  <2>3. CASE ~(valid /\ state.revision = base)
    BY <1>1, <1>4, <2>1, <2>3, FailureMoves DEF CheckState, End, Verdict
  <2> QED
    BY <2>2, <2>3
<1>5. CASE WriteState
  <2> DEFINE new == [revision |-> base + 1, mine |-> TRUE, others |-> loaded.others]
  <2>1. /\ operations = TRUE /\ turnStage = "storing"
        /\ UNCHANGED <<base, retries, verdict, operations, loaded, record, memory, rivalStage,
                       rivalLoaded>>
    BY <1>5 DEF WriteState, TurnInv
  <2>2. CASE End("commit failed") /\ UNCHANGED <<state, overlap>>
    BY <1>1, <2>1, <2>2, FailureMoves DEF End, Verdict, rivals
  <2>3. CASE /\ state' = new /\ overlap' = (overlap \/ Compared # {})
             /\ turnStage' = "recording" /\ UNCHANGED outcome
    <3>1. state' \in CardState /\ state'.revision = base + 1 /\ state'.mine = TRUE
          /\ state'.others = loaded.others
      BY <1>0, <2>3 DEF CardState
    <3>2. overlap' \in BOOLEAN /\ turnStage' \in TurnStage
      BY <1>0, <2>3 DEF TurnStage
    <3>3. TurnTypeOK'
      BY <1>0, <2>1, <2>3, <3>1, <3>2 DEF TurnTypeOK
    <3>4. record' = NoRecord /\ memory' = {} /\ outcome' = "none" /\ verdict' = "accept"
      BY <1>1, <2>1, <2>3 DEF Unwritten
    <3>5. ~overlap' => ~overlap /\ Compared = {} /\ InStep
      BY <2>3 DEF TurnInv
    <3>6. ~overlap' => loaded.others = base
      BY <1>0, <2>1, <3>5 DEF InStep, AtCommit, WithLoaded
    <3>7. WritesFollowGate'
      BY <1>0, <3>1, <3>4, <3>6 DEF WritesFollowGate
    <3>8. ASSUME ~overlap' PROVE InStep'
      <4>1. (base <= state.revision)' /\ AtCommit' /\ AtRecord'
        BY <1>0, <2>1, <2>3, <3>1 DEF AtCommit, AtRecord, WithLoaded
      <4>2. ASSUME NEW r \in Rival PROVE RivalFits(r)'
        <5>1. rivalStage[r] # "compared" /\ base = state.revision
          BY <2>1, <3>5, <3>8 DEF Compared, InStep, AtCommit
        <5>2. rivalLoaded[r].revision \in Nat
          BY <1>0 DEF TurnTypeOK, CardState
        <5>3. rivalStage[r] = "loaded" => rivalLoaded[r].revision <= base
          BY <3>5, <3>8, <5>1 DEF InStep, RivalFits
        <5> QED
          BY <1>0, <2>1, <3>1, <5>1, <5>2, <5>3 DEF RivalFits
      <4> QED
        BY <4>1, <4>2 DEF InStep
    <3> QED
      BY <2>1, <2>3, <3>3, <3>4, <3>7, <3>8 DEF TurnInv, Accepted
  <2> QED
    BY <1>5, <2>2, <2>3 DEF WriteState
<1> QED
  BY <1>2, <1>3, <1>4, <1>5

LEMMA RecordMoves ==
  ASSUME TurnInv, RecordTurn \/ (\E stores \in BOOLEAN : CommitActive(stores) \/ CommitRag(stores))
  PROVE  TurnInv'
<1>0. /\ TurnTypeOK /\ WritesFollowGate
      /\ base \in Nat /\ retries \in Nat /\ operations \in BOOLEAN
      /\ state.revision \in Nat
  BY TypesOfTurn DEF TurnInv
<1>1. /\ verdict = "accept" /\ outcome = "none"
      /\ UNCHANGED <<base, retries, verdict, operations, loaded, state, rivals>>
  BY DEF RecordTurn, CommitActive, CommitRag, TurnInv, Accepted
<1>2. ASSUME ~overlap', turnStage' # "recording", turnStage' \notin WithLoaded PROVE InStep'
  <2>1. InStep
    BY <1>1, <1>2 DEF TurnInv, rivals
  <2> QED
    BY <1>1, <1>2, <2>1, RivalsStayInStep DEF InStep, AtCommit, AtRecord, WithLoaded
<1>3. CASE RecordTurn
  <2> DEFINE new == [before |-> base, after |-> IF operations THEN base + 1 ELSE base]
  <2>1. /\ record' = new /\ turnStage' = "active memory" /\ memory = {}
        /\ UNCHANGED <<memory, outcome>>
    BY <1>3 DEF RecordTurn, TurnInv
  <2>2. new \in RecordRevisions /\ new.before = base
        /\ new.after = base + (IF operations THEN 1 ELSE 0)
    BY <1>0 DEF RecordRevisions
  <2>3. record' # NoRecord
    BY <2>1, <2>2, NoRecordAssumption
  <2>4. TurnTypeOK'
    BY <1>0, <1>1, <2>1, <2>2 DEF TurnTypeOK, TurnStage, rivals
  <2>5. ~overlap => AtRecord /\ turnStage = "recording"
    BY <1>3 DEF RecordTurn, TurnInv, InStep
  <2>6. WritesFollowGate'
    BY <1>0, <1>1, <2>1, <2>2, <2>3, <2>5 DEF WritesFollowGate, AtRecord, rivals
  <2> QED
    BY <1>1, <1>2, <2>1, <2>3, <2>4, <2>6 DEF TurnInv, Accepted, WithLoaded
<1>4. ASSUME NEW stores \in BOOLEAN, CommitActive(stores) \/ CommitRag(stores) PROVE TurnInv'
  <2>1. /\ record # NoRecord /\ record' = record
        /\ memory' \subseteq memory \cup {"active", "rag"}
        /\ \/ turnStage' = "rag memory" /\ outcome' = outcome
           \/ turnStage' = "ended" /\ outcome' = "success"
    BY <1>4 DEF CommitActive, CommitRag, End, TurnInv
  <2>2. TurnTypeOK'
    BY <1>0, <1>1, <2>1 DEF TurnTypeOK, TurnStage, TurnOutcome, rivals
  <2>3. WritesFollowGate'
    BY <1>0, <1>1, <2>1 DEF WritesFollowGate, rivals
  <2> QED
    BY <1>1, <1>2, <2>1, <2>2, <2>3 DEF TurnInv, Accepted, WithLoaded
<1> QED
  BY <1>3, <1>4

(* What another turn does leaves the turn where it is.                     *)
LEMMA RivalMoves == ASSUME TurnInv, OtherTurns PROVE TurnInv'
<1>0. /\ TurnTypeOK /\ WritesFollowGate
      /\ base \in Nat /\ operations \in BOOLEAN /\ overlap \in BOOLEAN
      /\ state \in CardState
      /\ state.revision \in Nat /\ state.others \in Nat /\ state.mine \in BOOLEAN
      /\ rivalStage \in [Rival -> RivalStage] /\ rivalLoaded \in [Rival -> CardState]
  BY TypesOfTurn DEF TurnInv, TurnTypeOK
<1>a. UNCHANGED generated
  BY DEF OtherTurns, RivalLoads, RivalCompares, RivalWrites
<1>1. ASSUME NEW r \in Rival, RivalLoads(r) PROVE TurnInv'
  <2>1. /\ rivalStage' = [rivalStage EXCEPT ![r] = "loaded"]
        /\ rivalLoaded' = [rivalLoaded EXCEPT ![r] = state]
        /\ UNCHANGED <<state, overlap>>
    BY <1>1 DEF RivalLoads
  <2>2. TurnTypeOK'
    <3>1. rivalStage' \in [Rival -> RivalStage] /\ rivalLoaded' \in [Rival -> CardState]
      BY <1>0, <2>1 DEF RivalStage
    <3> QED
      BY <1>0, <1>a, <2>1, <3>1 DEF TurnTypeOK, generated
  <2>3. WritesFollowGate'
    BY <1>0, <1>a, <2>1 DEF WritesFollowGate, generated
  <2>4. Unwritten => Unwritten'
    BY <1>0, <1>a, <2>1 DEF Unwritten, generated
  <2>5. (\E q \in Rival : rivalLoaded[q].mine)' => verdict' = "accept"
    BY <1>0, <1>a, <2>1 DEF generated, TurnInv, WritesFollowGate
  <2>6. ASSUME ~overlap' PROVE InStep'
    <3>1. InStep
      BY <2>1, <2>6 DEF TurnInv
    <3>2. \A q \in Rival : RivalFits(q)'
      BY <1>0, <2>1, <3>1 DEF InStep, RivalFits
    <3> QED
      BY <1>a, <2>1, <3>1, <3>2 DEF InStep, AtCommit, AtRecord, WithLoaded, generated
  <2> QED
    BY <1>a, <2>2, <2>3, <2>4, <2>5, <2>6 DEF TurnInv, Accepted, generated
<1>2. ASSUME NEW r \in Rival, NEW valid \in BOOLEAN, RivalCompares(r, valid) PROVE TurnInv'
  <2> DEFINE to == IF valid /\ state.revision = rivalLoaded[r].revision THEN "compared" ELSE "done"
  <2>1. /\ rivalStage[r] = "loaded" /\ rivalStage' = [rivalStage EXCEPT ![r] = to]
        /\ UNCHANGED <<state, rivalLoaded, overlap>>
    BY <1>2 DEF RivalCompares
  <2>2. TurnTypeOK'
    <3>1. rivalStage' \in [Rival -> RivalStage]
      BY <1>0, <2>1 DEF RivalStage
    <3> QED
      BY <1>0, <1>a, <2>1, <3>1 DEF TurnTypeOK, generated
  <2>3. WritesFollowGate'
    BY <1>0, <1>a, <2>1 DEF WritesFollowGate, generated
  <2>4. Unwritten => Unwritten'
    BY <1>a, <2>1 DEF Unwritten, generated
  <2>5. ASSUME ~overlap' PROVE InStep'
    <3>1. InStep
      BY <2>1, <2>5 DEF TurnInv
    <3>2. ASSUME NEW q \in Rival PROVE RivalFits(q)'
      <4>1. CASE q = r
        <5>1. rivalStage'[r] = to
          BY <1>0, <2>1
        <5>2. rivalLoaded[r].revision = state.revision => rivalLoaded[r] = state
          BY <2>1, <3>1 DEF InStep, RivalFits
        <5> QED
          BY <2>1, <4>1, <5>1, <5>2 DEF RivalFits
      <4>2. CASE q # r
        BY <1>0, <2>1, <3>1, <4>2 DEF InStep, RivalFits
      <4> QED
        BY <4>1, <4>2
    <3> QED
      BY <1>a, <2>1, <3>1, <3>2 DEF InStep, AtCommit, AtRecord, WithLoaded, generated
  <2> QED
    BY <1>a, <2>1, <2>2, <2>3, <2>4, <2>5 DEF TurnInv, Accepted, generated
<1>3. ASSUME NEW r \in Rival, RivalWrites(r) PROVE TurnInv'
  <2> DEFINE old == rivalLoaded[r]
             new == [revision |-> old.revision + 1, mine |-> old.mine, others |-> old.others + 1]
  <2>1. /\ rivalStage[r] = "compared" /\ rivalStage' = [rivalStage EXCEPT ![r] = "done"]
        /\ overlap' = (overlap \/ turnStage = "storing" \/ Compared # {r})
        /\ rivalLoaded' = rivalLoaded
        /\ state' = [old EXCEPT !.revision = @ + 1, !.others = @ + 1]
    BY <1>3 DEF RivalWrites
  <2>2. old \in CardState /\ old.revision \in Nat /\ old.others \in Nat /\ old.mine \in BOOLEAN
    BY <1>0 DEF CardState
  <2>3. state' = new
    BY <2>1, <2>2 DEF CardState
  <2>4. state' \in CardState /\ state'.revision = old.revision + 1 /\ state'.mine = old.mine
        /\ state'.others = old.others + 1
    BY <2>2, <2>3 DEF CardState
  <2>5. TurnTypeOK'
    <3>1. rivalStage' \in [Rival -> RivalStage] /\ overlap' \in BOOLEAN
      BY <1>0, <2>1 DEF RivalStage
    <3> QED
      BY <1>0, <1>a, <2>1, <2>4, <3>1 DEF TurnTypeOK, generated
  <2>6. ~overlap' =>
          ~overlap /\ turnStage # "storing" /\ Compared = {r} /\ InStep /\ old = state
    BY <2>1 DEF TurnInv, InStep, RivalFits
  <2>7. Unwritten => Unwritten'
    BY <1>a, <2>1, <2>4 DEF Unwritten, generated
  <2>8. old.mine => verdict = "accept"
    BY DEF TurnInv
  <2>9. ASSUME ~overlap'
        PROVE  /\ state'.revision = state.revision + 1 /\ state'.mine = state.mine
               /\ state'.others = state.others + 1
    BY <2>4, <2>6, <2>9
  <2>10. WritesFollowGate'
    <3>1. /\ (state.mine \/ record # NoRecord \/ memory # {} => verdict = "accept")'
          /\ (memory # {} => record # NoRecord)'
          /\ (record # NoRecord => record.after = record.before + (IF operations THEN 1 ELSE 0))'
          /\ (outcome = "success" => record # NoRecord)'
      BY <1>0, <1>a, <2>4, <2>8 DEF WritesFollowGate, generated
    <3>2. (outcome \in {"rejected", "commit failed"} => ~state.mine /\ record = NoRecord)'
      BY <1>a, <2>7 DEF TurnInv, Unwritten, generated
    <3>3. ASSUME ~overlap'
          PROVE  /\ (record # NoRecord => state.mine = operations /\ state.revision >= record.after)'
                 /\ (state.revision = state.others + (IF state.mine THEN 1 ELSE 0))'
      <4>1. record # NoRecord => record.after \in Nat
        BY <1>0 DEF TurnTypeOK, RecordRevisions
      <4>2. /\ record # NoRecord => state.mine = operations /\ state.revision >= record.after
            /\ state.revision = state.others + (IF state.mine THEN 1 ELSE 0)
        BY <1>0, <2>6, <3>3 DEF WritesFollowGate
      <4> QED
        BY <1>0, <1>a, <2>9, <3>3, <4>1, <4>2 DEF generated
    <3> QED
      BY <3>1, <3>2, <3>3 DEF WritesFollowGate
  <2>11. ASSUME ~overlap' PROVE InStep'
    <3>1. base <= state.revision /\ AtCommit /\ AtRecord /\ turnStage # "storing"
      BY <2>6, <2>11 DEF InStep
    <3>2. loaded.revision \in Nat
      BY <1>0, TypesOfTurn
    <3>3. (base <= state.revision)' /\ AtCommit'
      BY <1>0, <1>a, <2>9, <2>11, <3>1, <3>2 DEF AtCommit, WithLoaded, generated
    <3>4. AtRecord'
      BY <1>0, <1>a, <2>9, <2>11, <3>1 DEF AtRecord, generated
    <3>5. ASSUME NEW q \in Rival PROVE RivalFits(q)'
      <4>1. rivalStage'[q] # "compared"
        BY <1>0, <2>1, <2>6, <2>11 DEF Compared
      <4>2. rivalStage'[q] = "loaded" => rivalStage[q] = "loaded"
        BY <1>0, <2>1
      <4>3. rivalLoaded[q].revision \in Nat
        BY <1>0 DEF CardState
      <4>4. rivalStage'[q] = "loaded" => rivalLoaded[q].revision <= state.revision
        BY <2>6, <2>11, <4>2 DEF InStep, RivalFits
      <4> QED
        BY <1>0, <2>1, <2>9, <2>11, <4>1, <4>3, <4>4 DEF RivalFits
    <3> QED
      BY <3>3, <3>4, <3>5 DEF InStep
  <2> QED
    BY <1>a, <2>1, <2>5, <2>7, <2>10, <2>11 DEF TurnInv, Accepted, generated
<1> QED
  BY <1>1, <1>2, <1>3 DEF OtherTurns

LEMMA TurnMoves ==
  ASSUME TurnInv, BuildSnapshot \/ StartWriting \/ TurnStep \/ Raise \/ OtherTurns
  PROVE  TurnInv'
<1>1. CASE \E allowed \in BOOLEAN : \E answer \in {"revise", "reject"} : Reject(answer, allowed)
  BY <1>1, FailureMoves DEF Reject, End, TurnInv, Verdict
<1>2. CASE Raise
  BY <1>2, FailureMoves DEF Raise, End
<1> QED
  BY <1>1, <1>2, EarlyMoves, CommitMoves, RecordMoves, RivalMoves DEF TurnStep

-----------------------------------------------------------------------------
(* The review of the suggestions.  Every path of an adopted suggestion is  *)
(* held by it, and whatever holds a path broke no rule of the merge.       *)

Harmless(i) == ~Has(i, "banned") /\ ~Has(i, "unproven")

Apart ==
  /\ adopted \cap ignored = {} /\ adopted \cap conflicts = {} /\ ignored \cap conflicts = {}

PathsHeld ==
  /\ \A i \in adopted : \A p \in items[i].paths : p \in DOMAIN taken /\ taken[p] = i
  /\ \A p \in DOMAIN taken : p \in items[taken[p]].paths /\ Harmless(taken[p])

Lost(i) ==
  \/ Has(i, "leak")
  \/ \E j \in 1..(i - 1) : items[i].paths \cap items[j].paths # {} /\ Harmless(j)

Resolved ==
  /\ merged = Len(items)
  /\ \A i \in adopted : items[i].flaws = {}

ReviewInv ==
  /\ ReviewTypeOK
  /\ reviewStage = "waiting" => merged = 0 /\ taken = NothingTaken
  /\ Apart
  /\ PathsHeld
  /\ Cardinality(adopted) <= MaxAdopted
  /\ \A i \in adopted : Harmless(i)
  /\ \A i \in conflicts : Lost(i)
  /\ reviewStage = "governing" => merged = Len(items)
  /\ reviewStage = "resolving" => Resolved
  /\ resolution # NoResolution =>
       /\ reviewStage = "done" /\ Resolved
       /\ resolution = [accepted |-> adopted, rejected |-> ignored \cup conflicts]

LEMMA NothingIsTaken == DOMAIN NothingTaken = {}
BY DEF NothingTaken

LEMMA ReviewStarts == ReviewInit => ReviewInv
<1> SUFFICES ASSUME ReviewInit PROVE ReviewInv
  OBVIOUS
<1>1. /\ items = <<>> /\ Len(items) = 0 /\ 1..merged = {} /\ merged = 0 /\ taken = NothingTaken
      /\ adopted = {} /\ ignored = {} /\ conflicts = {} /\ resolution = NoResolution
      /\ reviewStage = "waiting"
  BY DEF ReviewInit
<1>2. ReviewTypeOK
  <2>1. items \in Seq(Suggestion) /\ merged \in 0..Len(items)
    BY <1>1
  <2>2. \A kind \in DOMAIN resolution : resolution[kind] \subseteq 1..merged
    BY <1>1 DEF NoResolution
  <2> QED
    BY <1>1, <2>1, <2>2, NothingIsTaken, Zenon DEF ReviewInit, ReviewTypeOK, ReviewStage
<1>3. Cardinality(adopted) <= MaxAdopted
  BY <1>1, FS_EmptySet, ReviewAssumption
<1> QED
  BY <1>1, <1>2, <1>3, NothingIsTaken DEF ReviewInv, Apart, PathsHeld

LEMMA ReviewForgets == ASSUME ReviewForgotten PROVE ReviewInv'
<1>1. /\ items' = <<>> /\ Len(items') = 0 /\ 1..merged' = {} /\ merged' = 0
      /\ taken' = NothingTaken /\ adopted' = {} /\ ignored' = {} /\ conflicts' = {}
      /\ resolution' = NoResolution /\ reviewStage' = "waiting"
  BY DEF ReviewForgotten
<1>2. ReviewTypeOK'
  <2>1. items' \in Seq(Suggestion) /\ merged' \in 0..Len(items')
    BY <1>1
  <2>2. \A kind \in DOMAIN resolution' : resolution'[kind] \subseteq 1..merged'
    BY <1>1 DEF NoResolution
  <2> QED
    BY <1>1, <2>1, <2>2, NothingIsTaken, Zenon DEF ReviewForgotten, ReviewTypeOK, ReviewStage
<1>3. Cardinality(adopted') <= MaxAdopted
  BY <1>1, FS_EmptySet, ReviewAssumption
<1> QED
  BY <1>1, <1>2, <1>3, NothingIsTaken DEF ReviewInv, Apart, PathsHeld

LEMMA ReviewStays == ASSUME ReviewInv, UNCHANGED reviewVars PROVE ReviewInv'
BY DEF ReviewInv, reviewVars, ReviewTypeOK, Apart, PathsHeld, Harmless, Has, Lost, Resolved

(* The merge begins: there is nothing in the lists yet.                    *)
LEMMA ReviewBegins ==
  ASSUME ReviewInv, NEW s \in Seq(Suggestion), NEW g \in BOOLEAN, StartMerge(s, g)
  PROVE  ReviewInv'
<1>1. /\ merged = 0 /\ taken = NothingTaken /\ resolution = NoResolution
      /\ items' = s /\ governed' = g /\ reviewStage' = "merging"
      /\ UNCHANGED <<merged, taken, adopted, ignored, conflicts, resolution>>
  BY DEF StartMerge, ReviewInv
<1>2. adopted = {} /\ ignored = {} /\ conflicts = {}
  BY <1>1 DEF ReviewInv, ReviewTypeOK
<1>3. ReviewTypeOK'
  <2>1. Len(s) \in Nat
    OBVIOUS
  <2> QED
    BY <1>1, <1>2, <2>1, NothingIsTaken DEF ReviewInv, ReviewTypeOK, ReviewStage, NoResolution
<1>4. Cardinality(adopted') <= MaxAdopted
  BY <1>1 DEF ReviewInv
<1> QED
  BY <1>1, <1>2, <1>3, <1>4, NothingIsTaken DEF ReviewInv, Apart, PathsHeld

LEMMA AdoptedAreFinite ==
  ASSUME ReviewInv
  PROVE  IsFiniteSet(adopted) /\ Cardinality(adopted) \in Nat /\ merged \in Nat
<1>1. merged \in Nat /\ adopted \subseteq 1..merged
  BY DEF ReviewInv, ReviewTypeOK
<1>2. IsFiniteSet(1..merged)
  BY <1>1, FS_Interval
<1>3. IsFiniteSet(adopted)
  BY <1>1, <1>2, FS_Subset
<1> QED
  BY <1>1, <1>3, FS_CardinalityType

LEMMA MergeKeepsInv == ASSUME ReviewInv, MergeNext PROVE ReviewInv'
<1> DEFINE i == merged + 1
<1>1. /\ ReviewTypeOK /\ Apart /\ PathsHeld /\ merged \in Nat /\ items \in Seq(Suggestion)
      /\ adopted \subseteq 1..merged /\ ignored \subseteq 1..merged /\ conflicts \subseteq 1..merged
      /\ adopted \cup ignored \cup conflicts = 1..merged
      /\ Cardinality(adopted) \in Nat /\ IsFiniteSet(adopted)
      /\ resolution = NoResolution /\ reviewStage = "merging"
  <2>1. reviewStage = "merging"
    BY DEF MergeNext
  <2> QED
    BY <2>1, AdoptedAreFinite DEF ReviewInv, ReviewTypeOK
<1>2. /\ i \in 1..Len(items) /\ merged' = i /\ 1..i = (1..merged) \cup {i} /\ i \notin 1..merged
      /\ UNCHANGED <<reviewStage, items, governed, resolution>>
  BY <1>1 DEF MergeNext
<1>3. items[i].paths \subseteq Path
  BY <1>1, <1>2, ReviewAssumption
<1>4. \A k : Harmless(k)' <=> Harmless(k)
  BY <1>2 DEF Harmless, Has
<1>5. \A k : Lost(k) => Lost(k)'
  BY <1>2, <1>4 DEF Lost, Has
<1> HIDE DEF i
<1>6. CASE ~Harmless(i)
  <2>1. ignored' = ignored \cup {i} /\ UNCHANGED <<taken, adopted, conflicts>>
    BY <1>6 DEF MergeNext, Harmless, i
  <2>2. ReviewTypeOK'
    BY <1>1, <1>2, <2>1 DEF ReviewTypeOK, NoResolution
  <2>3. Apart' /\ PathsHeld'
    BY <1>1, <1>2, <1>4, <2>1 DEF Apart, PathsHeld
  <2> QED
    BY <1>1, <1>2, <1>4, <1>5, <2>1, <2>2, <2>3 DEF ReviewInv
<1>7. CASE Harmless(i) /\ Clashes(i)
  <2>1. conflicts' = conflicts \cup {i} /\ UNCHANGED <<taken, adopted, ignored>>
    BY <1>7 DEF MergeNext, Harmless, i
  <2>2. ReviewTypeOK'
    BY <1>1, <1>2, <2>1 DEF ReviewTypeOK, NoResolution
  <2>3. Apart' /\ PathsHeld'
    BY <1>1, <1>2, <1>4, <2>1 DEF Apart, PathsHeld
  <2>4. Lost(i)
    <3>1. PICK p \in items[i].paths : p \in DOMAIN taken
      BY <1>7 DEF Clashes
    <3>2. taken[p] \in 1..merged /\ p \in items[taken[p]].paths /\ Harmless(taken[p])
      BY <1>1, <3>1 DEF ReviewTypeOK, PathsHeld
    <3>3. 1..(i - 1) = 1..merged
      BY <1>1 DEF i
    <3> QED
      BY <3>1, <3>2, <3>3 DEF Lost
  <2> QED
    BY <1>1, <1>2, <1>4, <1>5, <2>1, <2>2, <2>3, <2>4 DEF ReviewInv
<1>8. CASE Harmless(i) /\ ~Clashes(i)
  <2>1. /\ taken' = [p \in DOMAIN taken \cup items[i].paths |->
                       IF p \in items[i].paths THEN i ELSE taken[p]]
        /\ \/ Cardinality(adopted) < MaxAdopted /\ adopted' = adopted \cup {i} /\ ignored' = ignored
           \/ adopted' = adopted /\ ignored' = ignored \cup {i}
        /\ conflicts' = conflicts
    BY <1>8 DEF MergeNext, Harmless, i
  <2>2. /\ DOMAIN taken' = DOMAIN taken \cup items[i].paths
        /\ \A p \in items[i].paths : taken'[p] = i /\ p \notin DOMAIN taken
        /\ \A p \in DOMAIN taken : taken'[p] = taken[p]
    BY <1>8, <2>1 DEF Clashes
  <2>3. ReviewTypeOK'
    BY <1>1, <1>2, <1>3, <2>1, <2>2 DEF ReviewTypeOK, NoResolution
  <2>4. Apart'
    BY <1>1, <1>2, <2>1 DEF Apart
  <2>5. PathsHeld'
    <3>1. \A k \in adopted' : \A p \in items[k].paths : p \in DOMAIN taken' /\ taken'[p] = k
      BY <1>1, <2>1, <2>2 DEF PathsHeld
    <3>2. \A p \in DOMAIN taken' : p \in items[taken'[p]].paths /\ Harmless(taken'[p])
      BY <1>1, <1>8, <2>2 DEF PathsHeld
    <3> QED
      BY <1>2, <1>4, <3>1, <3>2 DEF PathsHeld
  <2>6. Cardinality(adopted') <= MaxAdopted
    <3>1. Cardinality(adopted \cup {i}) = Cardinality(adopted) + 1
      <4>1. i \notin adopted
        BY <1>1, <1>2
      <4> QED
        BY <1>1, <4>1, FS_AddElement
    <3>2. Cardinality(adopted) <= MaxAdopted /\ MaxAdopted \in Nat
      BY ReviewAssumption DEF ReviewInv
    <3>3. Cardinality(adopted) < MaxAdopted => Cardinality(adopted) + 1 <= MaxAdopted
      BY <1>1, <3>2
    <3> QED
      BY <2>1, <3>1, <3>2, <3>3
  <2>7. \A k \in adopted' : Harmless(k)
    BY <1>8, <2>1 DEF ReviewInv
  <2> QED
    BY <1>1, <1>2, <1>4, <1>5, <2>1, <2>3, <2>4, <2>5, <2>6, <2>7 DEF ReviewInv
<1> QED
  BY <1>6, <1>7, <1>8

LEMMA GovernKeepsInv == ASSUME ReviewInv, Govern PROVE ReviewInv'
<1>1. /\ ReviewTypeOK /\ Apart /\ PathsHeld /\ merged = Len(items)
      /\ resolution = NoResolution /\ IsFiniteSet(adopted) /\ Cardinality(adopted) \in Nat
      /\ items \in Seq(Suggestion) /\ adopted \subseteq 1..merged
      /\ merged \in Nat
  BY AdoptedAreFinite DEF Govern, ReviewInv, ReviewTypeOK
<1>2. /\ adopted' = adopted \ (Leaks \cup Blocked) /\ ignored' = ignored \cup Blocked
      /\ conflicts' = conflicts \cup Leaks /\ reviewStage' = "resolving"
      /\ UNCHANGED <<items, governed, merged, taken, resolution>>
      /\ Leaks \subseteq adopted /\ Blocked \subseteq adopted \ Leaks
  BY DEF Govern, Leaks, Blocked
<1>3. \A k : (Harmless(k)' <=> Harmless(k)) /\ (Lost(k)' <=> Lost(k))
  BY <1>2 DEF Harmless, Has, Lost
<1>4. ReviewTypeOK'
  BY <1>1, <1>2 DEF ReviewTypeOK, ReviewStage, NoResolution
<1>5. Apart' /\ PathsHeld'
  BY <1>1, <1>2, <1>3 DEF Apart, PathsHeld
<1>6. Cardinality(adopted') <= MaxAdopted
  <2>1. Cardinality(adopted') <= Cardinality(adopted) /\ Cardinality(adopted') \in Nat
    BY <1>1, <1>2, FS_Subset, FS_CardinalityType
  <2> QED
    BY <1>1, <2>1, ReviewAssumption DEF ReviewInv
<1>7. Resolved'
  <2>1. ASSUME NEW k \in adopted' PROVE items[k].flaws = {}
    <3>1. ~Has(k, "banned") /\ ~Has(k, "unproven")
      BY <1>2 DEF ReviewInv, Harmless
    <3>2. ~Has(k, "leak") /\ ~Has(k, "agency") /\ ~Has(k, "unsourced")
      BY <1>2 DEF Leaks, Blocked
    <3>3. items[k].flaws \subseteq Flaw
      BY <1>1, <1>2, ReviewAssumption
    <3> QED
      BY <3>1, <3>2, <3>3 DEF Has, Flaw
  <2> QED
    BY <1>1, <1>2, <2>1 DEF Resolved
<1>8. \A k \in Leaks : Lost(k)
  BY DEF Leaks, Lost
<1> QED
  BY <1>1, <1>2, <1>3, <1>4, <1>5, <1>6, <1>7, <1>8 DEF ReviewInv

LEMMA ReviewMoves == ASSUME ReviewInv, ReviewStep PROVE ReviewInv'
<1>1. CASE EndMerge
  <2>1. /\ reviewStage' \in {"governing", "done"} /\ merged = Len(items) /\ reviewStage = "merging"
        /\ UNCHANGED <<items, governed, merged, taken, adopted, ignored, conflicts, resolution>>
    BY <1>1 DEF EndMerge
  <2>2. ReviewTypeOK' /\ Apart' /\ PathsHeld'
    BY <2>1 DEF ReviewInv, ReviewTypeOK, ReviewStage, Apart, PathsHeld, Harmless, Has
  <2>3. \A k : (Harmless(k)' <=> Harmless(k)) /\ (Lost(k)' <=> Lost(k))
    BY <2>1 DEF Harmless, Has, Lost
  <2> QED
    BY <2>1, <2>2, <2>3 DEF ReviewInv
<1>2. CASE Resolve
  <2>1. /\ reviewStage' = "done" /\ reviewStage = "resolving"
        /\ resolution' = [accepted |-> adopted, rejected |-> ignored \cup conflicts]
        /\ UNCHANGED <<items, governed, merged, taken, adopted, ignored, conflicts>>
    BY <1>2 DEF Resolve
  <2>2. ReviewTypeOK' /\ Apart' /\ PathsHeld' /\ Resolved'
    BY <2>1 DEF ReviewInv, ReviewTypeOK, ReviewStage, Apart, PathsHeld, Harmless, Has, Resolved
  <2>3. \A k : (Harmless(k)' <=> Harmless(k)) /\ (Lost(k)' <=> Lost(k))
    BY <2>1 DEF Harmless, Has, Lost
  <2> QED
    BY <2>1, <2>2, <2>3 DEF ReviewInv
<1> QED
  BY <1>1, <1>2, MergeKeepsInv, GovernKeepsInv DEF ReviewStep

LEMMA ReviewDelivers == ASSUME ReviewInv PROVE AdoptedAreCompatible
<1>1. ReviewTypeOK /\ Apart /\ PathsHeld
  BY DEF ReviewInv
<1>2. ASSUME NEW i \in 1..merged
      PROVE  Cardinality({list \in {"adopted", "ignored", "conflicts"} :
               i \in CASE list = "adopted"   -> adopted
                      [] list = "ignored"   -> ignored
                      [] list = "conflicts" -> conflicts}) = 1
  <2> DEFINE In(list) == i \in CASE list = "adopted"   -> adopted
                                 [] list = "ignored"   -> ignored
                                 [] list = "conflicts" -> conflicts
             where == {list \in {"adopted", "ignored", "conflicts"} : In(list)}
  <2>1. /\ In("adopted") <=> i \in adopted
        /\ In("ignored") <=> i \in ignored
        /\ In("conflicts") <=> i \in conflicts
    OBVIOUS
  <2>2. \E list : where = {list}
    <3> HIDE DEF In
    <3>1. i \in adopted \cup ignored \cup conflicts
      BY <1>1 DEF ReviewTypeOK
    <3>2. CASE i \in adopted
      <4>1. where = {"adopted"}
        BY <1>1, <2>1, <3>2 DEF Apart
      <4> QED
        BY <4>1
    <3>3. CASE i \in ignored
      <4>1. where = {"ignored"}
        BY <1>1, <2>1, <3>3 DEF Apart
      <4> QED
        BY <4>1
    <3>4. CASE i \in conflicts
      <4>1. where = {"conflicts"}
        BY <1>1, <2>1, <3>4 DEF Apart
      <4> QED
        BY <4>1
    <3> QED
      BY <3>1, <3>2, <3>3, <3>4
  <2>3. Cardinality(where) = 1
    <3> HIDE DEF where
    <3> QED
      BY <2>2, FS_Singleton
  <2> QED
    BY <2>3
<1>3. \A i, j \in adopted : i # j => items[i].paths \cap items[j].paths = {}
  BY <1>1 DEF PathsHeld
<1>4. \A i \in adopted : ~Has(i, "banned") /\ ~Has(i, "unproven")
  BY DEF ReviewInv, Harmless
<1>5. \A i \in conflicts :
        \/ Has(i, "leak")
        \/ \E j \in 1..(i - 1) : /\ items[i].paths \cap items[j].paths # {}
                                 /\ ~Has(j, "banned") /\ ~Has(j, "unproven")
  BY DEF ReviewInv, Lost, Harmless
<1>6. resolution # NoResolution =>
        /\ \A i \in adopted : items[i].flaws = {}
        /\ resolution.accepted = adopted
        /\ resolution.rejected = DOMAIN items \ adopted
  <2> SUFFICES ASSUME resolution # NoResolution
               PROVE  /\ \A i \in adopted : items[i].flaws = {}
                      /\ resolution.accepted = adopted
                      /\ resolution.rejected = DOMAIN items \ adopted
    OBVIOUS
  <2>1. Resolved /\ resolution = [accepted |-> adopted, rejected |-> ignored \cup conflicts]
    BY DEF ReviewInv
  <2>2. DOMAIN items = adopted \cup ignored \cup conflicts
    BY <1>1, <2>1 DEF ReviewTypeOK, Resolved
  <2> QED
    BY <1>1, <2>1, <2>2 DEF Resolved, Apart
<1> QED
  BY <1>2, <1>3, <1>4, <1>5, <1>6 DEF AdoptedAreCompatible, ReviewInv

-----------------------------------------------------------------------------
(* The director's tools.  A validated plan has room for each request       *)
(* after all those before it: the fold over the requests that validates    *)
(* the plan is taken apart into the sums of their prefixes, by induction   *)
(* on the number of requests.                                              *)

PrefixSums(requests, sum) ==
  /\ sum \in [0..Len(requests) -> Nat]
  /\ sum[0] = 0
  /\ \A i \in 1..Len(requests) : sum[i] = sum[i - 1] + requests[i].tokens

LEMMA TotalIsSum ==
  ASSUME NEW requests \in Seq(Request)
  PROVE  \E sum : PrefixSums(requests, sum) /\ TotalTokens(requests) = sum[Len(requests)]
<1> DEFINE n == Len(requests)
           Sums(D, h) == [s \in SUBSET D |->
                            IF s = {} THEN 0 ELSE h[s \ {Max(s)}] + requests[Max(s)].tokens]
           Sum(m) == \E h \in [SUBSET (1..m) -> Nat] : h = Sums(1..m, h)
           iter == CHOOSE h : h = Sums(1..n, h)
<1>1. n \in Nat /\ DOMAIN requests = 1..n /\ \A i \in 1..n : requests[i].tokens \in Nat
  <2>1. n \in Nat /\ DOMAIN requests = 1..n /\ \A i \in 1..n : requests[i] \in Request
    OBVIOUS
  <2> QED
    BY <2>1 DEF Request
<1>2. TotalTokens(requests) = iter[1..n]
  <2>1. TotalTokens(requests)
          = LET h == CHOOSE h : h = Sums(DOMAIN requests, h) IN h[DOMAIN requests]
    BY DEF TotalTokens, FoldLeft, MapThenFoldSet
  <2> QED
    BY <1>1, <2>1
<1>3. \A m \in 0..n : Sum(m)
  <2> DEFINE missing == {m \in 0..n : ~Sum(m)}
  <2> SUFFICES ASSUME missing # {} PROVE FALSE
    OBVIOUS
  <2>1. missing \subseteq Nat
    OBVIOUS
  <2>2. PICK m \in missing : \A k \in missing : m <= k
    <3> HIDE DEF missing
    <3> QED
      BY <2>1, Smallest
  <2>3. Sum(0)
    <3> DEFINE zero == [s \in SUBSET (1..0) |-> 0]
    <3>1. 1..0 = {} /\ SUBSET {} = {{}}
      OBVIOUS
    <3>2. zero \in [SUBSET (1..0) -> Nat] /\ zero = Sums(1..0, zero)
      BY <3>1
    <3> HIDE DEF zero
    <3> QED
      BY <3>2
  <2>4. m \in 1..n /\ m - 1 \in 0..n /\ m - 1 \notin missing
    <3>1. m \in 0..n /\ m # 0
      BY <2>3
    <3> HIDE DEF missing
    <3>2. m - 1 \in 0..n /\ ~(m <= m - 1)
      BY <1>1, <3>1
    <3> QED
      BY <1>1, <2>2, <3>1, <3>2
  <2>5. PICK h \in [SUBSET (1..(m - 1)) -> Nat] : h = Sums(1..(m - 1), h)
    BY <2>4
  <2> DEFINE g == [s \in SUBSET (1..m) |->
                     IF m \in s THEN h[s \ {m}] + requests[m].tokens ELSE h[s]]
  <2>6. \A s \in SUBSET (1..m) : m \notin s => s \in SUBSET (1..(m - 1))
    BY <1>1, <2>4
  <2>7. g \in [SUBSET (1..m) -> Nat]
    BY <1>1, <2>4, <2>6, SMTT(30)
  <2>8. ASSUME NEW s \in SUBSET (1..m)
        PROVE  g[s] = IF s = {} THEN 0 ELSE g[s \ {Max(s)}] + requests[Max(s)].tokens
    <3>1. CASE s = {}
      <4>1. m \notin s /\ s \in SUBSET (1..(m - 1)) /\ h[s] = 0
        BY <2>5, <3>1
      <4> QED
        BY <3>1, <4>1
    <3>2. CASE m \in s
      <4>1. Max(s) = m
        <5>1. m \in Nat /\ s \in SUBSET (0..m)
          BY <1>1, <2>4
        <5>2. Max(s) \in s /\ m <= Max(s)
          BY <3>2, <5>1, Largest
        <5>3. Max(s) \in 1..m
          BY <5>2
        <5> QED
          BY <5>1, <5>2, <5>3
      <4>2. s \ {m} \in SUBSET (1..m) /\ m \notin s \ {m}
        OBVIOUS
      <4> QED
        BY <3>2, <4>1, <4>2
    <3>3. CASE s # {} /\ m \notin s
      <4>1. Max(s) \in s /\ s \in SUBSET (1..(m - 1))
        <5>1. m \in Nat /\ s \in SUBSET (0..m)
          BY <1>1, <2>4
        <5> QED
          BY <2>6, <3>3, <5>1, Largest
      <4>2. h[s] = h[s \ {Max(s)}] + requests[Max(s)].tokens
        BY <2>5, <3>3, <4>1
      <4>3. s \ {Max(s)} \in SUBSET (1..m) /\ m \notin s \ {Max(s)}
        BY <3>3
      <4> HIDE DEF Sums
      <4> QED
        BY <3>3, <4>1, <4>2, <4>3
    <3> QED
      BY <3>1, <3>2, <3>3
  <2>9. g = Sums(1..m, g)
    <3> HIDE DEF missing, Sum
    <3>1. g = [s \in SUBSET (1..m) |-> g[s]]
      OBVIOUS
    <3> HIDE DEF g
    <3> QED
      BY <2>8, <3>1
  <2>10. Sum(m)
    <3> HIDE DEF g, missing, Sums
    <3> QED
      BY <2>7, <2>9
  <2> QED
    <3> HIDE DEF Sum
    <3> QED
      BY <2>2, <2>10
<1>4. PICK h \in [SUBSET (1..n) -> Nat] : h = Sums(1..n, h)
  <2>1. Sum(n)
    <3> HIDE DEF Sum
    <3> QED
      BY <1>1, <1>3
  <2> QED
    BY <2>1
<1>5. iter = Sums(1..n, iter)
  <2> HIDE DEF Sums, Sum
  <2> QED
    BY <1>4
<1> HIDE DEF iter
<1> DEFINE sum == [i \in 0..n |-> iter[1..i]]
<1>6. iter[{}] = 0
  BY <1>1, <1>5
<1>7. ASSUME NEW i \in 1..n
      PROVE  iter[1..i] = iter[1..(i - 1)] + requests[i].tokens
  <2>1. Max(1..i) = i
    <3>1. i \in Nat /\ 1..i \in SUBSET (0..i) /\ i \in 1..i
      BY <1>1
    <3>2. Max(1..i) \in 1..i /\ i <= Max(1..i)
      BY <3>1, Largest
    <3> QED
      BY <3>1, <3>2
  <2>2. (1..i) \ {i} = 1..(i - 1) /\ 1..i # {} /\ 1..i \in SUBSET (1..n)
    BY <1>1
  <2> QED
    BY <1>5, <2>1, <2>2
<1>8. \A i \in 0..n : iter[1..i] \in Nat
  <2> DEFINE missing == {i \in 0..n : iter[1..i] \notin Nat}
  <2> SUFFICES ASSUME missing # {} PROVE FALSE
    OBVIOUS
  <2>1. missing \subseteq Nat
    OBVIOUS
  <2>2. PICK i \in missing : \A k \in missing : i <= k
    <3> HIDE DEF missing
    <3> QED
      BY <2>1, Smallest
  <2>3. i \in 0..n /\ iter[1..i] \notin Nat
    OBVIOUS
  <2>4. i # 0
    <3>1. 1..0 = {}
      OBVIOUS
    <3> QED
      BY <1>6, <2>3, <3>1
  <2>5. i \in 1..n /\ i - 1 \in 0..n /\ ~(i <= i - 1)
    BY <1>1, <2>3, <2>4
  <2>6. iter[1..(i - 1)] \in Nat
    BY <2>2, <2>5
  <2> QED
    BY <1>1, <1>7, <2>3, <2>5, <2>6
<1>9. /\ sum \in [0..n -> Nat]
      /\ sum[0] = 0
      /\ \A i \in 1..n : sum[i] = sum[i - 1] + requests[i].tokens
      /\ sum[n] = iter[1..n]
  <2>1. 1..0 = {} /\ 0 \in 0..n /\ n \in 0..n /\ \A i \in 1..n : i \in 0..n /\ i - 1 \in 0..n
    BY <1>1
  <2> QED
    BY <1>6, <1>7, <1>8, <2>1
<1>10. PrefixSums(requests, sum)
  BY <1>9 DEF PrefixSums
<1> HIDE DEF sum
<1> QED
  BY <1>2, <1>9, <1>10

LEMMA PrefixSumsGrow ==
  ASSUME NEW requests \in Seq(Request), NEW sum, PrefixSums(requests, sum)
  PROVE  \A i \in 0..Len(requests) : sum[i] <= sum[Len(requests)]
<1> DEFINE n == Len(requests)
           above == {i \in 0..n : ~(sum[i] <= sum[n])}
<1>1. n \in Nat /\ \A i \in 0..n : sum[i] \in Nat
  BY DEF PrefixSums
<1> SUFFICES ASSUME above # {} PROVE FALSE
  OBVIOUS
<1>2. above \in SUBSET (0..n)
  OBVIOUS
<1>3. Max(above) \in above /\ \A y \in above : y <= Max(above)
  <2> HIDE DEF above
  <2> QED
    BY <1>1, <1>2, Largest
<1>4. PICK i \in above : \A y \in above : y <= i
  BY <1>3
<1>5. i \in 0..n /\ i # n /\ ~(sum[i] <= sum[n])
  BY <1>1
<1>6. i + 1 \in 1..n /\ (i + 1) - 1 = i /\ ~(i + 1 <= i)
  BY <1>1, <1>5
<1>7. sum[i + 1] = sum[i] + requests[i + 1].tokens /\ requests[i + 1].tokens \in Nat
  <2>1. requests[i + 1] \in Request
    BY <1>6
  <2> QED
    BY <1>6, <2>1 DEF PrefixSums, Request
<1>8. sum[i + 1] <= sum[n]
  BY <1>4, <1>6
<1> QED
  BY <1>1, <1>5, <1>6, <1>7, <1>8

Classified ==
  reported = [successful |-> Enrichment.accepted,
              failed     |-> Enrichment.rejected,
              degraded   |-> Enrichment.degraded]

ReceiptsChain ==
  \A i \in DOMAIN receipts :
    LET r == receipts[i] IN
    /\ r.before = IF i = 1 THEN plan.tokens ELSE receipts[i - 1].after
    /\ r.before - r.after = results[r.request].usage

(* The last receipt shows what is left of the budget.                      *)
ReceiptsShowBudget ==
  tokensLeft = IF receipts = <<>> THEN plan.tokens ELSE receipts[Len(receipts)].after

(* No more was used than the requests so far may use.                      *)
WithinPrefix ==
  \A sum : PrefixSums(plan.requests, sum) => plan.tokens <= tokensLeft + sum[Len(results)]

(* Time is taken by tools that succeed and by nothing else.                *)
TimeIsSpentBySuccess ==
  \/ timeLeft = plan.time
  \/ \E j \in 1..Len(results) : results[j].status = "success" /\ results[j].duration > 0

RefusedForTime ==
  \A i \in 1..Len(results) :
    results[i].status = "over budget" =>
      \E j \in 1..(i - 1) : results[j].status = "success" /\ results[j].duration > 0

Running ==
  /\ plan \in ToolPlan /\ ValidPlan(plan)
  /\ Len(results) <= Len(plan.requests)
  /\ ReceiptsShowBudget
  /\ WithinPrefix
  /\ TimeIsSpentBySuccess
  /\ RefusedForTime

Answered ==
  /\ plan \in ToolPlan
  /\ DOMAIN results = DOMAIN plan.requests

ToolInv ==
  /\ ToolTypeOK
  /\ toolStage = "waiting" =>
       plan = NoPlan /\ results = <<>> /\ receipts = <<>> /\ brief = DirectorBrief
  /\ Classified
  /\ ReceiptsChain
  /\ toolStage = "running" => Running
  /\ toolStage = "merging" => Answered
  /\ toolStage = "done" /\ plan # NoPlan =>
       Answered /\ brief = [accepted |-> Enrichment.accepted, rejected |-> Enrichment.rejected]

LEMMA PlansAreTyped ==
  ASSUME NEW p \in ToolPlan
  PROVE  /\ p.requests \in Seq(Request) /\ p.maxRequests \in Nat
         /\ p.tokens \in Nat /\ p.time \in Nat
         /\ p # NoPlan
         /\ \A i \in 1..Len(p.requests) :
              p.requests[i].tokens \in Nat /\ p.requests[i].timeout \in Nat
<1>1. /\ p.requests \in Seq(Request) /\ p.maxRequests \in Nat
      /\ p.tokens \in Nat /\ p.time \in Nat /\ p # NoPlan
  BY ToolAssumption
<1>2. \A i \in 1..Len(p.requests) : p.requests[i] \in Request
  BY <1>1
<1> QED
  BY <1>1, <1>2 DEF Request

LEMMA ToolStarts == ToolInit => ToolInv
<1> SUFFICES ASSUME ToolInit PROVE ToolInv
  OBVIOUS
<1>1. /\ results = <<>> /\ receipts = <<>> /\ DOMAIN results = {} /\ DOMAIN receipts = {}
      /\ toolStage = "waiting" /\ plan = NoPlan /\ reported = NoneReported
      /\ brief = DirectorBrief /\ tokensLeft = 0 /\ timeLeft = 0
  BY DEF ToolInit
<1>2. ToolTypeOK
  <2>1. results \in Seq(ToolResult)
        /\ receipts \in Seq([request: DOMAIN results, before: Nat, after: Nat])
    BY <1>1
  <2>2. brief.accepted \cup brief.rejected = {}
        /\ DOMAIN reported = {"successful", "failed", "degraded"}
        /\ \A kind \in DOMAIN reported : reported[kind] = {}
    BY <1>1 DEF DirectorBrief, NoneReported
  <2> QED
    BY <1>1, <2>1, <2>2 DEF ToolTypeOK, ToolStage
<1>3. Classified
  <2>1. Enrichment = [accepted |-> {}, rejected |-> {}, degraded |-> {}]
    BY <1>1 DEF Enrichment, WithStatus
  <2> QED
    BY <1>1, <2>1 DEF Classified, NoneReported
<1> QED
  BY <1>1, <1>2, <1>3 DEF ToolInv, ReceiptsChain

LEMMA ToolForgets == ASSUME ToolForgotten PROVE ToolInv'
<1>1. /\ results' = <<>> /\ receipts' = <<>> /\ DOMAIN results' = {} /\ DOMAIN receipts' = {}
      /\ toolStage' = "waiting" /\ plan' = NoPlan /\ reported' = NoneReported
      /\ brief' = DirectorBrief /\ tokensLeft' = 0 /\ timeLeft' = 0
  BY DEF ToolForgotten
<1>2. ToolTypeOK'
  <2>1. results' \in Seq(ToolResult)
        /\ receipts' \in Seq([request: DOMAIN results', before: Nat, after: Nat])
    BY <1>1
  <2>2. brief'.accepted \cup brief'.rejected = {}
        /\ DOMAIN reported' = {"successful", "failed", "degraded"}
        /\ \A kind \in DOMAIN reported' : reported'[kind] = {}
    BY <1>1 DEF DirectorBrief, NoneReported
  <2> QED
    BY <1>1, <2>1, <2>2 DEF ToolTypeOK, ToolStage
<1>3. Classified'
  <2>1. Enrichment' = [accepted |-> {}, rejected |-> {}, degraded |-> {}]
    BY <1>1 DEF Enrichment, WithStatus
  <2> QED
    BY <1>1, <2>1 DEF Classified, NoneReported
<1> QED
  BY <1>1, <1>2, <1>3 DEF ToolInv, ReceiptsChain

LEMMA ToolStays == ASSUME ToolInv, UNCHANGED toolVars PROVE ToolInv'
<1>1. UNCHANGED <<toolStage, plan, results, tokensLeft, timeLeft, reported, receipts, brief>>
  BY DEF toolVars
<1>2. UNCHANGED Enrichment
  BY <1>1 DEF Enrichment, WithStatus
<1>3. Running => Running'
  BY <1>1 DEF Running, ReceiptsShowBudget, WithinPrefix, TimeIsSpentBySuccess, RefusedForTime,
          ValidPlan
<1> QED
  BY <1>1, <1>2, <1>3 DEF ToolInv, ToolTypeOK, Classified, ReceiptsChain, Answered

-----------------------------------------------------------------------------
(* One more request is answered, in any of the five ways.                  *)

Filed(i, status) ==
  reported' = [successful |-> reported.successful \cup {k \in {i} : status = "success"},
               failed     |-> reported.failed \cup
                                {k \in {i} : status \notin {"success", "degraded"}},
               degraded   |-> reported.degraded \cup {k \in {i} : status = "degraded"}]

OneMoreAnswer(r) ==
  /\ AtRequest
  /\ r \in ToolResult
  /\ results' = Append(results, r)
  /\ r.usage <= Asked.tokens /\ r.usage <= tokensLeft
  /\ tokensLeft' = tokensLeft - r.usage
  /\ \/ timeLeft' = timeLeft
     \/ r.status = "success" /\ timeLeft' = timeLeft - r.duration
  /\ \/ receipts' = receipts /\ r.usage = 0
     \/ receipts' = Append(receipts, [request |-> Current, before |-> tokensLeft,
                                      after |-> tokensLeft'])
  /\ Filed(Current, r.status)
  /\ r.status = "over budget" => ~InBudget(Asked)
  /\ UNCHANGED <<toolStage, plan, brief>>

(* What holds of the request the loop is at.                               *)
LEMMA RequestIsTyped ==
  ASSUME ToolInv, AtRequest
  PROVE  /\ Running /\ plan \in ToolPlan /\ toolStage = "running"
         /\ Current \in 1..Len(plan.requests) /\ Current = Len(results) + 1
         /\ Current \in Nat /\ Len(results) \in Nat /\ results \in Seq(ToolResult)
         /\ Asked.tokens \in Nat /\ Asked.timeout \in Nat /\ Asked.timeout <= plan.time
         /\ tokensLeft \in Nat /\ timeLeft \in Int /\ plan.time \in Nat /\ plan.tokens \in Nat
         /\ UsageCap \in Nat
<1>1. toolStage = "running" /\ Current \in DOMAIN plan.requests /\ Running
  BY DEF AtRequest, ToolInv
<1>2. /\ plan \in ToolPlan /\ results \in Seq(ToolResult) /\ tokensLeft \in Nat /\ timeLeft \in Int
      /\ \A i \in DOMAIN plan.requests : plan.requests[i].timeout <= plan.time
  BY <1>1 DEF ToolInv, ToolTypeOK, Running, ValidPlan
<1>3. Current \in 1..Len(plan.requests) /\ Current = Len(results) + 1 /\ Len(results) \in Nat
  BY <1>1, <1>2, PlansAreTyped DEF Current
<1> QED
  BY <1>1, <1>2, <1>3, PlansAreTyped, ToolAssumption DEF Asked

(* There are always tokens left for it.                                    *)
LEMMA TokensSuffice ==
  ASSUME ToolInv, AtRequest
  PROVE  Asked.tokens <= tokensLeft
<1> DEFINE n == Len(plan.requests)
           k == Len(results)
<1>1. PICK sum : PrefixSums(plan.requests, sum) /\ TotalTokens(plan.requests) = sum[n]
  BY RequestIsTyped, PlansAreTyped, TotalIsSum
<1>2. /\ plan.requests \in Seq(Request) /\ k + 1 \in 1..n /\ k \in 0..n /\ (k + 1) - 1 = k
      /\ k + 1 \in 0..n
  BY RequestIsTyped, PlansAreTyped
<1>3. plan.tokens <= tokensLeft + sum[k]
  BY <1>1, RequestIsTyped DEF Running, WithinPrefix
<1>4. sum[n] <= plan.tokens
  BY <1>1, RequestIsTyped DEF Running, ValidPlan
<1>5. sum[k + 1] = sum[k] + Asked.tokens /\ sum[k] \in Nat /\ sum[k + 1] \in Nat
  BY <1>1, <1>2 DEF PrefixSums, Asked, Current
<1>6. sum[k + 1] <= sum[n]
  BY <1>1, <1>2, PrefixSumsGrow
<1>7. sum[n] \in Nat
  BY <1>1, <1>2 DEF PrefixSums
<1> HIDE DEF n, k
<1> QED
  BY <1>3, <1>4, <1>5, <1>6, <1>7, RequestIsTyped, SMTT(30)

(* The tokens suffice, so what is over budget has run out of time.         *)
LEMMA OnlyTimeRefuses ==
  ASSUME ToolInv, AtRequest, ~InBudget(Asked)
  PROVE  \E j \in 1..Len(results) : results[j].status = "success" /\ results[j].duration > 0
<1>1. ~(Asked.timeout <= timeLeft)
  BY TokensSuffice DEF InBudget
<1>2. timeLeft # plan.time
  BY <1>1, RequestIsTyped
<1> QED
  BY <1>2, RequestIsTyped DEF Running, TimeIsSpentBySuccess

LEMMA EarlierPlace ==
  ASSUME NEW n \in Nat, NEW m \in 1..n, NEW j \in 1..(m - 1)
  PROVE  j \in 1..n
OBVIOUS

LEMMA AnswerKeepsInv ==
  ASSUME ToolInv, NEW r, OneMoreAnswer(r)
  PROVE  ToolInv'
<1> DEFINE i == Len(results) + 1
<1>0. /\ AtRequest /\ r \in ToolResult /\ results' = Append(results, r)
      /\ UNCHANGED <<toolStage, plan, brief>>
      /\ r.usage \in Nat /\ r.duration \in Nat /\ r.status \in ToolStatus
      /\ r.usage <= Asked.tokens /\ r.usage <= tokensLeft
      /\ tokensLeft' = tokensLeft - r.usage
      /\ timeLeft' = timeLeft \/ (r.status = "success" /\ timeLeft' = timeLeft - r.duration)
  BY DEF OneMoreAnswer, ToolResult
<1>1. /\ Running /\ plan \in ToolPlan /\ toolStage = "running" /\ Current = i
      /\ i \in 1..Len(plan.requests) /\ i \in Nat /\ Len(results) \in Nat
      /\ results \in Seq(ToolResult)
      /\ Asked.tokens \in Nat /\ tokensLeft \in Nat /\ timeLeft \in Int
      /\ plan.tokens \in Nat
  BY <1>0, RequestIsTyped
<1>2. /\ results' \in Seq(ToolResult) /\ Len(results') = i /\ results'[i] = r
      /\ DOMAIN results = 1..Len(results) /\ DOMAIN results' = 1..i
      /\ 1..i = (1..Len(results)) \cup {i} /\ i \notin 1..Len(results)
      /\ i - 1 = Len(results)
      /\ \A k \in 1..Len(results) : results'[k] = results[k]
  BY <1>0, <1>1
<1> HIDE DEF i
<1>3. tokensLeft' = tokensLeft - r.usage /\ tokensLeft' \in Nat
  BY <1>0, <1>1
<1>4. /\ receipts \in Seq([request: DOMAIN results, before: Nat, after: Nat])
      /\ receipts \in Seq([request: DOMAIN results', before: Nat, after: Nat])
  <2>1. receipts \in Seq([request: DOMAIN results, before: Nat, after: Nat])
    BY DEF ToolInv, ToolTypeOK
  <2>2. [request: DOMAIN results, before: Nat, after: Nat]
          \subseteq [request: DOMAIN results', before: Nat, after: Nat]
    BY <1>2
  <2> QED
    BY <2>1, <2>2, SeqMonotonic
<1>5. DOMAIN receipts = 1..Len(receipts) /\ Len(receipts) \in Nat
  BY <1>4
<1>6. ASSUME NEW k \in 1..Len(receipts)
      PROVE  /\ receipts[k].request \in DOMAIN results
             /\ results'[receipts[k].request] = results[receipts[k].request]
             /\ receipts[k].after \in Nat /\ receipts[k].before \in Nat
  <2>1. receipts[k] \in [request: DOMAIN results, before: Nat, after: Nat]
    BY <1>4, ElementOfSeq
  <2> QED
    BY <1>2, <2>1
<1>7. /\ receipts' \in Seq([request: DOMAIN results', before: Nat, after: Nat])
      /\ ReceiptsChain' /\ ReceiptsShowBudget'
  <2>0. ReceiptsChain /\ ReceiptsShowBudget
    BY <1>1 DEF ToolInv, Running
  <2>1. CASE receipts' = receipts /\ r.usage = 0
    <3>1. tokensLeft' = tokensLeft
      BY <1>1, <1>3, <2>1
    <3>2. ReceiptsChain'
      BY <1>0, <1>5, <1>6, <2>0, <2>1 DEF ReceiptsChain
    <3>3. ReceiptsShowBudget'
      BY <1>0, <2>0, <2>1, <3>1 DEF ReceiptsShowBudget
    <3> QED
      BY <1>4, <2>1, <3>2, <3>3
  <2>2. CASE receipts' = Append(receipts, [request |-> Current, before |-> tokensLeft,
                                           after |-> tokensLeft'])
    <3> DEFINE new == [request |-> i, before |-> tokensLeft, after |-> tokensLeft']
               n == Len(receipts) + 1
    <3>1. /\ new \in [request: DOMAIN results', before: Nat, after: Nat]
          /\ receipts' = Append(receipts, new)
          /\ new.request = i /\ new.before = tokensLeft /\ new.after = tokensLeft'
      BY <1>1, <1>2, <1>3, <2>2
    <3> HIDE DEF new
    <3>2. /\ receipts' \in Seq([request: DOMAIN results', before: Nat, after: Nat])
          /\ Len(receipts') = n /\ receipts'[n] = new /\ DOMAIN receipts' = 1..n
          /\ \A k \in 1..Len(receipts) : receipts'[k] = receipts[k]
      BY <1>4, <3>1
    <3>3. ASSUME NEW k \in 1..n
          PROVE  /\ receipts'[k].before = IF k = 1 THEN plan.tokens ELSE receipts'[k - 1].after
                 /\ receipts'[k].before - receipts'[k].after = results'[receipts'[k].request].usage
      <4>1. CASE k \in 1..Len(receipts)
        <5>1. k = 1 \/ k - 1 \in 1..Len(receipts)
          BY <1>5, <4>1
        <5>2. receipts'[k] = receipts[k] /\ (k # 1 => receipts'[k - 1] = receipts[k - 1])
          BY <3>2, <4>1, <5>1
        <5> QED
          BY <1>5, <1>6, <2>0, <4>1, <5>2 DEF ReceiptsChain
      <4>2. CASE k = n
        <5>1. tokensLeft - tokensLeft' = r.usage
          BY <1>0, <1>1, <1>3
        <5>2. tokensLeft = IF k = 1 THEN plan.tokens ELSE receipts'[k - 1].after
          <6>1. CASE Len(receipts) = 0
            BY <1>4, <2>0, <4>2, <6>1 DEF ReceiptsShowBudget
          <6>2. CASE Len(receipts) # 0
            <7>1. k - 1 = Len(receipts) /\ k # 1 /\ Len(receipts) \in 1..Len(receipts)
                  /\ receipts # <<>>
              BY <1>5, <4>2, <6>2
            <7> QED
              BY <2>0, <3>2, <7>1 DEF ReceiptsShowBudget
          <6> QED
            BY <6>1, <6>2
        <5> QED
          BY <1>2, <3>1, <3>2, <4>2, <5>1, <5>2
      <4>3. k \in 1..Len(receipts) \/ k = n
        BY <1>5
      <4> QED
        BY <4>1, <4>2, <4>3
    <3>4. ReceiptsChain'
      <4> HIDE DEF n
      <4> QED
        BY <1>0, <3>2, <3>3 DEF ReceiptsChain
    <3>5. ReceiptsShowBudget'
      <4>1. receipts' # <<>>
        BY <1>5, <3>2
      <4> QED
        BY <3>1, <3>2, <4>1 DEF ReceiptsShowBudget
    <3> QED
      BY <3>2, <3>4, <3>5
  <2> QED
    BY <2>1, <2>2 DEF OneMoreAnswer
<1>8. Classified' /\ DOMAIN reported' = {"successful", "failed", "degraded"}
      /\ \A kind \in DOMAIN reported' : reported'[kind] \subseteq DOMAIN results'
  <2> DEFINE Statuses(T) == {k \in DOMAIN results : results[k].status \in T}
             Now(T) == {k \in DOMAIN results' : results'[k].status \in T}
  <2>1. ASSUME NEW T PROVE Now(T) = Statuses(T) \cup {k \in {i} : r.status \in T}
    BY <1>2
  <2>2. /\ reported.successful = Statuses({"success"})
        /\ reported.failed = Statuses({"failed", "timeout", "denied", "over budget"})
        /\ reported.degraded = Statuses({"degraded"})
    BY DEF ToolInv, Classified, Enrichment, WithStatus
  <2>3. /\ Enrichment'.accepted = Now({"success"})
        /\ Enrichment'.rejected = Now({"failed", "timeout", "denied", "over budget"})
        /\ Enrichment'.degraded = Now({"degraded"})
    BY DEF Enrichment, WithStatus
  <2>4. /\ r.status \in {"success"} <=> r.status = "success"
        /\ r.status \in {"failed", "timeout", "denied", "over budget"}
             <=> r.status \notin {"success", "degraded"}
        /\ r.status \in {"degraded"} <=> r.status = "degraded"
    BY <1>0 DEF ToolStatus
  <2>5. Filed(i, r.status)
    BY <1>1 DEF OneMoreAnswer
  <2> HIDE DEF Statuses, Now
  <2>6. /\ Now({"success"}) = reported.successful \cup {k \in {i} : r.status = "success"}
        /\ Now({"failed", "timeout", "denied", "over budget"})
             = reported.failed \cup {k \in {i} : r.status \notin {"success", "degraded"}}
        /\ Now({"degraded"}) = reported.degraded \cup {k \in {i} : r.status = "degraded"}
    BY <2>1, <2>2, <2>4
  <2>7. reported' = [successful |-> Now({"success"}),
                     failed |-> Now({"failed", "timeout", "denied", "over budget"}),
                     degraded |-> Now({"degraded"})]
    BY <2>5, <2>6 DEF Filed
  <2>8. Classified'
    BY <2>3, <2>7 DEF Classified
  <2>9. /\ Now({"success"}) \subseteq DOMAIN results'
        /\ Now({"failed", "timeout", "denied", "over budget"}) \subseteq DOMAIN results'
        /\ Now({"degraded"}) \subseteq DOMAIN results'
    BY DEF Now
  <2>10. /\ DOMAIN reported' = {"successful", "failed", "degraded"}
         /\ \A kind \in DOMAIN reported' : reported'[kind] \subseteq DOMAIN results'
    <3>1. DOMAIN reported' = {"successful", "failed", "degraded"}
      BY <2>7
    <3>2. /\ reported'["successful"] \subseteq DOMAIN results'
          /\ reported'["failed"] \subseteq DOMAIN results'
          /\ reported'["degraded"] \subseteq DOMAIN results'
      BY <2>7, <2>9
    <3> QED
      BY <3>1, <3>2
  <2> QED
    BY <2>8, <2>10
<1>9. brief.accepted \cup brief.rejected \subseteq DOMAIN results'
  BY <1>2 DEF ToolInv, ToolTypeOK
<1>10. timeLeft' \in Int
  BY <1>0, <1>1
<1>11. ToolTypeOK'
  BY <1>0, <1>1, <1>2, <1>3, <1>7, <1>8, <1>9, <1>10 DEF ToolInv, ToolTypeOK
<1>12. WithinPrefix'
  <2> SUFFICES ASSUME NEW sum, PrefixSums(plan.requests, sum)
               PROVE  plan.tokens <= tokensLeft' + sum[i]
    BY <1>0, <1>2 DEF WithinPrefix
  <2>1. plan.tokens <= tokensLeft + sum[i - 1]
    BY <1>1 DEF Running, WithinPrefix, i
  <2>2. sum[i] = sum[i - 1] + Asked.tokens
    BY <1>1 DEF PrefixSums, Asked
  <2>4. sum[i - 1] \in Nat
    <3>1. i - 1 \in 0..Len(plan.requests)
      BY <1>1, PlansAreTyped DEF i
    <3> QED
      BY <3>1 DEF PrefixSums
  <2>5. /\ r.usage <= Asked.tokens /\ r.usage \in Nat /\ Asked.tokens \in Nat
        /\ tokensLeft \in Nat /\ plan.tokens \in Nat /\ tokensLeft' = tokensLeft - r.usage
    BY <1>0, <1>1, <1>3
  <2> QED
    BY <2>1, <2>2, <2>4, <2>5
<1>13. TimeIsSpentBySuccess'
  <2>0. TimeIsSpentBySuccess
    BY <1>1 DEF Running
  <2>1. CASE timeLeft' = timeLeft
    BY <1>0, <1>2, <2>0, <2>1 DEF TimeIsSpentBySuccess
  <2>2. CASE r.status = "success" /\ timeLeft' = timeLeft - r.duration
    <3>1. CASE r.duration = 0
      <4>1. timeLeft' = timeLeft
        BY <1>1, <2>2, <3>1
      <4> QED
        BY <2>1, <4>1
    <3>2. CASE r.duration > 0
      BY <1>2, <2>2, <3>2 DEF TimeIsSpentBySuccess
    <3> QED
      BY <1>0, <3>1, <3>2
  <2> QED
    BY <2>1, <2>2 DEF OneMoreAnswer
<1>14. RefusedForTime'
  <2> SUFFICES ASSUME NEW m \in 1..i, results'[m].status = "over budget"
               PROVE  \E j \in 1..(m - 1) :
                        results'[j].status = "success" /\ results'[j].duration > 0
    BY <1>2 DEF RefusedForTime
  <2>1. CASE m \in 1..Len(results)
    <3>1. PICK j \in 1..(m - 1) : results[j].status = "success" /\ results[j].duration > 0
      BY <1>1, <1>2, <2>1 DEF Running, RefusedForTime
    <3>2. j \in 1..Len(results)
      BY <1>1, <2>1, EarlierPlace
    <3> QED
      BY <1>2, <3>1, <3>2
  <2>2. CASE m = i
    <3>1. r.status = "over budget" /\ m - 1 = Len(results)
      <4>1. r.status = "over budget"
        BY <1>2, <2>2
      <4> QED
        BY <1>2, <2>2, <4>1
    <3>2. PICK j \in 1..Len(results) : results[j].status = "success" /\ results[j].duration > 0
      BY <1>0, <3>1, OnlyTimeRefuses DEF OneMoreAnswer
    <3> QED
      BY <1>2, <3>1, <3>2
  <2> QED
    BY <1>2, <2>1, <2>2
<1>15. Running'
  <2>1. ValidPlan(plan) /\ i <= Len(plan.requests)
    BY <1>1 DEF Running
  <2> QED
    BY <1>0, <1>1, <1>2, <1>7, <1>12, <1>13, <1>14, <2>1 DEF Running, ValidPlan
<1> QED
  BY <1>0, <1>1, <1>7, <1>8, <1>11, <1>15 DEF ToolInv

LEMMA EachAnswerIsOne ==
  ASSUME ToolInv, NEW d \in Nat, NEW error \in {"failed", "timeout"},
         RefuseRequest \/ DenyRequest \/ RunTool(d) \/ ToolRaises(error, d)
  PROVE  \E r : OneMoreAnswer(r)
<1>0. AtRequest
  BY DEF RefuseRequest, DenyRequest, RunTool, ToolRaises
<1>1. /\ Asked.tokens \in Nat /\ tokensLeft \in Nat /\ timeLeft \in Int /\ d \in Nat
      /\ UsageCap \in Nat /\ tokensLeft - 0 = tokensLeft /\ 0 <= Asked.tokens /\ 0 <= tokensLeft
  <2>1. Asked.tokens \in Nat /\ tokensLeft \in Nat /\ timeLeft \in Int /\ UsageCap \in Nat
    BY <1>0, RequestIsTyped
  <2> QED
    BY <2>1
<1>2. reported = [successful |-> reported.successful, failed |-> reported.failed,
                  degraded |-> reported.degraded]
  BY DEF ToolInv, Classified
<1> DEFINE Same(status, duration) == [status |-> status, usage |-> 0, duration |-> duration]
<1>3. ASSUME NEW status \in ToolStatus \ {"success"}, NEW duration \in Nat,
             results' = Append(results, Same(status, duration)),
             tokensLeft' = tokensLeft, timeLeft' = timeLeft,
             receipts' = receipts \/ Receipt(tokensLeft, tokensLeft),
             reported' = IF status = "degraded"
                         THEN [reported EXCEPT !.degraded = @ \cup {Current}]
                         ELSE [reported EXCEPT !.failed = @ \cup {Current}],
             status = "over budget" => ~InBudget(Asked),
             UNCHANGED <<toolStage, plan, brief>>
      PROVE  OneMoreAnswer(Same(status, duration))
  <2>1. Same(status, duration) \in ToolResult
    BY DEF ToolResult
  <2>2. Filed(Current, status)
    <3>1. CASE status = "degraded"
      BY <1>2, <1>3, <3>1 DEF Filed
    <3>2. CASE status # "degraded"
      BY <1>2, <1>3, <3>2 DEF Filed
    <3> QED
      BY <3>1, <3>2
  <2>3. receipts' = receipts
        \/ receipts' = Append(receipts, [request |-> Current, before |-> tokensLeft,
                                         after |-> tokensLeft'])
    BY <1>3 DEF Receipt
  <2>4. tokensLeft' = tokensLeft - 0
    BY <1>1, <1>3
  <2> QED
    BY <1>0, <1>1, <1>3, <2>1, <2>2, <2>3, <2>4 DEF OneMoreAnswer
<1>4. CASE RefuseRequest
  <2>1. OneMoreAnswer(Same("over budget", 0))
    <3> HIDE DEF Same
    <3>1. results' = Append(results, Same("over budget", 0))
      BY <1>4 DEF RefuseRequest, Answer, Same
    <3> QED
      BY <1>3, <1>4, <3>1 DEF RefuseRequest, ToolStatus
  <2> QED
    BY <2>1
<1>5. CASE DenyRequest
  <2>1. OneMoreAnswer(Same("denied", 0))
    <3> HIDE DEF Same
    <3>1. results' = Append(results, Same("denied", 0))
      BY <1>5 DEF DenyRequest, Answer, Same
    <3> QED
      BY <1>3, <1>5, <3>1 DEF DenyRequest, ToolStatus
  <2> QED
    BY <2>1
<1>6. CASE ToolRaises(error, d)
  <2> DEFINE status == IF Asked.required THEN error ELSE "degraded"
  <2>1. OneMoreAnswer(Same(status, d))
    <3> HIDE DEF Same
    <3>1. CASE Asked.required
      <4>1. results' = Append(results, Same(error, d))
        BY <1>6, <3>1 DEF ToolRaises, Answer, Same
      <4>2. OneMoreAnswer(Same(error, d))
        BY <1>1, <1>3, <1>6, <3>1, <4>1 DEF ToolRaises, ToolStatus
      <4> QED
        BY <3>1, <4>2
    <3>2. CASE ~Asked.required
      <4>1. results' = Append(results, Same("degraded", d))
        BY <1>6, <3>2 DEF ToolRaises, Answer, Same
      <4>2. OneMoreAnswer(Same("degraded", d))
        BY <1>1, <1>3, <1>6, <3>2, <4>1 DEF ToolRaises, ToolStatus
      <4> QED
        BY <3>2, <4>2
    <3> QED
      BY <3>1, <3>2
  <2> QED
    BY <2>1
<1>7. CASE RunTool(d)
  <2> DEFINE r == [status |-> "success", usage |-> Usage(Asked), duration |-> d]
  <2>1. /\ Usage(Asked) \in Nat /\ Usage(Asked) <= Asked.tokens /\ Usage(Asked) <= tokensLeft
    <3>1. Asked.tokens <= tokensLeft
      BY <1>0, TokensSuffice
    <3> QED
      BY <1>1, <3>1 DEF Usage
  <2>2. r \in ToolResult /\ r.status = "success" /\ r.usage = Usage(Asked) /\ r.duration = d
    BY <1>1, <2>1 DEF ToolResult, ToolStatus
  <2>3. /\ results' = Append(results, r)
        /\ tokensLeft' = tokensLeft - Usage(Asked) /\ timeLeft' = timeLeft - d
        /\ receipts' = Append(receipts, [request |-> Current, before |-> tokensLeft,
                                         after |-> tokensLeft'])
        /\ reported' = [reported EXCEPT !.successful = @ \cup {Current}]
        /\ UNCHANGED <<toolStage, plan, brief>>
    BY <1>7 DEF RunTool, Answer, Receipt
  <2>4. Filed(Current, "success")
    BY <1>2, <2>3 DEF Filed
  <2> HIDE DEF r
  <2>5. OneMoreAnswer(r)
    BY <1>0, <2>1, <2>2, <2>3, <2>4 DEF OneMoreAnswer
  <2> QED
    BY <2>5
<1> QED
  BY <1>4, <1>5, <1>6, <1>7

LEMMA ToolMoves == ASSUME ToolInv, ToolNext PROVE ToolInv'
<1>1. CASE SkipTools
  <2>1. /\ toolStage = "waiting" /\ toolStage' = "done"
        /\ UNCHANGED <<plan, results, tokensLeft, timeLeft, reported, receipts, brief>>
    BY <1>1 DEF SkipTools
  <2>2. UNCHANGED Enrichment
    BY <2>1 DEF Enrichment, WithStatus
  <2> QED
    BY <2>1, <2>2 DEF ToolInv, ToolTypeOK, ToolStage, Classified, ReceiptsChain
<1>2. ASSUME NEW p \in ToolPlan, RefusePlan(p) PROVE ToolInv'
  <2> DEFINE n == Len(p.requests)
             refused == [status |-> "over budget", usage |-> 0, duration |-> 0]
  <2>1. /\ toolStage = "waiting" /\ toolStage' = "merging" /\ plan' = p
        /\ results' = [i \in DOMAIN p.requests |-> refused]
        /\ reported' = [NoneReported EXCEPT !.failed = DOMAIN p.requests]
        /\ UNCHANGED <<tokensLeft, timeLeft, receipts, brief>>
        /\ receipts = <<>> /\ brief = DirectorBrief
    BY <1>2 DEF RefusePlan, ToolInv
  <2>2. /\ n \in Nat /\ DOMAIN p.requests = 1..n /\ refused \in ToolResult
        /\ refused.status = "over budget"
    BY PlansAreTyped DEF ToolResult, ToolStatus
  <2> HIDE DEF n, refused
  <2>3. results' \in Seq(ToolResult) /\ DOMAIN results' = 1..n
        /\ \A i \in 1..n : results'[i].status = "over budget"
    <3>1. results' = [i \in 1..n |-> refused]
      BY <2>1, <2>2
    <3>2. results' \in Seq(ToolResult)
      <4>1. results' \in [1..n -> ToolResult]
        BY <2>2, <3>1
      <4>2. [1..n -> ToolResult] \subseteq Seq(ToolResult)
        BY <2>2, SeqDef, Zenon
      <4> QED
        BY <4>1, <4>2
    <3> QED
      BY <2>2, <3>1, <3>2
  <2>4. Enrichment' = [accepted |-> {}, rejected |-> 1..n, degraded |-> {}]
    BY <2>3 DEF Enrichment, WithStatus
  <2>5. reported' = [successful |-> {}, failed |-> 1..n, degraded |-> {}]
    BY <2>1, <2>2 DEF NoneReported
  <2>6. Classified'
    BY <2>4, <2>5 DEF Classified
  <2>7. ToolTypeOK'
    <3>1. receipts' \in Seq([request: DOMAIN results', before: Nat, after: Nat])
      BY <2>1
    <3>2. brief'.accepted \cup brief'.rejected = {}
      BY <2>1 DEF DirectorBrief
    <3>3. tokensLeft' \in Nat /\ timeLeft' \in Int
      BY <2>1 DEF ToolInv, ToolTypeOK
    <3>4. DOMAIN reported' = {"successful", "failed", "degraded"}
          /\ \A kind \in DOMAIN reported' : reported'[kind] \subseteq DOMAIN results'
      <4>1. DOMAIN reported' = {"successful", "failed", "degraded"}
        BY <2>5
      <4>2. /\ reported'["successful"] \subseteq 1..n /\ reported'["failed"] \subseteq 1..n
            /\ reported'["degraded"] \subseteq 1..n
        BY <2>5
      <4> QED
        BY <2>3, <4>1, <4>2
    <3> QED
      BY <2>1, <2>3, <3>1, <3>2, <3>3, <3>4 DEF ToolTypeOK, ToolStage
  <2>8. ReceiptsChain'
    BY <2>1 DEF ReceiptsChain
  <2> QED
    BY <2>1, <2>2, <2>3, <2>6, <2>7, <2>8 DEF ToolInv, Answered
<1>3. ASSUME NEW p \in ToolPlan, AcceptPlan(p) PROVE ToolInv'
  <2>1. /\ toolStage = "waiting" /\ toolStage' = "running" /\ plan' = p /\ ValidPlan(p)
        /\ tokensLeft' = p.tokens /\ timeLeft' = p.time
        /\ UNCHANGED <<results, reported, receipts, brief>>
        /\ results = <<>> /\ receipts = <<>> /\ brief = DirectorBrief
    BY <1>3 DEF AcceptPlan, ToolInv
  <2>2. Len(results) = 0 /\ DOMAIN results = {} /\ DOMAIN receipts = {} /\ UNCHANGED Enrichment
    BY <2>1 DEF Enrichment, WithStatus
  <2>3. ToolTypeOK'
    BY <2>1, PlansAreTyped DEF ToolInv, ToolTypeOK, ToolStage
  <2>4. WithinPrefix'
    <3> SUFFICES ASSUME NEW sum, PrefixSums(p.requests, sum) PROVE p.tokens <= p.tokens + sum[0]
      BY <2>1, <2>2 DEF WithinPrefix
    <3> QED
      BY PlansAreTyped DEF PrefixSums
  <2>5. Running'
    <3>1. ReceiptsShowBudget' /\ TimeIsSpentBySuccess' /\ RefusedForTime'
      BY <2>1, <2>2 DEF ReceiptsShowBudget, TimeIsSpentBySuccess, RefusedForTime
    <3>2. 0 <= Len(p.requests)
      BY PlansAreTyped
    <3> QED
      BY <2>1, <2>2, <2>4, <3>1, <3>2 DEF Running, ValidPlan
  <2>6. Classified' /\ ReceiptsChain'
    BY <2>1, <2>2 DEF ToolInv, Classified, ReceiptsChain
  <2> QED
    BY <2>1, <2>3, <2>5, <2>6 DEF ToolInv
<1>4. ASSUME NEW d \in Nat, NEW error \in {"failed", "timeout"},
             RefuseRequest \/ DenyRequest \/ RunTool(d) \/ ToolRaises(error, d)
      PROVE  ToolInv'
  BY <1>4, EachAnswerIsOne, AnswerKeepsInv
<1>5. CASE EndPlan
  <2>1. /\ toolStage = "running" /\ toolStage' = "merging" /\ Current \notin DOMAIN plan.requests
        /\ UNCHANGED <<plan, results, tokensLeft, timeLeft, reported, receipts, brief>>
    BY <1>5 DEF EndPlan
  <2>2. Running /\ plan \in ToolPlan /\ Len(results) <= Len(plan.requests)
        /\ results \in Seq(ToolResult)
    BY <2>1 DEF ToolInv, Running, ToolTypeOK
  <2>3. DOMAIN results = DOMAIN plan.requests
    <3>1. /\ Len(results) \in Nat /\ Len(plan.requests) \in Nat
          /\ DOMAIN plan.requests = 1..Len(plan.requests) /\ DOMAIN results = 1..Len(results)
      BY <2>2, PlansAreTyped
    <3>2. Len(results) = Len(plan.requests)
      BY <2>1, <2>2, <3>1 DEF Current
    <3> QED
      BY <3>1, <3>2
  <2>4. UNCHANGED Enrichment
    BY <2>1 DEF Enrichment, WithStatus
  <2> QED
    BY <2>1, <2>2, <2>3, <2>4
       DEF ToolInv, ToolTypeOK, ToolStage, Classified, ReceiptsChain, Answered
<1>6. CASE WriteBrief
  <2>1. /\ toolStage = "merging" /\ toolStage' = "done" /\ Answered
        /\ brief' = [accepted |-> Enrichment.accepted, rejected |-> Enrichment.rejected]
        /\ UNCHANGED <<plan, results, tokensLeft, timeLeft, reported, receipts>>
    BY <1>6 DEF WriteBrief, ToolInv
  <2>2. UNCHANGED Enrichment
    BY <2>1 DEF Enrichment, WithStatus
  <2>3. brief'.accepted \cup brief'.rejected \subseteq DOMAIN results'
    BY <2>1 DEF Enrichment, WithStatus
  <2>4. ToolTypeOK'
    BY <2>1, <2>3 DEF ToolInv, ToolTypeOK, ToolStage
  <2> QED
    BY <2>1, <2>2, <2>4 DEF ToolInv, Classified, ReceiptsChain, Answered
<1>7. CASE RefuseRequest \/ DenyRequest
  <2>1. 0 \in Nat /\ "failed" \in {"failed", "timeout"}
    OBVIOUS
  <2> QED
    BY <1>4, <1>7, <2>1
<1>8. ASSUME NEW d \in Duration,
             RunTool(d) \/ \E error \in {"failed", "timeout"} : ToolRaises(error, d)
      PROVE  ToolInv'
  <2>1. d \in Nat /\ "failed" \in {"failed", "timeout"}
    BY ToolAssumption
  <2> QED
    BY <1>4, <1>8, <2>1
<1> QED
  BY <1>1, <1>2, <1>3, <1>5, <1>6, <1>7, <1>8 DEF ToolNext

LEMMA ToolDelivers == ASSUME ToolInv PROVE RequestsClassifiedOnce /\ OnlyTimeRunsOut
<1>1. RequestsClassifiedOnce
  <2>1. ASSUME toolStage = "done", plan # NoPlan
        PROVE  /\ DOMAIN results = DOMAIN plan.requests
               /\ brief.accepted \cup brief.rejected = DOMAIN results \ reported.degraded
    <3>1. /\ Answered /\ Classified /\ results \in Seq(ToolResult)
          /\ brief = [accepted |-> Enrichment.accepted, rejected |-> Enrichment.rejected]
      BY <2>1 DEF ToolInv, ToolTypeOK
    <3>2. \A i \in DOMAIN results : results[i].status \in ToolStatus
      <4>1. \A i \in DOMAIN results : results[i] \in ToolResult
        BY <3>1
      <4> QED
        BY <4>1 DEF ToolResult
    <3>3. Enrichment.accepted \cup Enrichment.rejected = DOMAIN results \ Enrichment.degraded
      BY <3>2 DEF Enrichment, WithStatus, ToolStatus
    <3> QED
      BY <3>1, <3>3 DEF Answered, Classified
  <2> QED
    BY <2>1 DEF ToolInv, RequestsClassifiedOnce, Classified, ReceiptsChain
<1>2. OnlyTimeRunsOut
  <2>1. AtRequest => Asked.tokens <= tokensLeft
    BY TokensSuffice
  <2>2. toolStage = "running" => RefusedForTime /\ DOMAIN results = 1..Len(results)
    BY DEF ToolInv, Running, ToolTypeOK
  <2> QED
    BY <2>1, <2>2 DEF OnlyTimeRunsOut, RefusedForTime
<1> QED
  BY <1>1, <1>2

-----------------------------------------------------------------------------
(* Sorting.  In a finite set with a strict total order, the element with   *)
(* n - 1 elements before it exists for every n, and is the n-th.           *)

StrictOrder(S, R) ==
  /\ \A x \in S : <<x, x>> \notin R
  /\ \A x, y, z \in S : <<x, y>> \in R /\ <<y, z>> \in R => <<x, z>> \in R
  /\ \A x, y \in S : x = y \/ <<x, y>> \in R \/ <<y, x>> \in R

Lower(S, R, x) == {y \in S : <<y, x>> \in R}

Ranked(S, R, q) ==
  /\ q \in [1..Cardinality(S) -> S]
  /\ \A m, n \in 1..Cardinality(S) : m < n => <<q[m], q[n]>> \in R
  /\ \A x \in S : \E n \in 1..Cardinality(S) : x = q[n]
  /\ \A n \in 1..Cardinality(S) : Cardinality(Lower(S, R, q[n])) = n - 1

LEMMA RanksAreOrdered ==
  ASSUME NEW S, IsFiniteSet(S), NEW R, StrictOrder(S, R), NEW x \in S, NEW y \in S,
         <<x, y>> \in R
  PROVE  /\ Cardinality(Lower(S, R, x)) < Cardinality(Lower(S, R, y))
<1> DEFINE X == Lower(S, R, x)
           Y == Lower(S, R, y)
<1>1. IsFiniteSet(Y)
  BY FS_Subset DEF Lower
<1>2. X \subseteq Y /\ x \in Y /\ x \notin X
  BY DEF StrictOrder, Lower
<1> HIDE DEF X, Y
<1>3. IsFiniteSet(X) /\ Cardinality(X) <= Cardinality(Y) /\ (Cardinality(Y) = Cardinality(X) => Y = X)
  BY <1>1, <1>2, FS_Subset
<1>4. Cardinality(X) \in Nat /\ Cardinality(Y) \in Nat
  BY <1>1, <1>3, FS_CardinalityType
<1>5. Cardinality(X) < Cardinality(Y)
  BY <1>2, <1>3, <1>4
<1> QED
  BY <1>5 DEF X, Y

LEMMA RankedByOrder ==
  ASSUME NEW S, IsFiniteSet(S), NEW R, StrictOrder(S, R)
  PROVE  /\ \A n \in 1..Cardinality(S) : \E x \in S : Cardinality(Lower(S, R, x)) = n - 1
         /\ \A q \in [1..Cardinality(S) -> S] :
               (\A n \in 1..Cardinality(S) : Cardinality(Lower(S, R, q[n])) = n - 1)
                 => Ranked(S, R, q)
<1> DEFINE c == Cardinality(S)
           rank == [x \in S |-> Cardinality(Lower(S, R, x)) + 1]
<1>1. c \in Nat
  BY FS_CardinalityType
<1>2. ASSUME NEW x \in S
      PROVE  Cardinality(Lower(S, R, x)) \in Nat /\ Cardinality(Lower(S, R, x)) < c
  <2>1. Lower(S, R, x) \in SUBSET S /\ Lower(S, R, x) # S
    BY DEF Lower, StrictOrder
  <2>2. IsFiniteSet(Lower(S, R, x)) /\ Cardinality(Lower(S, R, x)) <= c
        /\ c # Cardinality(Lower(S, R, x))
    BY <2>1, FS_Subset
  <2>3. Cardinality(Lower(S, R, x)) \in Nat
    BY <2>2, FS_CardinalityType
  <2> QED
    BY <1>1, <2>2, <2>3
<1>3. ASSUME NEW x \in S, NEW y \in S,
             Cardinality(Lower(S, R, x)) = Cardinality(Lower(S, R, y))
      PROVE  x = y
  <2>1. <<x, y>> \notin R /\ <<y, x>> \notin R
    BY <1>2, <1>3, RanksAreOrdered
  <2> QED
    BY <2>1 DEF StrictOrder
<1>4. rank \in Injection(S, 1..c)
  <2>1. rank \in [S -> 1..c]
    BY <1>1, <1>2
  <2>2. \A x, y \in S : rank[x] = rank[y] => x = y
    <3> TAKE x, y \in S
    <3>1. rank[x] = Cardinality(Lower(S, R, x)) + 1 /\ rank[y] = Cardinality(Lower(S, R, y)) + 1
      OBVIOUS
    <3> HIDE DEF rank
    <3>2. rank[x] = rank[y] => Cardinality(Lower(S, R, x)) = Cardinality(Lower(S, R, y))
      BY <1>2, <3>1
    <3> QED
      BY <1>3, <3>2
  <2> HIDE DEF rank
  <2> QED
    BY <2>1, <2>2 DEF Injection, IsInjective
<1>5. rank \in Surjection(S, 1..c)
  <2>1. IsFiniteSet(1..c) /\ Cardinality(1..c) = c
    BY <1>1, FS_Interval
  <2> HIDE DEF rank
  <2> QED
    BY <1>4, <2>1, FS_Injection
<1>6. ASSUME NEW n \in 1..c
      PROVE  \E x \in S : Cardinality(Lower(S, R, x)) = n - 1
  <2>1. PICK x \in S : rank[x] = n
    <3> HIDE DEF rank
    <3> QED
      BY <1>5 DEF Surjection
  <2>2. Cardinality(Lower(S, R, x)) = n - 1
    BY <1>1, <1>2, <2>1
  <2> QED
    BY <2>2
<1> HIDE DEF rank
<1>7. ASSUME NEW q \in [1..c -> S],
             \A n \in 1..c : Cardinality(Lower(S, R, q[n])) = n - 1
      PROVE  Ranked(S, R, q)
  <2>1. \A m, n \in 1..c : m < n => <<q[m], q[n]>> \in R
    <3> SUFFICES ASSUME NEW m \in 1..c, NEW n \in 1..c, m < n PROVE <<q[m], q[n]>> \in R
      OBVIOUS
    <3>1. Cardinality(Lower(S, R, q[m])) < Cardinality(Lower(S, R, q[n]))
      <4>1. m - 1 < n - 1
        BY <1>1
      <4> QED
        BY <1>7, <4>1
    <3>2. ~(Cardinality(Lower(S, R, q[n])) < Cardinality(Lower(S, R, q[m])))
      BY <1>2, <1>7, <3>1
    <3>3. q[m] # q[n] /\ <<q[n], q[m]>> \notin R
      <4>1. q[m] # q[n]
        BY <1>2, <1>7, <3>1
      <4> QED
        BY <1>7, <3>2, <4>1, RanksAreOrdered
    <3> QED
      BY <1>7, <3>3 DEF StrictOrder
  <2>2. \A x \in S : \E n \in 1..c : x = q[n]
    <3> TAKE x \in S
    <3> DEFINE n == Cardinality(Lower(S, R, x)) + 1
    <3>1. n \in 1..c /\ n - 1 = Cardinality(Lower(S, R, x))
      BY <1>1, <1>2
    <3> HIDE DEF n
    <3>2. x = q[n]
      BY <1>3, <1>7, <3>1
    <3> QED
      BY <3>1, <3>2
  <2> QED
    BY <1>7, <2>1, <2>2 DEF Ranked
<1> QED
  BY <1>6, <1>7

(* What InOrder makes of a finite set of numbers.                          *)
InOrderOf(S, q) ==
  /\ q \in [1..Cardinality(S) -> S]
  /\ \A m, n \in 1..Cardinality(S) : m < n => q[m] < q[n]
  /\ \A x \in S : \E n \in 1..Cardinality(S) : x = q[n]
  /\ \A n \in 1..Cardinality(S) : Cardinality(Before(q[n], S)) = n - 1

LEMMA InOrderSorts ==
  ASSUME NEW S \in SUBSET Nat, IsFiniteSet(S)
  PROVE  InOrderOf(S, InOrder(S))
<1> DEFINE R == {p \in S \X S : p[1] < p[2]}
<1>1. \A x, y \in S : <<x, y>> \in R <=> x < y
  OBVIOUS
<1> HIDE DEF R
<1>2. StrictOrder(S, R)
  <2>1. \A x \in S : ~(x < x)
    OBVIOUS
  <2>2. \A x, y, z \in S : x < y /\ y < z => x < z
    OBVIOUS
  <2>3. \A x, y \in S : x = y \/ x < y \/ y < x
    OBVIOUS
  <2> QED
    BY <1>1, <2>1, <2>2, <2>3 DEF StrictOrder
<1>3. \A x \in S : Lower(S, R, x) = Before(x, S)
  BY <1>1 DEF Lower, Before
<1>4. \A n \in 1..Cardinality(S) :
        InOrder(S)[n] \in S /\ Cardinality(Before(InOrder(S)[n], S)) = n - 1
  <2> TAKE n \in 1..Cardinality(S)
  <2>1. \E x \in S : Cardinality(Before(x, S)) = n - 1
    BY <1>2, <1>3, RankedByOrder
  <2> QED
    BY <2>1 DEF InOrder
<1>5. InOrder(S) \in [1..Cardinality(S) -> S]
  BY <1>4 DEF InOrder
<1>6. Ranked(S, R, InOrder(S))
  BY <1>2, <1>3, <1>4, <1>5, RankedByOrder
<1> QED
  <2> DEFINE q == InOrder(S)
  <2> HIDE DEF q
  <2>1. Ranked(S, R, q)
    BY <1>6 DEF q
  <2>2. InOrderOf(S, q)
    BY <1>1, <1>3, <2>1 DEF Ranked, InOrderOf
  <2> QED
    BY <2>2 DEF q

-----------------------------------------------------------------------------
(* The orchestrator's waves.  Each wave runs the first tasks of its kind,  *)
(* in order: the answers are those of the line so far, the queue is the    *)
(* rest of it.                                                             *)

(* The elements of C with fewer than k elements before them.               *)
FirstOnes(C, k) == {t \in C : Cardinality(Before(t, C)) < k}

LEMMA FirstAreFew ==
  ASSUME NEW C \in SUBSET Nat, IsFiniteSet(C), NEW k \in Nat
  PROVE  /\ IsFiniteSet(FirstOnes(C, k))
         /\ Cardinality(FirstOnes(C, k)) \in Nat
         /\ Cardinality(FirstOnes(C, k)) <= k
         /\ \A t \in FirstOnes(C, k), u \in C \ FirstOnes(C, k) : t < u
<1> DEFINE F == FirstOnes(C, k)
           R == {p \in C \X C : p[1] < p[2]}
           rank == [t \in F |-> Cardinality(Before(t, C)) + 1]
<1>1. F \in SUBSET C
  BY DEF FirstOnes
<1>2. IsFiniteSet(F) /\ Cardinality(F) \in Nat
  BY <1>1, FS_Subset, FS_CardinalityType
<1>3. \A x, y \in C : <<x, y>> \in R <=> x < y
  OBVIOUS
<1>4. \A x \in C : Lower(C, R, x) = Before(x, C)
  BY <1>3 DEF Lower, Before
<1>5. StrictOrder(C, R)
  <2> HIDE DEF R
  <2>1. \A x \in C : ~(x < x)
    OBVIOUS
  <2>2. \A x, y, z \in C : x < y /\ y < z => x < z
    OBVIOUS
  <2>3. \A x, y \in C : x = y \/ x < y \/ y < x
    OBVIOUS
  <2> QED
    BY <1>3, <2>1, <2>2, <2>3 DEF StrictOrder
<1> HIDE DEF R
<1>6. ASSUME NEW x \in C, NEW y \in C, x < y
      PROVE  Cardinality(Before(x, C)) < Cardinality(Before(y, C))
  BY <1>3, <1>4, <1>5, <1>6, RanksAreOrdered
<1>7. ASSUME NEW x \in C PROVE Cardinality(Before(x, C)) \in Nat
  <2>1. Before(x, C) \in SUBSET C
    BY DEF Before
  <2> QED
    BY <2>1, FS_Subset, FS_CardinalityType
<1>8. Cardinality(F) <= k
  <2>1. rank \in [F -> 1..k]
    <3>1. \A t \in F : Cardinality(Before(t, C)) \in Nat /\ Cardinality(Before(t, C)) < k
      BY <1>1, <1>7 DEF FirstOnes
    <3> HIDE DEF F
    <3> QED
      BY <3>1
  <2>2. \A x, y \in F : rank[x] = rank[y] => x = y
    <3> TAKE x, y \in F
    <3>1. rank[x] = Cardinality(Before(x, C)) + 1 /\ rank[y] = Cardinality(Before(y, C)) + 1
      OBVIOUS
    <3>2. x \in C /\ y \in C /\ x \in Nat /\ y \in Nat
      BY <1>1
    <3> HIDE DEF rank, F
    <3>3. Cardinality(Before(x, C)) \in Nat /\ Cardinality(Before(y, C)) \in Nat
      BY <1>7, <3>2
    <3>4. x < y => Cardinality(Before(x, C)) < Cardinality(Before(y, C))
      BY <1>6, <3>2
    <3>5. y < x => Cardinality(Before(y, C)) < Cardinality(Before(x, C))
      BY <1>6, <3>2
    <3> QED
      BY <3>1, <3>2, <3>3, <3>4, <3>5
  <2> HIDE DEF rank, F
  <2>3. rank \in Injection(F, 1..k)
    BY <2>1, <2>2 DEF Injection, IsInjective
  <2>4. IsFiniteSet(1..k) /\ Cardinality(1..k) = k
    BY FS_Interval
  <2> QED
    BY <2>3, <2>4, FS_Injection
<1>9. \A t \in F, u \in C \ F : t < u
  <2> TAKE t \in F, u \in C \ F
  <2>1. Cardinality(Before(t, C)) < k /\ ~(Cardinality(Before(u, C)) < k) /\ t \in C
    BY DEF FirstOnes
  <2>2. u < t => Cardinality(Before(u, C)) < Cardinality(Before(t, C))
    BY <1>6, <2>1
  <2>3. Cardinality(Before(t, C)) \in Nat /\ Cardinality(Before(u, C)) \in Nat
    BY <1>7, <2>1
  <2>4. t # u /\ ~(u < t)
    <3> HIDE DEF F
    <3> QED
      BY <2>1, <2>2, <2>3, SMTT(30)
  <2> QED
    BY <2>1, <2>4
<1> HIDE DEF F
<1> QED
  BY <1>2, <1>8, <1>9 DEF F

(* The tasks of a plan, each once.                                         *)
LEMMA PlannedOnce ==
  ASSUME NEW plan0 \in Seq(Task), \A i, j \in 1..Len(plan0) : plan0[i] = plan0[j] => i = j
  PROVE  /\ ToSet(plan0) = {plan0[i] : i \in 1..Len(plan0)}
         /\ ToSet(plan0) \subseteq Task /\ ToSet(plan0) \subseteq Nat
         /\ IsFiniteSet(ToSet(plan0))
         /\ Cardinality(ToSet(plan0)) = Len(plan0)
<1>1. ToSet(plan0) = {plan0[i] : i \in 1..Len(plan0)}
  BY DEF ToSet
<1>2. ToSet(plan0) \subseteq Task /\ ToSet(plan0) \subseteq Nat
  <2>1. \A i \in 1..Len(plan0) : plan0[i] \in Task
    BY ElementOfSeq
  <2>2. Task \subseteq Nat
    BY WavesAssumption
  <2>3. \A t \in ToSet(plan0) : t \in Task
    BY <1>1, <2>1
  <2> QED
    BY <2>2, <2>3
<1>3. Len(plan0) \in Nat /\ plan0 \in [1..Len(plan0) -> ToSet(plan0)]
  BY <1>1
<1>4. plan0 \in Bijection(1..Len(plan0), ToSet(plan0))
  BY <1>1, <1>3 DEF Bijection, Injection, Surjection, IsInjective
<1>5. ExistsBijection(1..Len(plan0), ToSet(plan0))
  BY <1>4 DEF ExistsBijection
<1>6. IsFiniteSet(1..Len(plan0)) /\ Cardinality(1..Len(plan0)) = Len(plan0)
  BY <1>3, FS_Interval, SMTT(30)
<1>7. IsFiniteSet(ToSet(plan0)) /\ Cardinality(ToSet(plan0)) = Len(plan0)
  BY <1>5, <1>6, FS_Bijection
<1> QED
  <2>1. Cardinality(ToSet(plan0)) = Len(plan0) /\ Len(plan0) \in Nat
    BY <1>3, <1>7
  <2> QED
    BY <1>1, <1>2, <1>7, <2>1, ZenonT(30)

LEMMA FilteredIsPlan ==
  ASSUME NEW p \in Plan
  PROVE  /\ Filtered(p) \in Seq(Task)
         /\ \A i, j \in 1..Len(Filtered(p)) : Filtered(p)[i] = Filtered(p)[j] => i = j
<1> DEFINE K == {i \in DOMAIN p : Kind[p[i]] # "unknown"}
           kept == InOrder(K)
           n == Cardinality(K)
<1>1. p \in Seq(Task) /\ \A i, j \in 1..Len(p) : p[i] = p[j] => i = j
  BY WavesAssumption DEF IsInjective
<1>2. K \in SUBSET (1..Len(p)) /\ K \in SUBSET Nat /\ Len(p) \in Nat
  BY <1>1
<1> HIDE DEF K
<1>3. IsFiniteSet(K) /\ n \in Nat
  <2>1. IsFiniteSet(1..Len(p))
    BY <1>2, FS_Interval
  <2> QED
    BY <1>2, <2>1, FS_Subset, FS_CardinalityType
<1>4. InOrderOf(K, kept)
  BY <1>2, <1>3, InOrderSorts
<1>5. kept \in [1..n -> K] /\ \A i, j \in 1..n : i < j => kept[i] < kept[j]
  BY <1>4 DEF InOrderOf
<1>6. Filtered(p) = [i \in 1..n |-> p[kept[i]]]
  <2>1. DOMAIN kept = 1..n
    BY <1>5
  <2> QED
    BY <2>1 DEF Filtered, K
<1> HIDE DEF kept, n
<1>7. \A i \in 1..n : kept[i] \in 1..Len(p)
  BY <1>2, <1>5
<1>8. Filtered(p) \in [1..n -> Task]
  BY <1>1, <1>6, <1>7
<1>9. Filtered(p) \in Seq(Task) /\ Len(Filtered(p)) = n
  BY <1>3, <1>8 DEF n
<1>10. ASSUME NEW i \in 1..n, NEW j \in 1..n, Filtered(p)[i] = Filtered(p)[j]
       PROVE  i = j
  <2>1. p[kept[i]] = p[kept[j]]
    BY <1>6, <1>10
  <2>2. kept[i] = kept[j] /\ kept[i] \in Nat
    BY <1>1, <1>7, <2>1
  <2>3. ~(i < j) /\ ~(j < i)
    BY <1>5, <2>2
  <2> QED
    BY <1>3, <2>3 DEF n
<1> QED
  BY <1>9, <1>10

(* The report of a task, and the places of the reports with some outcome.  *)
Report == [task: Task, outcome: Outcome]

Places(list, outcomes) == {i \in 1..Len(list) : list[i].outcome \in outcomes}

(* New reports at the end of a list, all of them or none with an outcome.  *)
LEMMA LongerList ==
  ASSUME NEW list \in Seq(Report), NEW longer \in Seq(Report), NEW n \in Nat,
         Len(longer) = Len(list) + n,
         \A i \in 1..Len(list) : longer[i] = list[i],
         NEW outcomes
  PROVE  /\ Cardinality(Places(list, outcomes)) \in Nat
         /\ (\A i \in (Len(list) + 1)..(Len(list) + n) : longer[i].outcome \in outcomes)
              => Cardinality(Places(longer, outcomes)) = Cardinality(Places(list, outcomes)) + n
         /\ (\A i \in (Len(list) + 1)..(Len(list) + n) : longer[i].outcome \notin outcomes)
              => Cardinality(Places(longer, outcomes)) = Cardinality(Places(list, outcomes))
<1> DEFINE old == Places(list, outcomes)
           new == Places(longer, outcomes)
           later == (Len(list) + 1)..(Len(list) + n)
<1>1. Len(list) \in Nat /\ old \in SUBSET (1..Len(list))
  BY DEF Places
<1>2. IsFiniteSet(1..Len(list)) /\ IsFiniteSet(later) /\ Cardinality(later) = n
  <2>1. Len(list) + 1 \in Int /\ Len(list) + n \in Int /\ 1 \in Int /\ Len(list) \in Int
    BY <1>1
  <2>2. IsFiniteSet(later) /\ Cardinality(later)
          = IF Len(list) + 1 > Len(list) + n THEN 0 ELSE (Len(list) + n) - (Len(list) + 1) + 1
    BY <2>1, FS_Interval
  <2>3. Cardinality(later) = n
    <3> HIDE DEF later
    <3> QED
      BY <1>1, <2>2
  <2>4. IsFiniteSet(1..Len(list))
    BY <2>1, FS_Interval
  <2> HIDE DEF later
  <2> QED
    BY <2>2, <2>3, <2>4
<1>3. IsFiniteSet(old) /\ Cardinality(old) \in Nat
  BY <1>1, <1>2, FS_Subset, FS_CardinalityType
<1>4. \A i : i \in 1..Len(longer) <=> i \in 1..Len(list) \/ i \in later
  BY <1>1
<1>5. \A i \in 1..Len(list) : i \in new <=> i \in old
  BY <1>1 DEF Places
<1>6. \A i \in later : i \in new <=> longer[i].outcome \in outcomes
  BY <1>4 DEF Places
<1>7. new \subseteq 1..Len(longer)
  BY DEF Places
<1>8. \A i \in later : i \notin 1..Len(list)
  BY <1>1
<1> HIDE DEF old, new, later
<1>9. ASSUME \A i \in later : longer[i].outcome \in outcomes
      PROVE  Cardinality(new) = Cardinality(old) + n
  <2>1. new = old \cup later /\ old \cap later = {}
    BY <1>1, <1>4, <1>5, <1>6, <1>7, <1>8, <1>9
  <2>2. Cardinality(new) = Cardinality(old) + Cardinality(later) - Cardinality({})
    BY <1>2, <1>3, <2>1, FS_Union
  <2> QED
    BY <1>2, <1>3, <2>2, FS_EmptySet
<1>10. ASSUME \A i \in later : longer[i].outcome \notin outcomes
       PROVE  new = old
  BY <1>1, <1>4, <1>5, <1>6, <1>7, <1>10
<1> QED
  BY <1>3, <1>9, <1>10 DEF old, new, later

LEMMA OneLonger ==
  ASSUME NEW list \in Seq(Report), NEW longer \in Seq(Report),
         Len(longer) = Len(list) + 1,
         \A i \in 1..Len(list) : longer[i] = list[i],
         NEW outcomes
  PROVE  /\ Cardinality(Places(list, outcomes)) \in Nat
         /\ Cardinality(Places(longer, outcomes)) = Cardinality(Places(list, outcomes))
              + (IF longer[Len(list) + 1].outcome \in outcomes THEN 1 ELSE 0)
<1> DEFINE n == Len(list) + 1
           old == Cardinality(Places(list, outcomes))
           new == Cardinality(Places(longer, outcomes))
<1>1. n \in Nat /\ \A i \in n..n : i = n
  OBVIOUS
<1>2. /\ old \in Nat
      /\ (\A i \in n..n : longer[i].outcome \in outcomes) => new = old + 1
      /\ (\A i \in n..n : longer[i].outcome \notin outcomes) => new = old
  <2>1. 1 \in Nat
    OBVIOUS
  <2> QED
    BY <2>1, LongerList
<1> HIDE DEF n, old, new
<1>3. CASE longer[n].outcome \in outcomes
  <2>1. new = old + 1
    BY <1>1, <1>2, <1>3
  <2> QED
    BY <1>2, <1>3, <2>1 DEF n, old, new
<1>4. CASE longer[n].outcome \notin outcomes
  <2>1. new = old
    BY <1>1, <1>2, <1>4
  <2>2. new = old + 0
    BY <1>2, <2>1
  <2> QED
    BY <1>2, <1>4, <2>2 DEF n, old, new
<1> QED
  BY <1>3, <1>4

LEMMA LongerWithout ==
  ASSUME NEW list \in Seq(Report), NEW longer \in Seq(Report), NEW n \in Nat,
         Len(longer) = Len(list) + n,
         \A i \in 1..Len(list) : longer[i] = list[i],
         NEW outcomes,
         \A i \in (Len(list) + 1)..(Len(list) + n) : longer[i].outcome \notin outcomes
  PROVE  Places(longer, outcomes) = Places(list, outcomes)
<1>1. Len(list) \in Nat
  OBVIOUS
<1>2. \A i : i \in 1..Len(longer) <=> i \in 1..Len(list) \/ i \in (Len(list) + 1)..(Len(list) + n)
  BY <1>1
<1>3. \A i : i \in Places(longer, outcomes) <=> i \in 1..Len(longer) /\ longer[i].outcome \in outcomes
  BY DEF Places
<1>4. \A i : i \in Places(list, outcomes) <=> i \in 1..Len(list) /\ list[i].outcome \in outcomes
  BY DEF Places
<1>5. \A i : i \in Places(longer, outcomes) <=> i \in Places(list, outcomes)
  BY <1>2, <1>3, <1>4, Zenon
<1> QED
  BY <1>5, Zenon

(* The waves the scheduler makes of a plan.                                *)
Waves(plan0, p, A, B) ==
  /\ A \subseteq ToSet(plan0) /\ B \subseteq ToSet(plan0) /\ A \cap B = {}
  /\ IsFiniteSet(A) /\ IsFiniteSet(B)
  /\ Cardinality(A) \in Nat /\ Cardinality(B) \in Nat
  /\ Cardinality(A) + Cardinality(B) <= p.perTurn
  /\ \A t \in A : Kind[t] = "A"
  /\ \A t \in B : Kind[t] = "B"
  /\ \A t \in A, u \in ToSet(plan0) \ A : Kind[u] = "A" => t < u
  /\ \A t \in B, u \in ToSet(plan0) \ B : Kind[u] = "B" => t < u

LEMMA WavesOfPlan ==
  ASSUME NEW plan0 \in Seq(Task), \A i, j \in 1..Len(plan0) : plan0[i] = plan0[j] => i = j,
         NEW p \in Policy
  PROVE  Waves(plan0, p, WaveA(plan0, p), WaveB(plan0, p))
<1> DEFINE CA == OfKind(plan0, "A")
           CB == OfKind(plan0, "B")
           kA == IF p.waveA < p.perTurn THEN p.waveA ELSE p.perTurn
           A  == WaveA(plan0, p)
           kB == IF p.waveB > 0 THEN p.perTurn - Cardinality(A) ELSE 0
           B  == WaveB(plan0, p)
<1>1. p.perTurn \in Nat /\ p.waveA \in Nat /\ p.waveB \in Nat
  BY WavesAssumption
<1>2. /\ CA \in SUBSET ToSet(plan0) /\ CB \in SUBSET ToSet(plan0)
      /\ CA \in SUBSET Nat /\ CB \in SUBSET Nat
      /\ IsFiniteSet(ToSet(plan0))
  BY PlannedOnce DEF OfKind
<1>3. IsFiniteSet(CA) /\ IsFiniteSet(CB)
  BY <1>2, FS_Subset
<1>4. ASSUME NEW C \in SUBSET Nat, IsFiniteSet(C), NEW t \in C
      PROVE  Cardinality(Before(t, C)) \in Nat
  <2>1. Before(t, C) \in SUBSET C
    BY DEF Before
  <2> QED
    BY <1>4, <2>1, FS_Subset, FS_CardinalityType
<1>5. kA \in Nat /\ kA <= p.perTurn
  BY <1>1
<1>6. A = FirstOnes(CA, kA)
  <2>1. \A t \in CA : Cardinality(Before(t, CA)) \in Nat
    BY <1>2, <1>3, <1>4
  <2>2. \A t \in CA : Cardinality(Before(t, CA)) < kA
                        <=> /\ Cardinality(Before(t, CA)) < p.waveA
                            /\ Cardinality(Before(t, CA)) < p.perTurn
    BY <1>1, <2>1
  <2>3. A = {t \in CA : /\ Cardinality(Before(t, CA)) < p.waveA
                        /\ Cardinality(Before(t, CA)) < p.perTurn}
    BY DEF WaveA
  <2> HIDE DEF A, kA, CA
  <2> QED
    BY <2>2, <2>3 DEF FirstOnes
<1> HIDE DEF kA
<1>7. /\ IsFiniteSet(A) /\ Cardinality(A) \in Nat /\ Cardinality(A) <= kA
      /\ \A t \in A, u \in CA \ A : t < u
  <2> HIDE DEF A, CA
  <2> QED
    BY <1>2, <1>3, <1>5, <1>6, FirstAreFew
<1>8. kB \in Nat /\ Cardinality(A) + kB <= p.perTurn
  <2> HIDE DEF A
  <2> QED
    BY <1>1, <1>5, <1>7
<1>9. B = FirstOnes(CB, kB)
  <2> DEFINE a == Cardinality(A)
  <2>1. \A t \in CB : Cardinality(Before(t, CB)) \in Nat
    BY <1>2, <1>3, <1>4
  <2>2. B = {t \in CB : a + Cardinality(Before(t, CB)) < p.perTurn /\ p.waveB > 0}
    BY DEF WaveB
  <2> HIDE DEF A, B, CB
  <2>3. \A t \in CB : Cardinality(Before(t, CB)) < kB
                        <=> (a + Cardinality(Before(t, CB)) < p.perTurn /\ p.waveB > 0)
    <3> HIDE DEF a
    <3>1. a \in Nat
      BY <1>7 DEF a
    <3> QED
      BY <1>1, <2>1, <3>1 DEF a
  <2> HIDE DEF kB, a
  <2> QED
    BY <2>2, <2>3 DEF FirstOnes
<1>10. /\ IsFiniteSet(B) /\ Cardinality(B) \in Nat /\ Cardinality(B) <= kB
       /\ \A t \in B, u \in CB \ B : t < u
  <2> HIDE DEF A, B, CB, kB
  <2> QED
    BY <1>2, <1>3, <1>8, <1>9, FirstAreFew
<1>11. /\ A \subseteq CA /\ B \subseteq CB
       /\ \A t \in CA : Kind[t] = "A"
       /\ \A t \in CB : Kind[t] = "B"
       /\ \A t \in ToSet(plan0) : (Kind[t] = "A" => t \in CA) /\ (Kind[t] = "B" => t \in CB)
  BY DEF OfKind, WaveA, WaveB
<1> HIDE DEF A, B, CA, CB, kB
<1>12. Cardinality(A) + Cardinality(B) <= p.perTurn
  BY <1>1, <1>7, <1>8, <1>10
<1>13. A \cap B = {}
  <2>1. \A t \in A : Kind[t] = "A"
    BY <1>11
  <2>2. \A t \in B : Kind[t] = "B"
    BY <1>11
  <2> QED
    BY <2>1, <2>2
<1>14. Waves(plan0, p, A, B)
  BY <1>2, <1>7, <1>10, <1>11, <1>12, <1>13 DEF Waves
<1> QED
  BY <1>14 DEF A, B

Tally ==
  [executed |-> Len(answers),
   degraded |-> Cardinality(Reported({"degraded"})),
   timeout  |-> Cardinality(Reported({"timeout"})),
   skipped  |-> Cardinality(Reported({"skipped for budget", "skipped by policy"})),
   failed   |-> Cardinality(Reported({"failed"}))]

(* The tasks of the waves opened so far, one after the other.              *)
Lined(plan0, p, i) ==
  LET A == WaveA(plan0, p) IN
  IF i <= Cardinality(A) THEN InOrder(A)[i]
  ELSE InOrder(WaveB(plan0, p))[i - Cardinality(A)]

LineLength(plan0, p, first) ==
  IF first THEN Cardinality(WaveA(plan0, p))
  ELSE Cardinality(WaveA(plan0, p)) + Cardinality(WaveB(plan0, p))

FirstWave == waveStage = "wave A"

InLine ==
  /\ Len(answers) + Len(queue) = LineLength(tasks, policy, FirstWave)
  /\ \A i \in 1..Len(answers) : answers[i].task = Lined(tasks, policy, i)
  /\ \A i \in 1..Len(queue) : queue[i] = Lined(tasks, policy, Len(answers) + i)

ReportsFollow ==
  /\ Len(reports) = Len(answers)
  /\ \A i \in 1..Len(answers) :
       reports[i] = [task |-> answers[i].task, outcome |-> OutcomeOf(answers[i].answer)]
  /\ counts = Tally

Waving ==
  /\ policy \in Policy
  /\ InLine
  /\ ReportsFollow
  /\ waveStage = "wave B" =>
       \E i \in 1..Len(answers) : i <= Cardinality(WaveA(tasks, policy))
                                  /\ answers[i].answer = "suggestions"

(* The plain pool goes through the plan from the first task to the last.   *)
Pooled ==
  /\ Len(answers) + Len(queue) = Len(tasks)
  /\ \A i \in 1..Len(answers) : answers[i].task = tasks[i]
  /\ \A i \in 1..Len(queue) : queue[i] = tasks[Len(answers) + i]
  /\ spent <= policy.budget

WavesInv ==
  /\ WavesTypeOK
  /\ \A i, j \in 1..Len(tasks) : tasks[i] = tasks[j] => i = j
  /\ waveStage = "waiting" =>
       /\ policy = NoPolicy /\ counts = NoCounts
       /\ answers = <<>> /\ reports = <<>> /\ queue = <<>> /\ spent = 0
  /\ waveStage = "pool" => policy = NoPolicy /\ Pooled
  /\ waveStage = "done" => queue = <<>>
  /\ waveStage \in {"wave A", "wave B"} => Waving
  /\ TasksReportedOnce

LEMMA NothingTallied ==
  ASSUME reports = <<>>, answers = <<>>, counts = NoCounts PROVE counts = Tally
<1>1. \A outcomes : Reported(outcomes) = {}
  BY DEF Reported
<1>2. Cardinality({}) = 0 /\ Len(<<>>) = 0
  BY FS_EmptySet
<1> QED
  BY <1>1, <1>2 DEF Tally, NoCounts

LEMMA WavesAtFirst ==
  ASSUME waveStage = "waiting", policy = NoPolicy, tasks = <<>>, queue = <<>>, spent = 0,
         answers = <<>>, reports = <<>>, counts = NoCounts
  PROVE  WavesInv
<1>1. WavesTypeOK
  <2>1. counts \in [DOMAIN NoCounts -> Nat]
    BY DEF NoCounts
  <2>2. /\ <<>> \in Seq(Task) /\ <<>> \in Seq([task: Task, answer: PoolAnswer])
        /\ <<>> \in Seq([task: Task, outcome: Outcome])
    OBVIOUS
  <2> QED
    BY <2>1, <2>2 DEF WavesTypeOK, WaveStage
<1>2. Len(tasks) = 0
  OBVIOUS
<1> QED
  BY <1>1, <1>2 DEF WavesInv, TasksReportedOnce

LEMMA WavesStart == WavesInit => WavesInv
BY WavesAtFirst DEF WavesInit

LEMMA WavesForget == ASSUME WavesForgotten PROVE WavesInv'
<1>1. WavesInit'
  BY DEF WavesInit, WavesForgotten
<1>2. WavesInit' => WavesInv'
  BY WavesStart, PTL
<1> QED
  BY <1>1, <1>2

LEMMA WavesStay == ASSUME WavesInv, UNCHANGED waveVars PROVE WavesInv'
<1>1. /\ UNCHANGED <<waveStage, policy, tasks, queue>>
      /\ UNCHANGED <<spent, answers, reports, counts>>
  BY DEF waveVars
<1>2. WavesTypeOK'
  BY <1>1 DEF WavesInv, WavesTypeOK
<1>3. Tally' = Tally
  BY <1>1 DEF Tally, Reported
<1>4. Waving => Waving'
  BY <1>1, <1>3 DEF Waving, InLine, ReportsFollow, FirstWave
<1>5. TasksReportedOnce => TasksReportedOnce'
  <2>1. Ran' = Ran /\ Suggested' = Suggested /\ \A outcomes : Reported(outcomes)' = Reported(outcomes)
    BY <1>1 DEF Ran, Suggested, Reported
  <2> QED
    BY <1>1, <2>1 DEF TasksReportedOnce, PoolAnswered
<1> QED
  BY <1>1, <1>2, <1>4, <1>5 DEF WavesInv, Pooled

LEMMA InOrderIsLine ==
  ASSUME NEW S \in SUBSET Task, IsFiniteSet(S)
  PROVE  /\ InOrderOf(S, InOrder(S))
         /\ InOrder(S) \in Seq(Task) /\ Len(InOrder(S)) = Cardinality(S)
         /\ \A i \in 1..Cardinality(S) : InOrder(S)[i] \in S
         /\ Cardinality(S) \in Nat
<1>1. S \in SUBSET Nat
  <2>1. Task \subseteq Nat
    BY WavesAssumption
  <2> QED
    BY <2>1
<1>2. InOrderOf(S, InOrder(S)) /\ Cardinality(S) \in Nat
  BY <1>1, InOrderSorts, FS_CardinalityType
<1> DEFINE q == InOrder(S)
           n == Cardinality(S)
<1> HIDE DEF q, n
<1>3. q \in [1..n -> S] /\ n \in Nat
  BY <1>2 DEF InOrderOf, q, n
<1>4. q \in Seq(Task) /\ Len(q) = n /\ \A i \in 1..n : q[i] \in S
  BY <1>3
<1> QED
  BY <1>2, <1>3, <1>4 DEF q, n

LEMMA CountsTyped ==
  reports \in Seq(Report) /\ answers \in Seq([task: Task, answer: PoolAnswer])
    => Tally \in [DOMAIN NoCounts -> Nat]
<1> SUFFICES ASSUME reports \in Seq(Report), answers \in Seq([task: Task, answer: PoolAnswer])
             PROVE  Tally \in [DOMAIN NoCounts -> Nat]
  OBVIOUS
<1>1. \A outcomes : Reported(outcomes) = Places(reports, outcomes)
  BY DEF Reported, Places
<1>2. ASSUME NEW outcomes PROVE Cardinality(Reported(outcomes)) \in Nat
  <2>1. Len(reports) = Len(reports) + 0 /\ 0 \in Nat
    OBVIOUS
  <2>2. Cardinality(Places(reports, outcomes)) \in Nat
    BY <2>1, LongerList
  <2> QED
    BY <1>1, <2>2
<1>3. Len(answers) \in Nat
  OBVIOUS
<1>4. /\ Tally.executed \in Nat /\ Tally.degraded \in Nat /\ Tally.timeout \in Nat
      /\ Tally.skipped \in Nat /\ Tally.failed \in Nat
  BY <1>2, <1>3 DEF Tally
<1>5. /\ DOMAIN Tally = {"executed", "degraded", "timeout", "skipped", "failed"}
      /\ DOMAIN NoCounts = {"executed", "degraded", "timeout", "skipped", "failed"}
      /\ Tally = [x \in DOMAIN Tally |-> Tally[x]]
  BY DEF Tally, NoCounts
<1> HIDE DEF Tally
<1>6. \A x \in DOMAIN NoCounts : Tally[x] \in Nat
  BY <1>4, <1>5
<1> QED
  BY <1>5, <1>6

LEMMA WavesStarted ==
  ASSUME WavesInv, NEW plan0 \in Plan, NEW p \in Policy, StartWaves(plan0, p)
  PROVE  WavesInv'
<1> DEFINE A == WaveA(tasks', p)
           B == WaveB(tasks', p)
<1>1. /\ tasks' \in Seq(Task) /\ tasks' = Filtered(plan0)
      /\ \A i, j \in 1..Len(tasks') : tasks'[i] = tasks'[j] => i = j
  BY FilteredIsPlan DEF StartWaves
<1>2. Waves(tasks', p, A, B)
  BY <1>1, WavesOfPlan
<1>3. /\ policy' = p /\ queue' = InOrder(A) /\ waveStage' = "wave A"
      /\ UNCHANGED <<spent, answers, reports, counts>>
      /\ answers = <<>> /\ reports = <<>> /\ counts = NoCounts
  BY DEF StartWaves, WavesInv
<1>4. A \in SUBSET Task /\ IsFiniteSet(A)
  BY <1>1, <1>2, PlannedOnce DEF Waves
<1>5. queue' \in Seq(Task) /\ Len(queue') = Cardinality(A) /\ Cardinality(A) \in Nat
  BY <1>3, <1>4, InOrderIsLine
<1>6. WavesTypeOK'
  BY <1>1, <1>3, <1>5 DEF WavesInv, WavesTypeOK, WaveStage
<1>7. InLine'
  <2>1. /\ LineLength(tasks', p, TRUE) = Cardinality(A)
        /\ \A i : i <= Cardinality(A) => Lined(tasks', p, i) = InOrder(A)[i]
    BY DEF LineLength, Lined
  <2>2. Len(answers') = 0
    BY <1>3
  <2> HIDE DEF A
  <2>3. \A i \in 1..Len(queue') : queue'[i] = Lined(tasks', p, 0 + i)
    <3> TAKE i \in 1..Len(queue')
    <3>1. 0 + i = i /\ i <= Cardinality(A)
      BY <1>5
    <3>2. Lined(tasks', p, i) = InOrder(A)[i]
      BY <2>1, <3>1
    <3> QED
      BY <1>3, <3>1, <3>2 DEF A
  <2>4. Len(answers') + Len(queue') = LineLength(tasks', policy', FirstWave')
    <3>1. LineLength(tasks', policy', FirstWave') = Cardinality(A)
      BY <1>3, <2>1, Zenon DEF FirstWave
    <3>2. Len(queue') = Cardinality(A) /\ Cardinality(A) \in Nat
      BY <1>5 DEF A
    <3> QED
      BY <2>2, <3>1, <3>2
  <2>5. \A i \in 1..Len(answers') : answers'[i].task = Lined(tasks', policy', i)
    BY <2>2
  <2>6. \A i \in 1..Len(queue') : queue'[i] = Lined(tasks', policy', Len(answers') + i)
    BY <1>3, <2>2, <2>3
  <2> QED
    BY <2>4, <2>5, <2>6 DEF InLine
<1>8. ReportsFollow'
  <2>1. counts = Tally
    BY <1>3, NothingTallied
  <2>2. Tally' = Tally
    BY <1>3 DEF Tally, Reported
  <2>3. answers' = <<>> /\ reports' = <<>> /\ Len(<<>>) = 0
    BY <1>3
  <2>4. \A i \in 1..Len(answers') : FALSE
    BY <2>3
  <2>5. Len(reports') = Len(answers')
    BY <2>3
  <2>6. counts' = Tally'
    BY <1>3, <2>1, <2>2
  <2> QED
    BY <2>4, <2>5, <2>6 DEF ReportsFollow
<1> QED
  BY <1>1, <1>3, <1>6, <1>7, <1>8 DEF WavesInv, Waving, TasksReportedOnce

LEMMA PoolStarted ==
  ASSUME WavesInv, NEW plan0 \in Plan, StartPool(plan0)
  PROVE  WavesInv'
<1>1. /\ tasks' \in Seq(Task) /\ queue' = tasks'
      /\ \A i, j \in 1..Len(tasks') : tasks'[i] = tasks'[j] => i = j
  BY FilteredIsPlan DEF StartPool
<1>2. /\ policy' = NoPolicy /\ waveStage' = "pool"
      /\ UNCHANGED <<policy, spent, answers, reports, counts>>
  BY DEF StartPool, WavesInv
<1>3. WavesTypeOK'
  BY <1>1, <1>2 DEF WavesInv, WavesTypeOK, WaveStage
<1>4. Pooled'
  <2>1. answers' = <<>> /\ Len(answers') = 0 /\ spent' = 0
    BY <1>2 DEF StartPool, WavesInv
  <2>2. Len(tasks') \in Nat /\ NoPolicy.budget \in Nat
    BY <1>1, WavesAssumption
  <2> QED
    BY <1>1, <1>2, <2>1, <2>2 DEF Pooled
<1> QED
  BY <1>1, <1>2, <1>3, <1>4 DEF WavesInv, TasksReportedOnce

LEMMA PoolEnded == ASSUME WavesInv, EndPool PROVE WavesInv'
<1>1. /\ waveStage = "pool" /\ queue = <<>> /\ waveStage' = "done" /\ policy = NoPolicy /\ Pooled
      /\ UNCHANGED <<policy, tasks, queue, spent, answers, reports, counts>>
  BY DEF EndPool, WavesInv
<1>2. WavesTypeOK'
  BY <1>1 DEF WavesInv, WavesTypeOK, WaveStage
<1>3. PoolAnswered'
  <2>1. Len(queue) = 0 /\ Len(answers) \in Nat
    BY <1>1 DEF WavesInv, WavesTypeOK
  <2>2. Len(answers) = Len(tasks)
    BY <1>1, <2>1 DEF Pooled
  <2> QED
    BY <1>1, <2>2 DEF Pooled, PoolAnswered
<1> QED
  BY <1>1, <1>2, <1>3 DEF WavesInv, TasksReportedOnce

LEMMA OutcomesAre ==
  ASSUME NEW answer \in PoolAnswer
  PROVE  OutcomeOf(answer) \in Outcome \ {"skipped by policy"}
BY DEF PoolAnswer, OutcomeOf, Outcome

LEMMA TaskRuns ==
  ASSUME WavesInv, NEW answer \in PoolAnswer, RunTask(answer)
  PROVE  WavesInv'
<1> DEFINE next == [task |-> Head(queue), answer |-> answer]
           m == Len(answers)
           told == [task |-> Head(queue), outcome |-> OutcomeOf(answer)]
<1>1. /\ WavesTypeOK /\ queue # <<>> /\ answers' = Append(answers, next)
      /\ queue' = Tail(queue) /\ UNCHANGED <<waveStage, policy, tasks>>
      /\ waveStage \in {"pool", "wave A", "wave B"}
  BY DEF RunTask, WavesInv, WavesTypeOK, WaveStage
<1>2. /\ queue \in Seq(Task) /\ answers \in Seq([task: Task, answer: PoolAnswer])
      /\ spent \in Nat /\ reports \in Seq(Report)
  BY <1>1 DEF WavesTypeOK, Report
<1>3. /\ Head(queue) \in Task /\ Head(queue) = queue[1] /\ Len(queue) \in Nat /\ Len(queue) > 0
      /\ Tail(queue) \in Seq(Task) /\ Len(Tail(queue)) = Len(queue) - 1
      /\ \A i \in 1..(Len(queue) - 1) : Tail(queue)[i] = queue[i + 1]
  <2>1. Len(queue) \in Nat \ {0}
    BY <1>1, <1>2, EmptySeq
  <2>2. /\ Head(queue) \in Task /\ Tail(queue) \in Seq(Task) /\ Len(Tail(queue)) = Len(queue) - 1
        /\ \A i \in 1..Len(Tail(queue)) : Tail(queue)[i] = queue[i + 1]
    BY <1>1, <1>2, HeadTailProperties
  <2>3. Head(queue) = queue[1]
    BY <1>2, <2>1
  <2> QED
    BY <2>1, <2>2, <2>3
<1>4. /\ next \in [task: Task, answer: PoolAnswer] /\ m \in Nat
      /\ answers' \in Seq([task: Task, answer: PoolAnswer]) /\ Len(answers') = m + 1
      /\ answers'[m + 1] = next /\ \A i \in 1..m : answers'[i] = answers[i]
  <2>1. next \in [task: Task, answer: PoolAnswer]
    BY <1>3
  <2> HIDE DEF next
  <2>2. Len(answers) \in Nat
    BY <1>2
  <2>3. /\ answers' \in Seq([task: Task, answer: PoolAnswer]) /\ Len(answers') = Len(answers) + 1
        /\ answers'[Len(answers) + 1] = next
        /\ \A i \in 1..Len(answers) : answers'[i] = answers[i]
    <3> DEFINE Given == [task: Task, answer: PoolAnswer]
    <3>1. answers \in Seq(Given) /\ next \in Given
      BY <1>2, <2>1
    <3> HIDE DEF Given
    <3>2. /\ Append(answers, next) \in Seq(Given)
          /\ Len(Append(answers, next)) = Len(answers) + 1
          /\ Append(answers, next)[Len(answers) + 1] = next
          /\ \A i \in 1..Len(answers) : Append(answers, next)[i] = answers[i]
      BY <3>1, AppendProperties
    <3>3. answers' = Append(answers, next)
      BY <1>1
    <3> QED
      BY <3>2, <3>3 DEF Given
  <2> QED
    BY <2>1, <2>2, <2>3
<1>5. spent' \in Nat
  <2>1. Tokens[Head(queue)] \in Nat
    BY <1>3, WavesAssumption
  <2> QED
    BY <1>2, <2>1 DEF RunTask
<1> HIDE DEF next, m
<1>6. CASE waveStage = "pool"
  <2>1. UNCHANGED <<reports, counts>>
    BY <1>6 DEF RunTask
  <2>2. WavesTypeOK'
    BY <1>1, <1>3, <1>4, <1>5, <2>1 DEF WavesTypeOK
  <2>3. Pooled'
    <3>0. /\ m + Len(queue) = Len(tasks)
          /\ \A i \in 1..m : answers[i].task = tasks[i]
          /\ \A i \in 1..Len(queue) : queue[i] = tasks[m + i]
          /\ spent <= policy.budget
      BY <1>6 DEF WavesInv, Pooled, m
    <3>1. /\ m \in Nat /\ Len(queue) \in Nat /\ Len(queue) > 0
          /\ Len(answers') = m + 1 /\ Len(queue') = Len(queue) - 1
      BY <1>1, <1>3, <1>4
    <3>a. tasks' = tasks
      BY <1>1, Zenon
    <3>2. Len(answers') + Len(queue') = Len(tasks')
      <4>1. m + Len(queue) = Len(tasks) /\ Len(tasks') = Len(tasks)
        BY <3>0, <3>a, Zenon
      <4> QED
        BY <3>1, <4>1
    <3>3. ASSUME NEW i \in 1..Len(answers') PROVE answers'[i].task = tasks'[i]
      <4>1. CASE i \in 1..m
        BY <1>1, <1>4, <3>0, <4>1
      <4>2. CASE i = m + 1
        <5>1. queue[1] = tasks[m + 1]
          BY <3>0, <3>1
        <5> QED
          BY <1>3, <1>4, <3>a, <4>2, <5>1 DEF next
      <4> QED
        BY <3>1, <3>3, <4>1, <4>2
    <3>4. ASSUME NEW i \in 1..Len(queue') PROVE queue'[i] = tasks'[Len(answers') + i]
      <4>1. i + 1 \in 1..Len(queue) /\ i \in 1..(Len(queue) - 1) /\ m + (i + 1) = (m + 1) + i
        BY <3>1, <3>4
      <4>2. queue[i + 1] = tasks[(m + 1) + i]
        BY <3>0, <4>1
      <4>3. queue'[i] = queue[i + 1]
        BY <1>1, <1>3, <4>1
      <4> QED
        BY <1>1, <3>1, <4>2, <4>3
    <3>5. spent' <= policy'.budget
      <4>1. Tokens[Head(queue)] \in Nat
        BY <1>3, WavesAssumption
      <4> QED
        BY <1>1, <1>2, <1>6, <3>0, <4>1 DEF RunTask, InTokens
    <3> QED
      BY <3>2, <3>3, <3>4, <3>5 DEF Pooled
  <2> QED
    BY <1>1, <1>6, <2>2, <2>3 DEF WavesInv, TasksReportedOnce
<1>7. CASE waveStage \in {"wave A", "wave B"}
  <2>1. /\ reports' = Append(reports, told) /\ counts' = Count(OutcomeOf(answer))
        /\ policy \in Policy /\ InLine /\ ReportsFollow
    BY <1>7 DEF RunTask, WavesInv, Waving
  <2>2. /\ told \in Report /\ reports' \in Seq(Report) /\ Len(reports') = Len(reports) + 1
        /\ Len(reports) = m /\ reports'[m + 1] = told
        /\ \A i \in 1..m : reports'[i] = reports[i]
    <3>1. told \in Report
      BY <1>3, OutcomesAre DEF Report
    <3>2. Len(reports) = m
      BY <2>1 DEF ReportsFollow, m
    <3> HIDE DEF told
    <3> QED
      BY <1>2, <2>1, <3>1, <3>2
  <2>3. InLine'
    <3>2. /\ m + Len(queue) = LineLength(tasks, policy, FirstWave)
          /\ \A i \in 1..m : answers[i].task = Lined(tasks, policy, i)
          /\ \A i \in 1..Len(queue) : queue[i] = Lined(tasks, policy, m + i)
      BY <2>1 DEF InLine, m
    <3>1. /\ m \in Nat /\ Len(queue) \in Nat
          /\ Len(answers') = m + 1 /\ Len(queue') = Len(queue) - 1
      BY <1>1, <1>3, <1>4
    <3>6. FirstWave' = FirstWave
      BY <1>1, Zenon DEF FirstWave
    <3>3. Len(answers') + Len(queue') = m + Len(queue)
      BY <3>1
    <3>4. \A i \in 1..Len(answers') : answers'[i].task = Lined(tasks, policy, i)
      <4> TAKE i \in 1..Len(answers')
      <4>1. CASE i \in 1..m
        BY <1>4, <3>2, <4>1
      <4>2. CASE i = m + 1
        <5>1. queue[1] = Lined(tasks, policy, m + 1)
          BY <1>3, <3>2
        <5> QED
          BY <1>3, <1>4, <4>2, <5>1 DEF next
      <4> QED
        BY <1>4, <4>1, <4>2
    <3>5. \A i \in 1..Len(queue') : queue'[i] = Lined(tasks, policy, Len(answers') + i)
      <4> TAKE i \in 1..Len(queue')
      <4>1. i + 1 \in 1..Len(queue) /\ i \in 1..(Len(queue) - 1) /\ m + (i + 1) = (m + 1) + i
        BY <3>1
      <4>2. queue[i + 1] = Lined(tasks, policy, (m + 1) + i)
        BY <3>2, <4>1
      <4>3. queue'[i] = queue[i + 1]
        BY <1>1, <1>3, <4>1
      <4> QED
        BY <1>4, <4>2, <4>3
    <3> QED
      BY <1>1, <3>2, <3>3, <3>4, <3>5, <3>6 DEF InLine
  <2>4. counts' = Tally'
    <3> DEFINE o == OutcomeOf(answer)
    <3>1. \A outcomes : Reported(outcomes) = Places(reports, outcomes)
      <4>1. DOMAIN reports = 1..Len(reports)
        BY <1>2
      <4> QED
        BY <4>1 DEF Reported, Places
    <3>7. ASSUME NEW outcomes PROVE Reported(outcomes)' = Places(reports', outcomes)
      <4>1. DOMAIN reports' = 1..Len(reports')
        BY <2>2
      <4> QED
        BY <4>1 DEF Reported, Places
    <3>2. ASSUME NEW outcomes
          PROVE  /\ Cardinality(Places(reports, outcomes)) \in Nat
                 /\ Cardinality(Places(reports', outcomes))
                      = Cardinality(Places(reports, outcomes)) + (IF o \in outcomes THEN 1 ELSE 0)
      <4>1. /\ reports \in Seq(Report) /\ reports' \in Seq(Report)
            /\ Len(reports') = Len(reports) + 1
            /\ \A i \in 1..Len(reports) : reports'[i] = reports[i]
            /\ reports'[Len(reports) + 1].outcome = o
        BY <1>2, <2>2
      <4> HIDE DEF o
      <4> QED
        BY <4>1, OneLonger
    <3>3. ASSUME NEW outcomes
          PROVE  Cardinality(Reported(outcomes)')
                   = Cardinality(Reported(outcomes)) + (IF o \in outcomes THEN 1 ELSE 0)
      BY <3>1, <3>2, <3>7
    <3>4. counts = Tally /\ o # "skipped by policy"
      BY <2>1, OutcomesAre DEF ReportsFollow
    <3>5. counts' = Count(o)
      BY <2>1
    <3> HIDE DEF o
    <3>6. /\ Cardinality(Reported({"degraded"})') = counts.degraded + (IF o = "degraded" THEN 1 ELSE 0)
          /\ Cardinality(Reported({"timeout"})') = counts.timeout + (IF o = "timeout" THEN 1 ELSE 0)
          /\ Cardinality(Reported({"failed"})') = counts.failed + (IF o = "failed" THEN 1 ELSE 0)
          /\ Cardinality(Reported({"skipped for budget", "skipped by policy"})')
               = counts.skipped + (IF o = "skipped for budget" THEN 1 ELSE 0)
          /\ Len(answers') = counts.executed + 1
      <4>1. /\ counts.degraded = Cardinality(Reported({"degraded"}))
            /\ counts.timeout = Cardinality(Reported({"timeout"}))
            /\ counts.failed = Cardinality(Reported({"failed"}))
            /\ counts.skipped = Cardinality(Reported({"skipped for budget", "skipped by policy"}))
            /\ counts.executed = Len(answers)
        BY <3>4 DEF Tally
      <4>2. /\ o \in {"degraded"} <=> o = "degraded"
            /\ o \in {"timeout"} <=> o = "timeout"
            /\ o \in {"failed"} <=> o = "failed"
            /\ o \in {"skipped for budget", "skipped by policy"} <=> o = "skipped for budget"
        BY <3>4
      <4> QED
        BY <1>4, <3>3, <4>1, <4>2 DEF m
    <3> QED
      BY <3>5, <3>6 DEF Tally, Count
  <2>5. ReportsFollow'
    <3>1. Len(reports') = Len(answers')
      BY <1>4, <2>2
    <3>2. \A i \in 1..Len(answers') :
            reports'[i] = [task |-> answers'[i].task, outcome |-> OutcomeOf(answers'[i].answer)]
      <4> TAKE i \in 1..Len(answers')
      <4>1. CASE i \in 1..m
        BY <1>4, <2>1, <2>2, <4>1 DEF ReportsFollow, m
      <4>2. CASE i = m + 1
        BY <1>4, <2>2, <4>2 DEF next
      <4> QED
        BY <1>4, <4>1, <4>2
    <3> QED
      BY <2>4, <3>1, <3>2 DEF ReportsFollow
  <2>9. /\ \A i \in 1..m : i \in 1..Len(answers') /\ answers'[i] = answers[i]
        /\ WaveA(tasks', policy') = WaveA(tasks, policy)
    <3>1. \A i \in 1..m : i \in 1..Len(answers')
      <4>1. m \in Nat /\ Len(answers') = m + 1
        BY <1>4, Zenon
      <4> QED
        BY <4>1
    <3>2. \A i \in 1..m : answers'[i] = answers[i]
      BY <1>4, Zenon
    <3>3. UNCHANGED <<waveStage, policy, tasks>>
      BY <1>1, Zenon
    <3>4. WaveA(tasks', policy') = WaveA(tasks, policy)
      BY <3>3
    <3> QED
      BY <3>1, <3>2, <3>4, Zenon
  <2>6. waveStage' = "wave B" =>
          \E i \in 1..Len(answers') : i <= Cardinality(WaveA(tasks', policy'))
                                      /\ answers'[i].answer = "suggestions"
    <3>1. waveStage = "wave B" =>
            \E i \in 1..m : i <= Cardinality(WaveA(tasks, policy))
                            /\ answers[i].answer = "suggestions"
      BY DEF WavesInv, Waving, m
    <3>2. waveStage' = waveStage
      BY <1>1
    <3> QED
      BY <2>9, <3>1, <3>2, Zenon
  <2>7. counts' \in [DOMAIN NoCounts -> Nat]
    <3>1. (reports \in Seq(Report) /\ answers \in Seq([task: Task, answer: PoolAnswer]))'
            => (Tally \in [DOMAIN NoCounts -> Nat])'
      BY CountsTyped, PTL
    <3> QED
      BY <1>4, <2>2, <2>4, <3>1
  <2>8. WavesTypeOK'
    BY <1>1, <1>3, <1>4, <1>5, <2>2, <2>7 DEF WavesTypeOK, Report
  <2> QED
    BY <1>1, <1>7, <2>1, <2>3, <2>5, <2>6, <2>8 DEF WavesInv, Waving, TasksReportedOnce
<1> QED
  BY <1>1, <1>6, <1>7

(* The tasks of both waves, in line.                                       *)
LineFacts(plan0, p, A, B) ==
  /\ Waves(plan0, p, A, B)
  /\ A \in SUBSET Task /\ B \in SUBSET Task
  /\ InOrderOf(A, InOrder(A)) /\ InOrderOf(B, InOrder(B))
  /\ InOrder(B) \in Seq(Task) /\ Len(InOrder(B)) = Cardinality(B)
  /\ LineLength(plan0, p, TRUE) = Cardinality(A)
  /\ LineLength(plan0, p, FALSE) = Cardinality(A) + Cardinality(B)
  /\ \A i \in 1..Cardinality(A) : Lined(plan0, p, i) = InOrder(A)[i]
  /\ \A i \in 1..Cardinality(B) : Lined(plan0, p, Cardinality(A) + i) = InOrder(B)[i]

LEMMA LineOfWaves ==
  ASSUME NEW plan0 \in Seq(Task), \A i, j \in 1..Len(plan0) : plan0[i] = plan0[j] => i = j,
         NEW p \in Policy
  PROVE  LineFacts(plan0, p, WaveA(plan0, p), WaveB(plan0, p))
<1> DEFINE A == WaveA(plan0, p)
           B == WaveB(plan0, p)
<1>1. Waves(plan0, p, A, B)
  BY WavesOfPlan
<1>2. /\ A \in SUBSET Task /\ B \in SUBSET Task /\ IsFiniteSet(A) /\ IsFiniteSet(B)
      /\ Cardinality(A) \in Nat /\ Cardinality(B) \in Nat
  BY <1>1, PlannedOnce DEF Waves
<1>3. /\ InOrderOf(A, InOrder(A)) /\ InOrderOf(B, InOrder(B))
      /\ InOrder(B) \in Seq(Task) /\ Len(InOrder(B)) = Cardinality(B)
  BY <1>2, InOrderIsLine
<1>5. /\ LineLength(plan0, p, TRUE) = Cardinality(A)
      /\ LineLength(plan0, p, FALSE) = Cardinality(A) + Cardinality(B)
  BY DEF LineLength
<1>6. \A i : Lined(plan0, p, i) = IF i <= Cardinality(A) THEN InOrder(A)[i]
                                  ELSE InOrder(B)[i - Cardinality(A)]
  BY DEF Lined
<1> HIDE DEF A, B
<1>7. \A i \in 1..Cardinality(A) : Lined(plan0, p, i) = InOrder(A)[i]
  BY <1>2, <1>6
<1>8. \A i \in 1..Cardinality(B) : Lined(plan0, p, Cardinality(A) + i) = InOrder(B)[i]
  <2> TAKE i \in 1..Cardinality(B)
  <2>1. ~(Cardinality(A) + i <= Cardinality(A)) /\ (Cardinality(A) + i) - Cardinality(A) = i
    BY <1>2
  <2>2. Lined(plan0, p, Cardinality(A) + i)
          = IF Cardinality(A) + i <= Cardinality(A) THEN InOrder(A)[Cardinality(A) + i]
            ELSE InOrder(B)[(Cardinality(A) + i) - Cardinality(A)]
    BY <1>6
  <2> QED
    BY <2>1, <2>2
<1>9. LineFacts(plan0, p, A, B)
  BY <1>1, <1>2, <1>3, <1>5, <1>7, <1>8 DEF LineFacts
<1> QED
  BY <1>9 DEF A, B

LEMMA NotWaiting ==
  /\ "wave B" # "wave A" /\ "wave B" # "waiting" /\ "wave B" # "pool" /\ "wave B" # "done"
  /\ "done" # "waiting" /\ "done" # "pool" /\ "done" # "wave A"
OBVIOUS

LEMMA SecondWave == ASSUME WavesInv, OpenWaveB PROVE WavesInv'
<1> DEFINE A == WaveA(tasks, policy)
           B == WaveB(tasks, policy)
<1>1. /\ waveStage = "wave A" /\ queue = <<>> /\ waveStage' = "wave B" /\ queue' = InOrder(B)
      /\ UNCHANGED <<policy, tasks, spent, answers, reports, counts>>
      /\ Suggested # {}
      /\ WavesTypeOK /\ Waving
  BY DEF OpenWaveB, WavesInv
<1>2. policy \in Policy /\ InLine /\ ReportsFollow
  BY <1>1, Zenon DEF Waving
<1>3. /\ tasks \in Seq(Task) /\ answers \in Seq([task: Task, answer: PoolAnswer])
      /\ \A i, j \in 1..Len(tasks) : tasks[i] = tasks[j] => i = j
  <2>1. \A i, j \in 1..Len(tasks) : tasks[i] = tasks[j] => i = j
    BY Zenon DEF WavesInv
  <2>2. tasks \in Seq(Task) /\ answers \in Seq([task: Task, answer: PoolAnswer])
    BY <1>1, Zenon DEF WavesTypeOK
  <2> QED
    BY <2>1, <2>2
<1>4. /\ Waves(tasks, policy, A, B)
      /\ A \in SUBSET Task /\ B \in SUBSET Task
      /\ InOrder(B) \in Seq(Task) /\ Len(InOrder(B)) = Cardinality(B)
      /\ LineLength(tasks, policy, TRUE) = Cardinality(A)
      /\ LineLength(tasks, policy, FALSE) = Cardinality(A) + Cardinality(B)
      /\ \A i \in 1..Cardinality(B) : Lined(tasks, policy, Cardinality(A) + i) = InOrder(B)[i]
  <2>1. LineFacts(tasks, policy, A, B)
    BY <1>2, <1>3, LineOfWaves
  <2> QED
    BY <2>1 DEF LineFacts
<1>5. Cardinality(A) \in Nat /\ Cardinality(B) \in Nat
  BY <1>4, Zenon DEF Waves
<1> HIDE DEF A, B
<1>6. Len(answers) = Cardinality(A)
  <2>1. Len(answers) + Len(queue) = Cardinality(A)
    BY <1>1, <1>2, <1>4, Zenon DEF InLine, FirstWave
  <2>2. queue = <<>>
    BY <1>1, Zenon
  <2>3. Len(queue) = 0 /\ Len(answers) \in Nat
    BY <1>3, <2>2
  <2> QED
    BY <1>5, <2>1, <2>3
<1>7. InLine'
  <2>1. Len(queue') = Cardinality(B) /\ Len(answers') = Cardinality(A)
    BY <1>1, <1>4, <1>6, Zenon
  <2>2. Len(answers') + Len(queue') = LineLength(tasks', policy', FirstWave')
    <3>1. FirstWave' = FALSE
      BY <1>1, NotWaiting, Zenon DEF FirstWave
    <3> QED
      BY <1>1, <1>4, <2>1, <3>1, Zenon
  <2>3. \A i \in 1..Len(answers') : answers'[i].task = Lined(tasks', policy', i)
    BY <1>1, <1>2, Zenon DEF InLine
  <2>4. \A i \in 1..Len(queue') : queue'[i] = Lined(tasks', policy', Len(answers') + i)
    BY <1>1, <1>4, <2>1, Zenon
  <2> QED
    BY <2>2, <2>3, <2>4, Zenon DEF InLine
<1>8. ReportsFollow'
  <2>1. Tally' = Tally
    BY <1>1, Zenon DEF Tally, Reported
  <2> QED
    BY <1>1, <1>2, <2>1, Zenon DEF ReportsFollow
<1>9. \E i \in 1..Len(answers') : i <= Cardinality(WaveA(tasks', policy'))
                                  /\ answers'[i].answer = "suggestions"
  <2>1. PICK i \in DOMAIN answers : answers[i].answer = "suggestions"
    BY <1>1, Zenon DEF Suggested
  <2>2. \A j \in 1..Len(answers) : j <= Cardinality(A)
    BY <1>5, <1>6
  <2>3. DOMAIN answers = 1..Len(answers)
    BY <1>3
  <2> QED
    BY <1>1, <2>1, <2>2, <2>3, Zenon DEF A
<1>10. WavesTypeOK'
  <2>1. waveStage' \in WaveStage
    BY <1>1, Zenon DEF WaveStage
  <2>2. queue' \in Seq(Task)
    BY <1>1, <1>4, Zenon
  <2>3. {tasks', queue'} \subseteq Seq(Task)
    BY <1>1, <1>3, <2>2, Zenon
  <2> QED
    BY <1>1, <2>1, <2>3, Zenon DEF WavesTypeOK
<1>11. Waving'
  BY <1>1, <1>2, <1>7, <1>8, <1>9, Zenon DEF Waving
<1>12. TasksReportedOnce'
  BY <1>1, NotWaiting, Zenon DEF TasksReportedOnce
<1>13. \A i, j \in 1..Len(tasks') : tasks'[i] = tasks'[j] => i = j
  BY <1>1, <1>3, Zenon
<1> QED
  BY <1>1, <1>10, <1>11, <1>12, <1>13, NotWaiting, Zenon DEF WavesInv

(* The tasks that a list of reports is about.                              *)
About(list) == {list[i].task : i \in 1..Len(list)}

LEMMA AllReported ==
  ASSUME NEW S \in SUBSET Task, IsFiniteSet(S), NEW o \in Outcome
  PROVE  /\ ReportAll(S, o) \in Seq(Report) /\ Len(ReportAll(S, o)) = Cardinality(S)
         /\ Cardinality(S) \in Nat
         /\ \A i \in 1..Cardinality(S) : ReportAll(S, o)[i].outcome = o
         /\ About(ReportAll(S, o)) = S
<1> DEFINE q == InOrder(S)
           n == Cardinality(S)
           r == ReportAll(S, o)
<1>1. /\ InOrderOf(S, q) /\ n \in Nat /\ \A i \in 1..n : q[i] \in S
  BY InOrderIsLine
<1>2. r = [i \in 1..n |-> [task |-> q[i], outcome |-> o]]
  BY DEF ReportAll
<1>3. \A x \in S : \E i \in 1..n : x = q[i]
  BY <1>1 DEF InOrderOf
<1> HIDE DEF q, n, r
<1>4. \A i \in 1..n : [task |-> q[i], outcome |-> o] \in Report
  BY <1>1 DEF Report
<1>5. r \in [1..n -> Report]
  BY <1>2, <1>4
<1>6. r \in Seq(Report) /\ Len(r) = n
  BY <1>1, <1>5
<1>7. \A i \in 1..n : r[i].outcome = o /\ r[i].task = q[i]
  BY <1>2
<1>8. About(r) = S
  BY <1>1, <1>3, <1>6, <1>7 DEF About
<1> QED
  BY <1>1, <1>6, <1>7, <1>8 DEF r, n

LEMMA ReportsJoined ==
  ASSUME NEW r \in Seq(Report), NEW s \in Seq(Report)
  PROVE  /\ r \o s \in Seq(Report) /\ Len(r \o s) = Len(r) + Len(s)
         /\ \A i \in 1..Len(r) : (r \o s)[i] = r[i]
         /\ \A i \in 1..Len(s) : (r \o s)[Len(r) + i] = s[i]
         /\ \A i \in (Len(r) + 1)..(Len(r) + Len(s)) :
              i - Len(r) \in 1..Len(s) /\ (r \o s)[i] = s[i - Len(r)]
         /\ About(r \o s) = About(r) \cup About(s)
<1> DEFINE j == r \o s
<1>1. Len(r) \in Nat /\ Len(s) \in Nat
  OBVIOUS
<1>2. /\ j \in Seq(Report) /\ Len(j) = Len(r) + Len(s)
      /\ \A i \in 1..(Len(r) + Len(s)) : j[i] = IF i <= Len(r) THEN r[i] ELSE s[i - Len(r)]
  BY ConcatProperties
<1> HIDE DEF j
<1>3. \A i \in 1..Len(r) : i \in 1..Len(j) /\ j[i] = r[i]
  BY <1>1, <1>2
<1>4. \A i \in (Len(r) + 1)..(Len(r) + Len(s)) : i - Len(r) \in 1..Len(s) /\ j[i] = s[i - Len(r)]
  BY <1>1, <1>2
<1>5. \A i \in 1..Len(s) : Len(r) + i \in 1..Len(j) /\ j[Len(r) + i] = s[i]
  <2> TAKE i \in 1..Len(s)
  <2>1. /\ Len(r) + i \in 1..(Len(r) + Len(s)) /\ ~(Len(r) + i <= Len(r))
        /\ (Len(r) + i) - Len(r) = i
    BY <1>1
  <2>2. j[Len(r) + i] = IF Len(r) + i <= Len(r) THEN r[Len(r) + i] ELSE s[(Len(r) + i) - Len(r)]
    BY <1>2, <2>1
  <2> QED
    BY <1>2, <2>1, <2>2
<1>6. About(j) = About(r) \cup About(s)
  <2>1. \A i \in 1..Len(j) : i \in 1..Len(r) \/ i \in (Len(r) + 1)..(Len(r) + Len(s))
    BY <1>1, <1>2
  <2>2. \A i \in 1..Len(j) : j[i].task \in About(r) \cup About(s)
    BY <1>3, <1>4, <2>1 DEF About
  <2>3. About(j) \subseteq About(r) \cup About(s)
    BY <2>2 DEF About
  <2>4. About(r) \subseteq About(j) /\ About(s) \subseteq About(j)
    BY <1>3, <1>5 DEF About
  <2> QED
    BY <2>3, <2>4
<1> QED
  BY <1>2, <1>3, <1>4, <1>5, <1>6 DEF j

Extended(r, out, n, outcomes) ==
  /\ out \in Seq(Report)
  /\ Len(out) = Len(r) + n
  /\ \A i \in 1..Len(r) : out[i] = r[i]
  /\ \A i \in (Len(r) + 1)..(Len(r) + n) : out[i].outcome \in outcomes

(* What the reports r become once S and T are reported as well.            *)
AllTold(r, S, T, o1, o2) == r \o ReportAll(S, o1) \o ReportAll(T, o2)

EndsWell(r, S, T, o1, o2) ==
  /\ Cardinality(S) \in Nat /\ Cardinality(T) \in Nat
  /\ Extended(r, AllTold(r, S, T, o1, o2), Cardinality(S) + Cardinality(T), {o1, o2})
  /\ About(AllTold(r, S, T, o1, o2)) = About(r) \cup S \cup T

LEMMA EndReports ==
  ASSUME NEW r \in Seq(Report), NEW S \in SUBSET Task, IsFiniteSet(S),
         NEW T \in SUBSET Task, IsFiniteSet(T), NEW o1 \in Outcome, NEW o2 \in Outcome
  PROVE  EndsWell(r, S, T, o1, o2)
<1> DEFINE out == AllTold(r, S, T, o1, o2)
<1> DEFINE s == ReportAll(S, o1)
           t == ReportAll(T, o2)
           b == Cardinality(S)
           c == Cardinality(T)
<1>1. /\ s \in Seq(Report) /\ Len(s) = b /\ b \in Nat /\ \A i \in 1..b : s[i].outcome = o1
      /\ About(s) = S
  BY AllReported
<1>2. /\ t \in Seq(Report) /\ Len(t) = c /\ c \in Nat /\ \A i \in 1..c : t[i].outcome = o2
      /\ About(t) = T
  BY AllReported
<1>3. out = (r \o s) \o t
  BY DEF AllTold
<1> HIDE DEF s, t, b, c, out
<1> DEFINE rs == r \o s
<1>4. /\ rs \in Seq(Report) /\ Len(rs) = Len(r) + b /\ About(rs) = About(r) \cup S
      /\ \A i \in 1..Len(r) : rs[i] = r[i]
      /\ \A i \in (Len(r) + 1)..(Len(r) + b) : i - Len(r) \in 1..b /\ rs[i] = s[i - Len(r)]
  BY <1>1, ReportsJoined
<1> HIDE DEF rs
<1>5. /\ out \in Seq(Report) /\ Len(out) = Len(rs) + c /\ About(out) = About(rs) \cup T
      /\ \A i \in 1..Len(rs) : out[i] = rs[i]
      /\ \A i \in (Len(rs) + 1)..(Len(rs) + c) : i - Len(rs) \in 1..c /\ out[i] = t[i - Len(rs)]
  <2>1. out = rs \o t
    BY <1>3 DEF rs
  <2>2. /\ rs \o t \in Seq(Report) /\ Len(rs \o t) = Len(rs) + Len(t)
        /\ \A i \in 1..Len(rs) : (rs \o t)[i] = rs[i]
        /\ \A i \in (Len(rs) + 1)..(Len(rs) + Len(t)) :
             i - Len(rs) \in 1..Len(t) /\ (rs \o t)[i] = t[i - Len(rs)]
        /\ About(rs \o t) = About(rs) \cup About(t)
    BY <1>2, <1>4, ReportsJoined
  <2>3. Len(t) = c /\ About(t) = T
    BY <1>2
  <2> QED
    BY <2>1, <2>2, <2>3, Zenon
<1>6. Len(r) \in Nat
  OBVIOUS
<1>7. Len(out) = Len(r) + (b + c)
  BY <1>1, <1>2, <1>4, <1>5, <1>6
<1>8. \A i \in 1..Len(r) : out[i] = r[i]
  BY <1>1, <1>4, <1>5, <1>6
<1>9. \A i \in (Len(r) + 1)..(Len(r) + (b + c)) : out[i].outcome \in {o1, o2}
  <2> TAKE i \in (Len(r) + 1)..(Len(r) + (b + c))
  <2>1. CASE i \in (Len(r) + 1)..(Len(r) + b)
    <3>1. i \in 1..Len(rs) /\ rs[i].outcome = o1
      BY <1>1, <1>4, <1>6, <2>1
    <3> QED
      BY <1>5, <3>1
  <2>2. CASE i \in (Len(rs) + 1)..(Len(rs) + c)
    BY <1>2, <1>5, <2>2
  <2>3. i \in (Len(r) + 1)..(Len(r) + b) \/ i \in (Len(rs) + 1)..(Len(rs) + c)
    BY <1>1, <1>2, <1>4, <1>6
  <2> QED
    BY <2>1, <2>2, <2>3
<1>10. Extended(r, out, b + c, {o1, o2}) /\ About(out) = About(r) \cup S \cup T
  BY <1>4, <1>5, <1>7, <1>8, <1>9 DEF Extended
<1> QED
  BY <1>1, <1>2, <1>10 DEF b, c, out, EndsWell

Waved == waveStage \in {"wave A", "wave B"}

(* A wave that is over has run the whole line.                             *)
LEMMA RanTheLine ==
  ASSUME WavesInv, Waved, queue = <<>>, NEW A, NEW B, A = WaveA(tasks, policy), B = WaveB(tasks, policy)
  PROVE  /\ tasks \in Seq(Task) /\ policy \in Policy
         /\ Waves(tasks, policy, A, B)
         /\ \A i, j \in 1..Len(tasks) : tasks[i] = tasks[j] => i = j
         /\ Len(answers) = Cardinality(A) + (IF FirstWave THEN 0 ELSE Cardinality(B))
         /\ Ran = A \cup (IF FirstWave THEN {} ELSE B)
         /\ \A i \in 1..Len(answers) : i <= Cardinality(A) => answers[i].task \in A
<1>1. policy \in Policy /\ InLine
  BY Zenon DEF WavesInv, Waved, Waving
<1>2. /\ tasks \in Seq(Task) /\ answers \in Seq([task: Task, answer: PoolAnswer])
      /\ \A i, j \in 1..Len(tasks) : tasks[i] = tasks[j] => i = j
  <2>1. \A i, j \in 1..Len(tasks) : tasks[i] = tasks[j] => i = j
    BY Zenon DEF WavesInv
  <2>2. tasks \in Seq(Task) /\ answers \in Seq([task: Task, answer: PoolAnswer])
    <3>1. WavesTypeOK
      BY DEF WavesInv
    <3> QED
      BY <3>1, Zenon DEF WavesTypeOK
  <2> QED
    BY <2>1, <2>2
<1>3. LineFacts(tasks, policy, A, B)
  BY <1>1, <1>2, LineOfWaves
<1> DEFINE a == Cardinality(A)
           b == Cardinality(B)
           n == Len(answers)
<1>4. Waves(tasks, policy, A, B) /\ a \in Nat /\ b \in Nat
  BY <1>3, Zenon DEF LineFacts, Waves
<1>5. n \in Nat /\ DOMAIN answers = 1..n
  BY <1>2
<1>6. /\ n + Len(queue) = LineLength(tasks, policy, FirstWave)
      /\ \A i \in 1..n : answers[i].task = Lined(tasks, policy, i)
  BY <1>1 DEF InLine
<1>7. n = a + (IF FirstWave THEN 0 ELSE b)
  <2>1. FirstWave \in BOOLEAN
    BY DEF FirstWave
  <2>2. Len(queue) = 0
    OBVIOUS
  <2>3. LineLength(tasks, policy, TRUE) = a /\ LineLength(tasks, policy, FALSE) = a + b
    BY <1>3 DEF LineFacts
  <2> HIDE DEF a, b, n
  <2>4. CASE FirstWave = TRUE
    <3>1. n + 0 = a
      BY <1>6, <2>2, <2>3, <2>4, Zenon
    <3>2. n = a + 0
      BY <1>4, <1>5, <3>1
    <3> QED
      BY <2>4, <3>2, Zenon
  <2>5. CASE FirstWave = FALSE
    <3>1. n + 0 = a + b
      BY <1>6, <2>2, <2>3, <2>5, Zenon
    <3>2. n = a + b
      BY <1>4, <1>5, <3>1
    <3> QED
      BY <2>5, <3>2, Zenon
  <2> QED
    BY <2>1, <2>4, <2>5
<1>8. /\ \A i \in 1..a : Lined(tasks, policy, i) = InOrder(A)[i]
      /\ \A i \in 1..b : Lined(tasks, policy, a + i) = InOrder(B)[i]
      /\ InOrderOf(A, InOrder(A)) /\ InOrderOf(B, InOrder(B))
  BY <1>3 DEF LineFacts
<1>9. /\ \A i \in 1..a : InOrder(A)[i] \in A
      /\ \A x \in A : \E i \in 1..a : x = InOrder(A)[i]
  BY <1>8 DEF InOrderOf
<1>10. /\ \A i \in 1..b : InOrder(B)[i] \in B
       /\ \A x \in B : \E i \in 1..b : x = InOrder(B)[i]
  BY <1>8 DEF InOrderOf
<1>11. Ran = {answers[i].task : i \in 1..n}
  BY <1>5 DEF Ran
<1> HIDE DEF a, b, n
<1>12. \A i \in 1..n : i <= a => answers[i].task \in A
  BY <1>4, <1>5, <1>6, <1>8, <1>9
<1>13. \A x \in A : x \in Ran
  <2> TAKE x \in A
  <2>1. PICK i \in 1..a : x = InOrder(A)[i]
    BY <1>9
  <2>2. i \in 1..n
    BY <1>4, <1>5, <1>7, <2>1
  <2>3. answers[i].task = x
    BY <1>6, <1>8, <2>1, <2>2
  <2> QED
    BY <1>11, <2>2, <2>3
<1>14. CASE FirstWave
  <2>1. \A i \in 1..n : i <= a
    BY <1>4, <1>7, <1>14
  <2>2. Ran \subseteq A
    BY <1>11, <1>12, <2>1
  <2>3. Ran = A \cup {}
    BY <1>13, <2>2
  <2> QED
    BY <1>1, <1>2, <1>4, <1>7, <1>12, <1>14, <2>3 DEF a, b, n
<1>15. CASE ~FirstWave
  <2>1. \A i \in 1..n : i <= a \/ (i - a \in 1..b /\ a + (i - a) = i)
    BY <1>4, <1>7, <1>15
  <2>2. \A i \in 1..n : answers[i].task \in A \cup B
    <3> TAKE i \in 1..n
    <3>1. CASE i <= a
      BY <1>12, <3>1
    <3>2. CASE i - a \in 1..b /\ a + (i - a) = i
      <4>1. Lined(tasks, policy, a + (i - a)) = InOrder(B)[i - a] /\ InOrder(B)[i - a] \in B
        BY <1>8, <1>10, <3>2
      <4>2. answers[i].task \in B
        BY <1>6, <3>2, <4>1
      <4> QED
        BY <4>2
    <3> QED
      BY <2>1, <3>1, <3>2
  <2>3. \A x \in B : x \in Ran
    <3> TAKE x \in B
    <3>1. PICK i \in 1..b : x = InOrder(B)[i]
      BY <1>10
    <3>2. a + i \in 1..n
      BY <1>4, <1>5, <1>7, <1>15, <3>1
    <3>3. answers[a + i].task = x
      BY <1>6, <1>8, <3>1, <3>2
    <3> QED
      BY <1>11, <3>2, <3>3
  <2>4. Ran = A \cup B
    BY <1>11, <1>13, <2>2, <2>3
  <2> QED
    BY <1>1, <1>2, <1>4, <1>7, <1>12, <1>15, <2>4 DEF a, b, n
<1> QED
  BY <1>14, <1>15

(* The plan of two waves is the two waves and what was put aside.          *)
AddUp(plan0, A, B, aside) ==
  /\ aside \in SUBSET Task /\ A \in SUBSET Task /\ B \in SUBSET Task
  /\ IsFiniteSet(aside) /\ IsFiniteSet(A) /\ IsFiniteSet(B)
  /\ Cardinality(A) \in Nat /\ Cardinality(B) \in Nat /\ Cardinality(aside) \in Nat
  /\ Cardinality(A \cup B) = Cardinality(A) + Cardinality(B)
  /\ Cardinality(A) + Cardinality(B) + Cardinality(aside) = Len(plan0)
  /\ A \cup B \cup aside = ToSet(plan0)

LEMMA WavesAddUp ==
  ASSUME NEW plan0 \in Seq(Task), \A i, j \in 1..Len(plan0) : plan0[i] = plan0[j] => i = j,
         NEW p, NEW A, NEW B, Waves(plan0, p, A, B)
  PROVE  AddUp(plan0, A, B, ToSet(plan0) \ (A \cup B))
<1> DEFINE aside == ToSet(plan0) \ (A \cup B)
<1>1. /\ ToSet(plan0) \subseteq Task /\ IsFiniteSet(ToSet(plan0))
      /\ Cardinality(ToSet(plan0)) = Len(plan0) /\ Len(plan0) \in Nat
  BY PlannedOnce
<1>2. /\ A \subseteq ToSet(plan0) /\ B \subseteq ToSet(plan0) /\ A \cap B = {}
      /\ IsFiniteSet(A) /\ IsFiniteSet(B)
      /\ Cardinality(A) \in Nat /\ Cardinality(B) \in Nat
  BY Zenon DEF Waves
<1>3. IsFiniteSet(A \cup B) /\ Cardinality(A \cup B) = Cardinality(A) + Cardinality(B)
  <2>1. /\ IsFiniteSet(A \cup B)
        /\ Cardinality(A \cup B) = Cardinality(A) + Cardinality(B) - Cardinality(A \cap B)
    BY <1>2, FS_Union
  <2>2. Cardinality(A \cap B) = 0
    BY <1>2, FS_EmptySet
  <2> QED
    BY <1>2, <2>1, <2>2
<1>4. /\ IsFiniteSet(aside)
      /\ Cardinality(aside) = Cardinality(ToSet(plan0)) - Cardinality(ToSet(plan0) \cap (A \cup B))
  BY <1>1, FS_Difference
<1>5. ToSet(plan0) \cap (A \cup B) = A \cup B
  BY <1>2
<1>6. Cardinality(aside) \in Nat
  BY <1>4, FS_CardinalityType
<1>7. Cardinality(aside) = Len(plan0) - (Cardinality(A) + Cardinality(B))
  BY <1>1, <1>3, <1>4, <1>5
<1>8. Cardinality(A) + Cardinality(B) + Cardinality(aside) = Len(plan0)
  BY <1>1, <1>2, <1>6, <1>7
<1>9. A \cup B \cup aside = ToSet(plan0)
  BY <1>2
<1> QED
  BY <1>1, <1>2, <1>3, <1>4, <1>6, <1>8, <1>9 DEF AddUp

Skips == {"skipped for budget", "skipped by policy"}

LEMMA SkipsAre ==
  /\ "skipped for budget" \in Outcome /\ "skipped by policy" \in Outcome
  /\ "skipped for budget" \in Skips /\ "skipped by policy" \in Skips
  /\ \A o \in Skips : o \notin {"degraded"} /\ o \notin {"timeout"} /\ o \notin {"failed"}
BY DEF Outcome, Skips

LEMMA WavesEndTyped ==
  ASSUME WavesInv, EndWaves
  PROVE  /\ Waved /\ queue = <<>> /\ WavesTypeOK /\ ReportsFollow
         /\ reports \in Seq(Report) /\ answers \in Seq([task: Task, answer: PoolAnswer])
         /\ reports' = reports \o ReportAll(IF FirstWave THEN WaveB(tasks, policy) ELSE {},
                                            "skipped by policy")
                               \o ReportAll(SetAside(tasks, policy), "skipped for budget")
         /\ counts' = [counts EXCEPT !.skipped =
              @ + Cardinality(IF FirstWave THEN WaveB(tasks, policy) ELSE {})
                + Cardinality(SetAside(tasks, policy))]
         /\ waveStage' = "done"
         /\ UNCHANGED <<policy, tasks, queue, spent, answers>>
<1>1. WavesTypeOK
  BY DEF WavesInv
<1>2. Waved /\ queue = <<>>
  BY Zenon DEF EndWaves, Waved
<1>3. ReportsFollow
  BY <1>2, Zenon DEF WavesInv, Waved, Waving
<1>4. reports \in Seq(Report) /\ answers \in Seq([task: Task, answer: PoolAnswer])
  BY <1>1, Zenon DEF WavesTypeOK, Report
<1> QED
  BY <1>1, <1>2, <1>3, <1>4, Zenon DEF EndWaves, FirstWave

(* The counters after the last reports.                                    *)
LEMMA CountsAtEnd ==
  ASSUME reports \in Seq(Report), reports' \in Seq(Report), NEW n \in Nat,
         Len(reports') = Len(reports) + n,
         \A i \in 1..Len(reports) : reports'[i] = reports[i],
         \A i \in (Len(reports) + 1)..(Len(reports) + n) : reports'[i].outcome \in Skips
  PROVE  /\ Cardinality(Reported(Skips)) \in Nat
         /\ Cardinality(Reported(Skips)') = Cardinality(Reported(Skips)) + n
         /\ \A outcomes \in {{"degraded"}, {"timeout"}, {"failed"}} :
              Cardinality(Reported(outcomes)') = Cardinality(Reported(outcomes))
<1>1. ASSUME NEW outcomes PROVE Reported(outcomes) = Places(reports, outcomes)
  <2>1. DOMAIN reports = 1..Len(reports)
    OBVIOUS
  <2> QED
    BY <2>1 DEF Reported, Places
<1>2. ASSUME NEW outcomes PROVE Reported(outcomes)' = Places(reports', outcomes)
  <2>1. DOMAIN reports' = 1..Len(reports')
    OBVIOUS
  <2> QED
    BY <2>1 DEF Reported, Places
<1>3. /\ Cardinality(Places(reports, Skips)) \in Nat
      /\ Cardinality(Places(reports', Skips)) = Cardinality(Places(reports, Skips)) + n
  BY LongerList, SMTT(30)
<1>4. ASSUME NEW outcomes, \A o \in Skips : o \notin outcomes
      PROVE  Cardinality(Places(reports', outcomes)) = Cardinality(Places(reports, outcomes))
  <2>1. \A i \in (Len(reports) + 1)..(Len(reports) + n) : reports'[i].outcome \notin outcomes
    BY <1>4
  <2>2. Places(reports', outcomes) = Places(reports, outcomes)
    BY <2>1, LongerWithout
  <2> QED
    BY <2>2
<1>5. Cardinality(Reported(Skips)) \in Nat
      /\ Cardinality(Reported(Skips)') = Cardinality(Reported(Skips)) + n
  <2>1. Reported(Skips) = Places(reports, Skips)
    BY <1>1
  <2>2. Reported(Skips)' = Places(reports', Skips)
    BY <1>2
  <2> QED
    BY <1>3, <2>1, <2>2
<1>6. ASSUME NEW outcomes \in {{"degraded"}, {"timeout"}, {"failed"}}
      PROVE  Cardinality(Reported(outcomes)') = Cardinality(Reported(outcomes))
  <2>1. \A o \in Skips : o \notin outcomes
    BY SkipsAre, Zenon
  <2>2. Cardinality(Places(reports', outcomes)) = Cardinality(Places(reports, outcomes))
    BY <1>4, <2>1
  <2> QED
    BY <1>1, <1>2, <2>2, Zenon
<1> QED
  BY <1>5, <1>6

LEMMA WavesEnd == ASSUME WavesInv, EndWaves PROVE WavesInv'
<1> DEFINE A == WaveA(tasks, policy)
           B == WaveB(tasks, policy)
           barred == IF FirstWave THEN B ELSE {}
           aside == SetAside(tasks, policy)
           b == Cardinality(barred)
           c == Cardinality(aside)
<1>1. /\ Waved /\ queue = <<>> /\ WavesTypeOK /\ ReportsFollow
      /\ reports \in Seq(Report) /\ answers \in Seq([task: Task, answer: PoolAnswer])
      /\ reports' = reports \o ReportAll(barred, "skipped by policy")
                            \o ReportAll(aside, "skipped for budget")
      /\ counts' = [counts EXCEPT !.skipped = @ + b + c]
      /\ waveStage' = "done"
      /\ UNCHANGED <<policy, tasks, queue, spent, answers>>
  BY WavesEndTyped
<1>2. /\ tasks \in Seq(Task) /\ policy \in Policy /\ Waves(tasks, policy, A, B)
      /\ \A i, j \in 1..Len(tasks) : tasks[i] = tasks[j] => i = j
      /\ Len(answers) = Cardinality(A) + (IF FirstWave THEN 0 ELSE Cardinality(B))
      /\ Ran = A \cup (IF FirstWave THEN {} ELSE B)
      /\ \A i \in 1..Len(answers) : i <= Cardinality(A) => answers[i].task \in A
  BY <1>1, RanTheLine
<1>3. aside = ToSet(tasks) \ (A \cup B)
  BY DEF SetAside
<1> HIDE DEF A, B, barred, aside, b, c
<1>4. /\ aside \in SUBSET Task /\ A \in SUBSET Task /\ B \in SUBSET Task
      /\ IsFiniteSet(aside) /\ IsFiniteSet(A) /\ IsFiniteSet(B)
      /\ Cardinality(A) \in Nat /\ Cardinality(B) \in Nat /\ Cardinality(aside) \in Nat
      /\ Cardinality(A \cup B) = Cardinality(A) + Cardinality(B)
      /\ Cardinality(A) + Cardinality(B) + Cardinality(aside) = Len(tasks)
      /\ A \cup B \cup aside = ToSet(tasks)
  <2>1. AddUp(tasks, A, B, ToSet(tasks) \ (A \cup B))
    BY <1>2, WavesAddUp
  <2> QED
    BY <1>3, <2>1 DEF AddUp
<1>5. FirstWave \in BOOLEAN
  BY DEF FirstWave
<1>6. /\ barred \in SUBSET Task /\ IsFiniteSet(barred) /\ b \in Nat
      /\ Len(answers) + b = Cardinality(A) + Cardinality(B)
      /\ Ran \cup barred = A \cup B
      /\ Cardinality(Ran) = Len(answers)
      /\ Len(answers) \in Nat
  <2>1. CASE FirstWave = TRUE
    <3>1. /\ barred = B /\ Len(answers) = Cardinality(A) + 0 /\ Ran = A \cup {}
      BY <1>2, <2>1, Zenon DEF barred
    <3>2. Len(answers) = Cardinality(A) /\ Ran = A /\ b = Cardinality(B)
      BY <1>4, <3>1 DEF b
    <3> QED
      BY <1>4, <3>1, <3>2
  <2>2. CASE FirstWave = FALSE
    <3>1. /\ barred = {} /\ Len(answers) = Cardinality(A) + Cardinality(B) /\ Ran = A \cup B
      BY <1>2, <2>2, Zenon DEF barred
    <3>2. b = 0 /\ IsFiniteSet({})
      BY <3>1, FS_EmptySet DEF b
    <3> QED
      BY <1>4, <3>1, <3>2
  <2> QED
    BY <1>5, <2>1, <2>2
<1>7. /\ reports' \in Seq(Report) /\ c \in Nat
      /\ Len(reports') = Len(reports) + (b + c)
      /\ \A i \in 1..Len(reports) : reports'[i] = reports[i]
      /\ \A i \in (Len(reports) + 1)..(Len(reports) + (b + c)) : reports'[i].outcome \in Skips
      /\ About(reports') = About(reports) \cup barred \cup aside
  <2>1. PICK o1 \in Outcome, o2 \in Outcome :
          /\ reports' = reports \o ReportAll(barred, o1) \o ReportAll(aside, o2)
          /\ o1 \in Skips /\ o2 \in Skips
    BY <1>1, SkipsAre, Zenon
  <2>2. /\ reports' \in Seq(Report)
        /\ Len(reports') = Len(reports) + (b + c)
        /\ \A i \in 1..Len(reports) : reports'[i] = reports[i]
        /\ \A i \in (Len(reports) + 1)..(Len(reports) + (b + c)) : reports'[i].outcome \in {o1, o2}
        /\ About(reports') = About(reports) \cup barred \cup aside
    <3>1. reports \in Seq(Report)
      BY <1>1, Zenon
    <3>2. EndsWell(reports, barred, aside, o1, o2)
      <4>1. /\ barred \in SUBSET Task /\ IsFiniteSet(barred)
            /\ aside \in SUBSET Task /\ IsFiniteSet(aside)
        BY <1>4, <1>6, Zenon
      <4>2. o1 \in Outcome /\ o2 \in Outcome
        BY <2>1, Zenon
      <4> QED
        BY <3>1, <4>1, <4>2, EndReports
    <3>3. /\ Extended(reports, reports', b + c, {o1, o2})
          /\ About(reports') = About(reports) \cup barred \cup aside
      BY <2>1, <3>2, Zenon DEF b, c, EndsWell, AllTold
    <3> QED
      BY <3>3 DEF Extended
  <2> QED
    BY <1>4, <2>1, <2>2 DEF c
<1>8. Len(reports) = Len(answers) /\ About(reports) = Ran
  <2>1. Len(reports) = Len(answers)
    BY <1>1, Zenon DEF ReportsFollow
  <2>2. \A i \in 1..Len(answers) : reports[i].task = answers[i].task
    <3>1. \A i \in 1..Len(answers) :
            reports[i] = [task |-> answers[i].task, outcome |-> OutcomeOf(answers[i].answer)]
      BY <1>1, Zenon DEF ReportsFollow
    <3>2. \A i \in 1..Len(answers) :
            [task |-> answers[i].task, outcome |-> OutcomeOf(answers[i].answer)].task
              = answers[i].task
      OBVIOUS
    <3>3. ASSUME NEW i \in 1..Len(answers) PROVE reports[i].task = answers[i].task
      <4>1. reports[i] = [task |-> answers[i].task, outcome |-> OutcomeOf(answers[i].answer)]
        BY <3>1, <3>3, Zenon
      <4> QED
        BY <4>1
    <3> QED
      BY <3>3
  <2>3. answers \in Seq([task: Task, answer: PoolAnswer])
    BY <1>1, Zenon
  <2>4. DOMAIN answers = 1..Len(answers)
    BY <2>3
  <2> QED
    BY <2>1, <2>2, <2>4 DEF About, Ran
<1>9. Len(reports') = Len(tasks)
  BY <1>4, <1>6, <1>7, <1>8 DEF c
<1>10. {reports'[i].task : i \in DOMAIN reports'} = ToSet(tasks)
  <2>1. About(reports') = ToSet(tasks)
    BY <1>4, <1>6, <1>7, <1>8
  <2>2. DOMAIN reports' = 1..Len(reports')
    BY <1>7
  <2> QED
    BY <2>1, <2>2 DEF About
<1>11. Ran' = Ran /\ Suggested' = Suggested
  BY <1>1, Zenon DEF Ran, Suggested
<1>12. /\ counts' \in [DOMAIN NoCounts -> Nat]
       /\ counts' = [executed |-> Cardinality(Ran'),
                     degraded |-> Cardinality(Reported({"degraded"})'),
                     timeout  |-> Cardinality(Reported({"timeout"})'),
                     skipped  |-> Cardinality(Reported({"skipped for budget", "skipped by policy"})'),
                     failed   |-> Cardinality(Reported({"failed"})')]
  <2> DEFINE e == Len(answers)
             d == Cardinality(Reported({"degraded"}))
             t == Cardinality(Reported({"timeout"}))
             k == Cardinality(Reported(Skips))
             g == Cardinality(Reported({"failed"}))
  <2>1. counts = [executed |-> e, degraded |-> d, timeout |-> t, skipped |-> k, failed |-> g]
    <3>1. counts = Tally
      BY <1>1, Zenon DEF ReportsFollow
    <3> QED
      BY <3>1, Zenon DEF Tally, Skips
  <2>2. /\ Cardinality(Reported(Skips)') = k + (b + c) /\ k \in Nat
        /\ Cardinality(Reported({"degraded"})') = d
        /\ Cardinality(Reported({"timeout"})') = t
        /\ Cardinality(Reported({"failed"})') = g
    <3>1. reports \in Seq(Report) /\ b + c \in Nat
      <4>1. reports \in Seq(Report)
        BY <1>1, Zenon
      <4> QED
        BY <1>6, <1>7, <4>1
    <3>2. /\ Cardinality(Reported(Skips)) \in Nat
          /\ Cardinality(Reported(Skips)') = Cardinality(Reported(Skips)) + (b + c)
          /\ \A outcomes \in {{"degraded"}, {"timeout"}, {"failed"}} :
               Cardinality(Reported(outcomes)') = Cardinality(Reported(outcomes))
      BY <1>7, <3>1, CountsAtEnd
    <3>3. /\ {"degraded"} \in {{"degraded"}, {"timeout"}, {"failed"}}
          /\ {"timeout"} \in {{"degraded"}, {"timeout"}, {"failed"}}
          /\ {"failed"} \in {{"degraded"}, {"timeout"}, {"failed"}}
      OBVIOUS
    <3> QED
      BY <3>2, <3>3, Zenon
  <2>3. counts \in [DOMAIN NoCounts -> Nat]
    BY <1>1, Zenon DEF WavesTypeOK
  <2>4. counts' = [counts EXCEPT !.skipped = @ + b + c]
    BY <1>1, Zenon
  <2> HIDE DEF e, d, t, k, g
  <2>5. counts' = [executed |-> e, degraded |-> d, timeout |-> t, skipped |-> k + b + c, failed |-> g]
    BY <2>1, <2>4
  <2>6. k + b + c = k + (b + c) /\ k + b + c \in Nat
    BY <1>6, <1>7, <2>2
  <2>7. e = Cardinality(Ran')
    BY <1>6, <1>11, Zenon DEF e
  <2>8. counts' \in [DOMAIN NoCounts -> Nat]
    BY <2>3, <2>4, <2>1, <2>6 DEF NoCounts
  <2> QED
    BY <2>2, <2>5, <2>6, <2>7, <2>8, Zenon DEF Skips
<1>13. counts'.executed <= policy.perTurn
  <2>1. counts'.executed = Len(answers)
    <3>1. counts'.executed = Cardinality(Ran')
      <4> DEFINE e == Cardinality(Ran')
                 d == Cardinality(Reported({"degraded"})')
                 t == Cardinality(Reported({"timeout"})')
                 k == Cardinality(Reported({"skipped for budget", "skipped by policy"})')
                 g == Cardinality(Reported({"failed"})')
      <4>1. counts' = [executed |-> e, degraded |-> d, timeout |-> t, skipped |-> k, failed |-> g]
        BY <1>12
      <4> HIDE DEF e, d, t, k, g
      <4>2. counts'.executed = e
        BY <4>1
      <4> QED
        BY <4>2 DEF e
    <3> QED
      BY <1>6, <1>11, <3>1, Zenon
  <2>2. Cardinality(A) + Cardinality(B) <= policy.perTurn /\ policy.perTurn \in Nat
    BY <1>2, WavesAssumption DEF Waves
  <2> QED
    BY <1>4, <1>6, <2>1, <2>2
<1>14. \A t \in Ran, u \in ToSet(tasks) \ Ran : Kind[t] = Kind[u] => t < u
  <2> TAKE t \in Ran, u \in ToSet(tasks) \ Ran
  <2>1. /\ \A x \in A : Kind[x] = "A"
        /\ \A x \in B : Kind[x] = "B"
        /\ \A x \in A, y \in ToSet(tasks) \ A : Kind[y] = "A" => x < y
        /\ \A x \in B, y \in ToSet(tasks) \ B : Kind[y] = "B" => x < y
    BY <1>2, Zenon DEF Waves
  <2>2. CASE t \in A
    <3>1. u \in ToSet(tasks) \ A
      BY <1>2
    <3> QED
      BY <2>1, <2>2, <3>1
  <2>3. CASE t \in B /\ ~FirstWave
    <3>1. u \in ToSet(tasks) \ B
      BY <1>2, <2>3
    <3> QED
      BY <2>1, <2>3, <3>1
  <2> QED
    BY <1>2, <2>2, <2>3
<1>15. (\E t \in Ran : Kind[t] = "B") => \E t \in Suggested : Kind[t] = "A"
  <2> SUFFICES ASSUME NEW t \in Ran, Kind[t] = "B" PROVE \E x \in Suggested : Kind[x] = "A"
    OBVIOUS
  <2>1. /\ \A x \in A : Kind[x] = "A"
    BY <1>2, Zenon DEF Waves
  <2>2. ~FirstWave
    BY <1>2, <2>1
  <2>3. \E i \in 1..Len(answers) : i <= Cardinality(A) /\ answers[i].answer = "suggestions"
    BY <1>1, <2>2, Zenon DEF WavesInv, Waving, Waved, FirstWave, A
  <2>4. PICK i \in 1..Len(answers) : i <= Cardinality(A) /\ answers[i].answer = "suggestions"
    BY <2>3
  <2>5. Kind[answers[i].task] = "A"
    BY <1>2, <2>1, <2>4
  <2>6. i \in DOMAIN answers
    <3>1. answers \in Seq([task: Task, answer: PoolAnswer])
      BY <1>1, Zenon
    <3>2. DOMAIN answers = 1..Len(answers)
      BY <3>1
    <3> QED
      BY <2>4, <3>2, Zenon
  <2>7. answers[i].task \in Suggested
    BY <2>4, <2>6, Zenon DEF Suggested
  <2> QED
    BY <2>5, <2>7
<1>16. TasksReportedOnce'
  <2>1. policy' # NoPolicy
    BY <1>1, <1>2, WavesAssumption
  <2> QED
    BY <1>1, <1>9, <1>10, <1>11, <1>12, <1>13, <1>14, <1>15, <2>1, Zenon DEF TasksReportedOnce
<1>17. WavesTypeOK'
  <2>1. waveStage' \in WaveStage
    BY <1>1, Zenon DEF WaveStage
  <2>2. reports' \in Seq([task: Task, outcome: Outcome])
    BY <1>7, Zenon DEF Report
  <2> QED
    BY <1>1, <1>12, <2>1, <2>2, Zenon DEF WavesTypeOK
<1>18. \A i, j \in 1..Len(tasks') : tasks'[i] = tasks'[j] => i = j
  BY <1>1, <1>2, Zenon
<1>19. ~(waveStage' = "waiting" \/ waveStage' = "pool" \/ waveStage' \in {"wave A", "wave B"})
  BY <1>1
<1> QED
  BY <1>1, <1>16, <1>17, <1>18, <1>19, Zenon DEF WavesInv

LEMMA WavesMove == ASSUME WavesInv, WavesNext PROVE WavesInv'
<1>1. ASSUME NEW plan0 \in Plan, StartPool(plan0) PROVE WavesInv'
  BY <1>1, PoolStarted
<1>2. ASSUME NEW plan0 \in Plan, NEW p \in Policy, StartWaves(plan0, p) PROVE WavesInv'
  BY <1>2, WavesStarted
<1>3. ASSUME NEW answer \in PoolAnswer, RunTask(answer) PROVE WavesInv'
  BY <1>3, TaskRuns
<1> QED
  BY <1>1, <1>2, <1>3, SecondWave, WavesEnd, PoolEnded DEF WavesNext

(* Each task that answered brings a suggestion of its own to the review.   *)
LEMMA SuggestionsAreListed ==
  ASSUME WavesInv, NEW s \in [1..Cardinality(Suggested) -> Suggestion]
  PROVE  s \in Seq(Suggestion)
<1> DEFINE n == Len(answers)
           f == [i \in 1..n |-> answers[i].task]
           T == {answers[i].task : i \in 1..n}
<1>1. n \in Nat /\ DOMAIN answers = 1..n
  <2> DEFINE Given == [task: Task, answer: PoolAnswer]
  <2>1. answers \in Seq(Given)
    BY Zenon DEF WavesInv, WavesTypeOK
  <2> HIDE DEF Given
  <2> QED
    BY <2>1
<1>2. Suggested \subseteq T
  BY <1>1 DEF Suggested
<1>3. f \in Surjection(1..n, T)
  BY DEF Surjection
<1>4. IsFiniteSet(T)
  <2>1. IsFiniteSet(1..n)
    BY <1>1, FS_Interval
  <2> HIDE DEF n, f, T
  <2> QED
    BY <1>3, <2>1, FS_Surjection
<1> HIDE DEF n, f, T
<1>5. IsFiniteSet(Suggested)
  BY <1>2, <1>4, FS_Subset
<1>6. Cardinality(Suggested) \in Nat
  BY <1>5, FS_CardinalityType
<1> DEFINE c == Cardinality(Suggested)
<1>7. c \in Nat /\ s \in [1..c -> Suggestion]
  BY <1>6
<1> HIDE DEF c
<1> QED
  BY <1>7, SeqDef, Zenon

-----------------------------------------------------------------------------
(* What a turn is told.  The resolver goes through the worldbook in the    *)
(* order of its sort; what it has told outranks what it has yet to see.    *)

LEMMA EntriesAreTyped ==
  ASSUME NEW b \in Seq(BookEntry)
  PROVE  /\ Len(b) \in Nat /\ DOMAIN b = 1..Len(b)
         /\ \A i \in DOMAIN b :
              /\ i \in Nat /\ EntryId(b, i) \in Int
              /\ b[i].priority \in Int /\ b[i].chars \in Nat /\ Excerpt(b[i]) \in Nat
              /\ b[i].constant \in BOOLEAN /\ b[i].selective \in BOOLEAN
              /\ b[i].keyed \in BOOLEAN /\ b[i].enabled \in BOOLEAN /\ b[i].unknown \in BOOLEAN
<1>1. Len(b) \in Nat /\ DOMAIN b = 1..Len(b)
  OBVIOUS
<1>2. \A i \in DOMAIN b : b[i] \in BookEntry /\ i \in Nat
  BY <1>1
<1>3. ASSUME NEW i \in DOMAIN b
      PROVE  /\ b[i].priority \in Int /\ b[i].chars \in Nat /\ b[i].uid \in Int \cup {NoUid}
             /\ b[i].constant \in BOOLEAN /\ b[i].selective \in BOOLEAN
             /\ b[i].keyed \in BOOLEAN /\ b[i].enabled \in BOOLEAN /\ b[i].unknown \in BOOLEAN
  BY <1>2, Zenon DEF BookEntry
<1>4. ASSUME NEW i \in DOMAIN b PROVE EntryId(b, i) \in Int /\ Excerpt(b[i]) \in Nat
  BY <1>2, <1>3, ContextAssumption DEF EntryId, Excerpt
<1> QED
  BY <1>1, <1>2, <1>3, <1>4

LEMMA PlaceIsLast ==
  ASSUME NEW b \in Seq(BookEntry), NEW i \in DOMAIN b
  PROVE  /\ Place(b, i) \in DOMAIN b /\ EntryId(b, Place(b, i)) = EntryId(b, i)
         /\ Place(b, i) \in Nat
<1> DEFINE same == {k \in DOMAIN b : EntryId(b, k) = EntryId(b, i)}
<1>1. Len(b) \in Nat /\ same \in SUBSET (0..Len(b)) /\ same # {}
  BY EntriesAreTyped
<1> HIDE DEF same
<1>2. Max(same) \in same /\ \A k \in same : k <= Max(same)
  BY <1>1, Largest
<1>3. \E k \in DOMAIN b : /\ EntryId(b, k) = EntryId(b, i)
                          /\ \A m \in DOMAIN b : EntryId(b, m) = EntryId(b, i) => m <= k
  BY <1>2 DEF same
<1>4. Place(b, i) \in DOMAIN b /\ EntryId(b, Place(b, i)) = EntryId(b, i)
  BY <1>3 DEF Place
<1> QED
  BY <1>4, EntriesAreTyped

(* An entry's place in the sort, spelled out.                              *)
Rank(b, i) == IF b[i].constant THEN 0 ELSE 1

LEMMA AheadMeans ==
  ASSUME NEW b \in Seq(BookEntry), NEW i \in DOMAIN b, NEW k \in DOMAIN b
  PROVE  Ahead(b, i, k) <=>
           \/ Rank(b, i) < Rank(b, k)
           \/ /\ Rank(b, i) = Rank(b, k)
              /\ \/ -Entry(b, i).priority < -Entry(b, k).priority
                 \/ /\ -Entry(b, i).priority = -Entry(b, k).priority
                    /\ \/ Place(b, i) < Place(b, k)
                       \/ Place(b, i) = Place(b, k) /\ i < k
<1> DEFINE s == SortKey(b, i)
           t == SortKey(b, k)
<1>1. /\ s[1] = Rank(b, i) /\ s[2] = -Entry(b, i).priority /\ s[3] = Place(b, i) /\ s[4] = i
      /\ t[1] = Rank(b, k) /\ t[2] = -Entry(b, k).priority /\ t[3] = Place(b, k) /\ t[4] = k
  BY DEF SortKey, Rank
<1>2. Ahead(b, i, k) <=> \E n \in 1..4 : s[n] < t[n] /\ \A m \in 1..(n - 1) : s[m] = t[m]
  BY DEF Ahead
<1> HIDE DEF s, t
<1>3. (\E n \in 1..4 : s[n] < t[n] /\ \A m \in 1..(n - 1) : s[m] = t[m]) <=>
        \/ s[1] < t[1]
        \/ s[1] = t[1] /\ s[2] < t[2]
        \/ s[1] = t[1] /\ s[2] = t[2] /\ s[3] < t[3]
        \/ s[1] = t[1] /\ s[2] = t[2] /\ s[3] = t[3] /\ s[4] < t[4]
  <2>1. \A m \in 1..(1 - 1) : FALSE
    OBVIOUS
  <2>2. /\ \A m \in 1..(2 - 1) : m = 1
        /\ \A m \in 1..(3 - 1) : m = 1 \/ m = 2
        /\ \A m \in 1..(4 - 1) : m = 1 \/ m = 2 \/ m = 3
    OBVIOUS
  <2>3. 1 \in 1..4 /\ 2 \in 1..4 /\ 3 \in 1..4 /\ 4 \in 1..4
    OBVIOUS
  <2>4. ASSUME NEW n \in 1..4, s[n] < t[n], \A m \in 1..(n - 1) : s[m] = t[m]
        PROVE  \/ s[1] < t[1]
               \/ s[1] = t[1] /\ s[2] < t[2]
               \/ s[1] = t[1] /\ s[2] = t[2] /\ s[3] < t[3]
               \/ s[1] = t[1] /\ s[2] = t[2] /\ s[3] = t[3] /\ s[4] < t[4]
    <3>1. n = 1 \/ n = 2 \/ n = 3 \/ n = 4
      OBVIOUS
    <3>2. /\ n > 1 => s[1] = t[1]
          /\ n > 2 => s[2] = t[2]
          /\ n > 3 => s[3] = t[3]
      BY <2>4
    <3> QED
      BY <2>4, <3>1, <3>2
  <2>5. ASSUME s[1] < t[1] PROVE \E n \in 1..4 : s[n] < t[n] /\ \A m \in 1..(n - 1) : s[m] = t[m]
    BY <2>1, <2>3, <2>5
  <2>6. ASSUME s[1] = t[1], s[2] < t[2]
        PROVE  \E n \in 1..4 : s[n] < t[n] /\ \A m \in 1..(n - 1) : s[m] = t[m]
    BY <2>2, <2>3, <2>6
  <2>7. ASSUME s[1] = t[1], s[2] = t[2], s[3] < t[3]
        PROVE  \E n \in 1..4 : s[n] < t[n] /\ \A m \in 1..(n - 1) : s[m] = t[m]
    BY <2>2, <2>3, <2>7
  <2>8. ASSUME s[1] = t[1], s[2] = t[2], s[3] = t[3], s[4] < t[4]
        PROVE  \E n \in 1..4 : s[n] < t[n] /\ \A m \in 1..(n - 1) : s[m] = t[m]
    BY <2>2, <2>3, <2>8
  <2> QED
    BY <2>4, <2>5, <2>6, <2>7, <2>8
<1> QED
  BY <1>1, <1>2, <1>3

(* The sort puts the entries in a strict order.                            *)
LEMMA SortedRanks ==
  ASSUME NEW b \in Seq(BookEntry)
  PROVE  /\ Sorted(b) \in Seq(DOMAIN b) /\ Len(Sorted(b)) = Len(b)
         /\ \A m, n \in 1..Len(b) : m < n => Ahead(b, Sorted(b)[m], Sorted(b)[n])
         /\ \A i \in DOMAIN b : \E n \in 1..Len(b) : i = Sorted(b)[n]
<1> DEFINE D == DOMAIN b
           c == Len(b)
           R == {p \in D \X D : Ahead(b, p[1], p[2])}
           q == Sorted(b)
<1>1. c \in Nat /\ D = 1..c /\ IsFiniteSet(D) /\ Cardinality(D) = c
  BY EntriesAreTyped, FS_Interval, SMTT(30)
<1>2. \A i, k \in D : <<i, k>> \in R <=> Ahead(b, i, k)
  OBVIOUS
<1>3. \A i \in D : /\ Rank(b, i) \in Nat /\ -Entry(b, i).priority \in Int
                   /\ Place(b, i) \in Nat /\ i \in Nat
  BY EntriesAreTyped, PlaceIsLast DEF Rank, Entry
<1> HIDE DEF D, R
<1>4. StrictOrder(D, R)
  <2>1. \A x \in D : ~Ahead(b, x, x)
    BY <1>3, AheadMeans DEF D
  <2>2. ASSUME NEW x \in D, NEW y \in D, NEW z \in D, Ahead(b, x, y), Ahead(b, y, z)
        PROVE  Ahead(b, x, z)
    <3> DEFINE First(i) == Rank(b, i)
               Second(i) == -Entry(b, i).priority
               Third(i) == Place(b, i)
               Before4(i, k) == \/ First(i) < First(k)
                                \/ /\ First(i) = First(k)
                                   /\ \/ Second(i) < Second(k)
                                      \/ /\ Second(i) = Second(k)
                                         /\ \/ Third(i) < Third(k)
                                            \/ Third(i) = Third(k) /\ i < k
    <3>1. \A i, k \in D : Ahead(b, i, k) <=> Before4(i, k)
      BY AheadMeans DEF D
    <3>2. \A i \in {x, y, z} : First(i) \in Int /\ Second(i) \in Int /\ Third(i) \in Int /\ i \in Int
      BY <1>3, <2>2
    <3> HIDE DEF First, Second, Third
    <3>3. Before4(x, y) /\ Before4(y, z) => Before4(x, z)
      BY <3>2, SMTT(30)
    <3> QED
      BY <2>2, <3>1, <3>3
  <2>3. \A x, y \in D : x = y \/ Ahead(b, x, y) \/ Ahead(b, y, x)
    BY <1>3, AheadMeans DEF D
  <2> QED
    BY <1>2, <2>1, <2>2, <2>3 DEF StrictOrder
<1>5. \A i \in D : Lower(D, R, i) = {k \in D : Ahead(b, k, i)}
  BY <1>2 DEF Lower
<1>6. \A n \in 1..c : q[n] \in D /\ Cardinality(Lower(D, R, q[n])) = n - 1
  <2> TAKE n \in 1..c
  <2>1. PICK i \in D : Cardinality(Lower(D, R, i)) = n - 1
    BY <1>1, <1>4, RankedByOrder
  <2>2. q[n] \in D /\ Cardinality({k \in D : Ahead(b, k, q[n])}) = n - 1
    BY <1>1, <1>5, <2>1 DEF Sorted, D
  <2> QED
    BY <1>5, <2>2
<1>7. q \in [1..c -> D]
  BY <1>1, <1>6 DEF Sorted, D
<1> HIDE DEF q
<1>8. Ranked(D, R, q)
  BY <1>1, <1>4, <1>6, <1>7, RankedByOrder
<1>9. /\ \A m, n \in 1..c : m < n => Ahead(b, q[m], q[n])
      /\ \A i \in D : \E n \in 1..c : i = q[n]
  BY <1>1, <1>2, <1>7, <1>8 DEF Ranked
<1>10. q \in Seq(D) /\ Len(q) = c
  BY <1>1, <1>7
<1> QED
  BY <1>9, <1>10 DEF q, D

DistinctIn(b) == \A i, k \in DOMAIN b : EntryId(b, i) = EntryId(b, k) => i = k

(* With ids of their own, the entries are sorted as they outrank another.  *)
LEMMA AheadOutranks ==
  ASSUME NEW b \in Seq(BookEntry), DistinctIn(b)
  PROVE  /\ \A i \in DOMAIN b : Place(b, i) = i /\ Entry(b, i) = b[i]
         /\ \A i, k \in DOMAIN b : Ahead(b, i, k) <=> Outranks(b, i, k)
<1>1. \A i \in DOMAIN b : Place(b, i) = i /\ Entry(b, i) = b[i]
  BY PlaceIsLast DEF DistinctIn, Entry
<1>2. ASSUME NEW i \in DOMAIN b, NEW k \in DOMAIN b
      PROVE  Ahead(b, i, k) <=> Outranks(b, i, k)
  <2> DEFINE p == b[i].priority
             r == b[k].priority
  <2>1. p \in Int /\ r \in Int /\ i \in Nat /\ k \in Nat
    BY EntriesAreTyped
  <2>2. /\ Rank(b, i) < Rank(b, k) <=> b[i].constant /\ ~b[k].constant
        /\ Rank(b, i) = Rank(b, k) <=> b[i].constant = b[k].constant
    <3>1. b[i].constant \in BOOLEAN /\ b[k].constant \in BOOLEAN
      BY EntriesAreTyped
    <3>2. 0 < 1 /\ ~(1 < 0) /\ ~(0 < 0) /\ ~(1 < 1) /\ 0 # 1
      OBVIOUS
    <3> QED
      BY <3>1, <3>2, Zenon DEF Rank
  <2>3. /\ Entry(b, i).priority = p /\ Entry(b, k).priority = r
        /\ Place(b, i) = i /\ Place(b, k) = k
    BY <1>1
  <2>4. Ahead(b, i, k) <=>
           \/ Rank(b, i) < Rank(b, k)
           \/ /\ Rank(b, i) = Rank(b, k)
              /\ \/ -p < -r
                 \/ -p = -r /\ (i < k \/ (i = k /\ i < k))
    BY <2>3, AheadMeans
  <2>5. /\ (-p < -r) <=> p > r
        /\ (-p = -r) <=> p = r
        /\ (i < k \/ (i = k /\ i < k)) <=> i < k
    BY <2>1
  <2> HIDE DEF p, r
  <2>6. Ahead(b, i, k) <=>
           \/ Rank(b, i) < Rank(b, k)
           \/ Rank(b, i) = Rank(b, k) /\ (p > r \/ (p = r /\ i < k))
    BY <2>4, <2>5, Zenon
  <2> QED
    BY <2>2, <2>6, Zenon DEF Outranks, p, r
<1> QED
  BY <1>1, <1>2

(* No two entries outrank each other.                                      *)
LEMMA OutranksIsStrict ==
  ASSUME NEW b \in Seq(BookEntry), NEW i \in DOMAIN b, NEW k \in DOMAIN b, Outranks(b, i, k)
  PROVE  i # k /\ ~Outranks(b, k, i)
<1>1. /\ b[i].priority \in Int /\ b[k].priority \in Int /\ i \in Nat /\ k \in Nat
      /\ b[i].constant \in BOOLEAN /\ b[k].constant \in BOOLEAN
  BY EntriesAreTyped
<1> QED
  BY <1>1 DEF Outranks

(* The characters of some entries add up place by place.                   *)
Weight(b, places, n) == IF n \in places THEN Excerpt(b[n]) ELSE 0

CharSums(b, places, sum) ==
  /\ sum \in [0..Len(b) -> Nat]
  /\ sum[0] = 0
  /\ \A n \in 1..Len(b) : sum[n] = sum[n - 1] + Weight(b, places, n)

LEMMA CharSumsExist ==
  ASSUME NEW b \in Seq(BookEntry), NEW places
  PROVE  \E sum : CharSums(b, places, sum)
<1> DEFINE c == Len(b)
           SumsTo(h, m) == /\ h \in [0..m -> Nat] /\ h[0] = 0
                           /\ \A n \in 1..m : h[n] = h[n - 1] + Weight(b, places, n)
           missing == {m \in 0..c : ~\E h : SumsTo(h, m)}
<1>1. c \in Nat /\ \A n \in 1..c : Weight(b, places, n) \in Nat
  BY EntriesAreTyped DEF Weight
<1>2. SumsTo([n \in 0..0 |-> 0], 0)
  BY DEF SumsTo
<1>3. ASSUME NEW m \in 1..c, NEW h, SumsTo(h, m - 1) PROVE \E g : SumsTo(g, m)
  <2> DEFINE g == [n \in 0..m |-> IF n = m THEN h[m - 1] + Weight(b, places, m) ELSE h[n]]
  <2>1. m \in Nat /\ m - 1 \in 0..(m - 1) /\ h[m - 1] \in Nat /\ Weight(b, places, m) \in Nat
    BY <1>1, <1>3
  <2>2. g \in [0..m -> Nat] /\ g[0] = 0
    BY <1>3, <2>1
  <2>3. ASSUME NEW n \in 1..m PROVE g[n] = g[n - 1] + Weight(b, places, n)
    <3>1. CASE n = m
      BY <2>1, <3>1
    <3>2. CASE n # m
      <4>1. n \in 1..(m - 1) /\ n - 1 # m /\ n \in 0..m /\ n - 1 \in 0..m
        BY <2>1, <3>2
      <4>2. h[n] = h[n - 1] + Weight(b, places, n)
        BY <1>3, <4>1
      <4> QED
        BY <3>2, <4>1, <4>2
    <3> QED
      BY <3>1, <3>2
  <2> HIDE DEF g
  <2> QED
    BY <2>2, <2>3
<1> HIDE DEF SumsTo
<1>4. missing = {}
  <2> SUFFICES ASSUME missing # {} PROVE FALSE
    OBVIOUS
  <2>1. missing \in SUBSET Nat
    OBVIOUS
  <2>2. PICK m \in missing : \A k \in missing : m <= k
    <3> HIDE DEF missing
    <3> QED
      BY <2>1, Smallest
  <2>3. m \in 0..c /\ m # 0 /\ ~\E h : SumsTo(h, m)
    BY <1>2
  <2>4. m \in 1..c /\ m - 1 \in 0..c /\ ~(m <= m - 1)
    BY <1>1, <2>3
  <2>5. \E h : SumsTo(h, m - 1)
    BY <2>2, <2>4
  <2> QED
    BY <1>3, <2>3, <2>4, <2>5
<1>5. PICK h : SumsTo(h, c)
  BY <1>1, <1>4
<1> QED
  BY <1>5 DEF SumsTo, CharSums

LEMMA CharsAreSum ==
  ASSUME NEW b \in Seq(BookEntry), NEW places, NEW sum, CharSums(b, places, sum)
  PROVE  CharsOf(b, places) = sum[Len(b)] /\ CharsOf(b, places) \in Nat
<1> DEFINE c == Len(b)
           Grown(h) == [n \in 0..c |-> IF n = 0 THEN 0
                                       ELSE h[n - 1] + (IF n \in places THEN Excerpt(b[n]) ELSE 0)]
           iter == CHOOSE h : h = Grown(h)
           differ == {n \in 0..c : iter[n] # sum[n]}
<1>1. c \in Nat /\ \A n \in 0..c : sum[n] \in Nat
  BY DEF CharSums
<1>2. CharsOf(b, places) = iter[c]
  BY DEF CharsOf
<1>3. sum = Grown(sum)
  <2>1. /\ sum = [n \in 0..c |-> sum[n]] /\ sum[0] = 0
        /\ \A n \in 1..c : sum[n] = sum[n - 1] + (IF n \in places THEN Excerpt(b[n]) ELSE 0)
    BY DEF CharSums, Weight
  <2>2. \A n \in 0..c : n # 0 => n \in 1..c
    BY <1>1
  <2> QED
    BY <2>1, <2>2
<1>4. iter = Grown(iter)
  <2> HIDE DEF Grown
  <2> QED
    BY <1>3
<1> HIDE DEF iter
<1>5. differ = {}
  <2> SUFFICES ASSUME differ # {} PROVE FALSE
    OBVIOUS
  <2>1. differ \in SUBSET Nat
    OBVIOUS
  <2>2. PICK m \in differ : \A k \in differ : m <= k
    <3> HIDE DEF differ
    <3> QED
      BY <2>1, Smallest
  <2>3. m \in 0..c /\ iter[m] # sum[m]
    OBVIOUS
  <2>4. CASE m = 0
    BY <1>3, <1>4, <2>3, <2>4
  <2>5. CASE m # 0
    <3>1. m \in 1..c /\ m - 1 \in 0..c /\ ~(m <= m - 1)
      BY <1>1, <2>3, <2>5
    <3>2. iter[m - 1] = sum[m - 1]
      BY <2>2, <3>1
    <3>3. iter[m] = iter[m - 1] + (IF m \in places THEN Excerpt(b[m]) ELSE 0)
      BY <1>4, <2>3, <2>5
    <3>4. sum[m] = sum[m - 1] + (IF m \in places THEN Excerpt(b[m]) ELSE 0)
      BY <3>1 DEF CharSums, Weight
    <3> QED
      BY <2>3, <3>2, <3>3, <3>4
  <2> QED
    BY <2>4, <2>5
<1>6. iter[c] = sum[c] /\ sum[c] \in Nat
  BY <1>1, <1>5
<1> QED
  BY <1>2, <1>6

LEMMA CharsAddUp ==
  ASSUME NEW b \in Seq(BookEntry)
  PROVE  /\ CharsOf(b, {}) = 0
         /\ \A places : CharsOf(b, places) \in Nat
         /\ \A places : \A i \in DOMAIN b \ places :
              CharsOf(b, places \cup {i}) = CharsOf(b, places) + Excerpt(b[i])
<1> DEFINE c == Len(b)
<1>1. c \in Nat /\ DOMAIN b = 1..c /\ \A i \in 1..c : Excerpt(b[i]) \in Nat
  BY EntriesAreTyped
<1>2. CharsOf(b, {}) = 0
  <2> DEFINE zero == [n \in 0..c |-> 0]
  <2>1. CharSums(b, {}, zero)
    BY <1>1 DEF CharSums, Weight
  <2>2. zero[c] = 0
    BY <1>1
  <2> HIDE DEF zero
  <2> QED
    BY <2>1, <2>2, CharsAreSum
<1>3. ASSUME NEW places PROVE CharsOf(b, places) \in Nat
  BY CharSumsExist, CharsAreSum
<1>4. ASSUME NEW places, NEW i \in DOMAIN b \ places
      PROVE  CharsOf(b, places \cup {i}) = CharsOf(b, places) + Excerpt(b[i])
  <2>1. PICK sum : CharSums(b, places, sum)
    BY CharSumsExist
  <2> DEFINE more == [n \in 0..c |-> IF i <= n THEN sum[n] + Excerpt(b[i]) ELSE sum[n]]
  <2>2. i \in 1..c /\ i \notin places /\ \A n \in 0..c : sum[n] \in Nat
    BY <1>1, <2>1 DEF CharSums
  <2>3. more \in [0..c -> Nat] /\ more[0] = 0
    <3>1. ~(i <= 0) /\ Excerpt(b[i]) \in Nat /\ sum[0] = 0
      BY <1>1, <2>1, <2>2 DEF CharSums
    <3> QED
      BY <1>1, <2>2, <3>1
  <2>4. ASSUME NEW n \in 1..c
        PROVE  more[n] = more[n - 1] + Weight(b, places \cup {i}, n)
    <3>1. /\ n \in 0..c /\ n - 1 \in 0..c /\ sum[n] \in Nat /\ sum[n - 1] \in Nat
          /\ Weight(b, places, n) \in Nat /\ Excerpt(b[i]) \in Nat
          /\ sum[n] = sum[n - 1] + Weight(b, places, n)
      BY <1>1, <2>1, <2>2 DEF CharSums, Weight
    <3>2. /\ more[n] = IF i <= n THEN sum[n] + Excerpt(b[i]) ELSE sum[n]
          /\ more[n - 1] = IF i <= n - 1 THEN sum[n - 1] + Excerpt(b[i]) ELSE sum[n - 1]
      BY <3>1
    <3> HIDE DEF more
    <3>3. CASE n = i
      <4>1. Weight(b, places, n) = 0 /\ Weight(b, places \cup {i}, n) = Excerpt(b[i])
        BY <2>2, <3>3 DEF Weight
      <4>2. i <= n /\ ~(i <= n - 1)
        BY <2>2, <3>3
      <4> QED
        BY <3>1, <3>2, <4>1, <4>2
    <3>4. CASE n # i
      <4>1. Weight(b, places \cup {i}, n) = Weight(b, places, n)
        BY <3>4 DEF Weight
      <4>2. i <= n <=> i <= n - 1
        BY <1>1, <2>2, <3>4
      <4> QED
        BY <3>1, <3>2, <4>1, <4>2
    <3> QED
      BY <3>3, <3>4
  <2>5. more[c] = sum[c] + Excerpt(b[i])
    BY <1>1, <2>2
  <2> HIDE DEF more
  <2>6. CharSums(b, places \cup {i}, more)
    BY <2>3, <2>4 DEF CharSums
  <2> QED
    BY <2>1, <2>5, <2>6, CharsAreSum
<1> QED
  BY <1>2, <1>3, <1>4

(* The best of some memories are those that fewer than k others come       *)
(* before, by whatever score.                                              *)
LEMMA BestAreBest ==
  ASSUME NEW s, NEW S \in SUBSET Memory, \A x \in S : s[x] \in Int, NEW k \in Nat
  PROVE  /\ Best(s, S, k) \subseteq S
         /\ Cardinality(Best(s, S, k)) <= k
         /\ \A m \in S \ Best(s, S, k) :
              Cardinality(Best(s, S, k)) = k /\ \A n \in Best(s, S, k) : SortsBefore(s, n, m)
         /\ Best(s, Best(s, S, k), k) = Best(s, S, k)
<1> DEFINE c == Cardinality(S)
           R == {p \in S \X S : SortsBefore(s, p[1], p[2])}
           B == Best(s, S, k)
           q == [n \in 1..c |-> CHOOSE x \in S : Cardinality(Lower(S, R, x)) = n - 1]
<1>1. IsFiniteSet(S) /\ c \in Nat /\ \A x \in S : x \in Int
  <2>1. IsFiniteSet(S)
    BY FS_Subset, ContextAssumption
  <2> QED
    BY <2>1, FS_CardinalityType, ContextAssumption
<1>2. \A x, y \in S : <<x, y>> \in R <=> SortsBefore(s, x, y)
  OBVIOUS
<1> HIDE DEF R
<1>3. StrictOrder(S, R)
  <2>1. /\ \A x \in S : ~SortsBefore(s, x, x)
        /\ \A x, y, z \in S : SortsBefore(s, x, y) /\ SortsBefore(s, y, z) => SortsBefore(s, x, z)
        /\ \A x, y \in S : x = y \/ SortsBefore(s, x, y) \/ SortsBefore(s, y, x)
    BY <1>1 DEF SortsBefore
  <2> QED
    BY <1>2, <2>1 DEF StrictOrder
<1>4. \A x \in S : Lower(S, R, x) = {n \in S : SortsBefore(s, n, x)}
  BY <1>2 DEF Lower
<1>5. \A x \in S : Cardinality(Lower(S, R, x)) \in Nat
  <2> TAKE x \in S
  <2>1. Lower(S, R, x) \subseteq S
    BY DEF Lower
  <2> QED
    BY <1>1, <2>1, FS_Subset, FS_CardinalityType
<1>6. B = {x \in S : Cardinality(Lower(S, R, x)) < k}
  BY <1>4 DEF Best
<1>7. \A n \in 1..c : q[n] \in S /\ Cardinality(Lower(S, R, q[n])) = n - 1
  <2> TAKE n \in 1..c
  <2>1. \E x \in S : Cardinality(Lower(S, R, x)) = n - 1
    BY <1>1, <1>3, RankedByOrder
  <2> QED
    BY <2>1
<1>8. q \in [1..c -> S]
  BY <1>7
<1> HIDE DEF q
<1>9. Ranked(S, R, q)
  BY <1>1, <1>3, <1>7, <1>8, RankedByOrder
<1> HIDE DEF B
<1>10. B \subseteq S /\ IsFiniteSet(B) /\ Cardinality(B) \in Nat /\ Cardinality(B) <= c
  <2>1. B \subseteq S
    BY <1>6
  <2> QED
    BY <1>1, <2>1, FS_Subset, FS_CardinalityType
<1>11. \A n \in 1..c : q[n] \in B <=> n <= k
  BY <1>1, <1>6, <1>7
<1>12. c > k => Cardinality(B) = k
  <2> SUFFICES ASSUME c > k PROVE Cardinality(B) = k
    OBVIOUS
  <2> DEFINE f == [n \in 1..k |-> q[n]]
  <2>1. \A n \in 1..k : n \in 1..c /\ q[n] \in B
    BY <1>1, <1>11
  <2>2. f \in [1..k -> B]
    BY <2>1
  <2>3. \A m, n \in 1..k : f[m] = f[n] => m = n
    <3> SUFFICES ASSUME NEW m \in 1..k, NEW n \in 1..k, q[m] = q[n] PROVE m = n
      OBVIOUS
    <3>1. m - 1 = n - 1
      BY <1>7, <2>1
    <3> QED
      BY <3>1
  <2>4. \A x \in B : \E n \in 1..k : f[n] = x
    <3> TAKE x \in B
    <3>1. PICK n \in 1..c : x = q[n]
      BY <1>9, <1>10 DEF Ranked
    <3>2. n \in 1..k
      BY <1>11, <3>1
    <3> QED
      BY <3>1, <3>2
  <2> HIDE DEF f
  <2>5. f \in Bijection(1..k, B)
    BY <2>2, <2>3, <2>4 DEF Bijection, Injection, Surjection, IsInjective
  <2>6. IsFiniteSet(1..k) /\ Cardinality(1..k) = k
    BY FS_Interval
  <2> QED
    BY <2>5, <2>6, FS_Bijection DEF ExistsBijection
<1>13. c <= k => B = S
  <2> SUFFICES ASSUME c <= k, NEW x \in S PROVE x \in B
    BY <1>10
  <2>1. PICK n \in 1..c : x = q[n]
    BY <1>9 DEF Ranked
  <2> QED
    BY <1>1, <1>11, <2>1
<1>14. Cardinality(B) <= k
  BY <1>1, <1>10, <1>12, <1>13
<1>15. ASSUME NEW m \in S \ B PROVE Cardinality(B) = k /\ \A n \in B : SortsBefore(s, n, m)
  <2>1. Cardinality(B) = k
    BY <1>1, <1>12, <1>13, <1>15
  <2>2. ASSUME NEW n \in B PROVE SortsBefore(s, n, m)
    <3>1. Cardinality(Lower(S, R, n)) < Cardinality(Lower(S, R, m))
      <4>1. Cardinality(Lower(S, R, n)) < k /\ ~(Cardinality(Lower(S, R, m)) < k)
        BY <1>6, <1>15
      <4> QED
        BY <1>5, <1>10, <1>15, <4>1
    <3>2. n # m /\ <<m, n>> \notin R
      <4>1. <<m, n>> \in R => Cardinality(Lower(S, R, m)) < Cardinality(Lower(S, R, n))
        BY <1>1, <1>3, <1>10, <1>15, RanksAreOrdered
      <4>2. n # m
        BY <1>15
      <4> QED
        BY <1>5, <1>10, <1>15, <3>1, <4>1, <4>2
    <3> QED
      BY <1>1, <1>2, <1>10, <1>15, <3>2 DEF SortsBefore
  <2> QED
    BY <2>1, <2>2
<1>16. Best(s, B, k) = B
  <2> SUFFICES ASSUME NEW x \in B PROVE Cardinality({n \in B : SortsBefore(s, n, x)}) < k
    BY DEF Best
  <2>1. {n \in B : SortsBefore(s, n, x)} \subseteq Lower(S, R, x) /\ IsFiniteSet(Lower(S, R, x))
    <3>1. Lower(S, R, x) \subseteq S /\ {n \in B : SortsBefore(s, n, x)} \subseteq Lower(S, R, x)
      BY <1>4, <1>10
    <3> QED
      BY <1>1, <3>1, FS_Subset
  <2> DEFINE U == {n \in B : SortsBefore(s, n, x)}
  <2>2. Cardinality(Lower(S, R, x)) < k
    BY <1>6
  <2> HIDE DEF U
  <2>3. Cardinality(U) <= Cardinality(Lower(S, R, x)) /\ Cardinality(U) \in Nat
    BY <2>1, FS_Subset, FS_CardinalityType DEF U
  <2>4. Cardinality(U) < k
    BY <1>5, <1>10, <2>2, <2>3
  <2> QED
    BY <2>4 DEF U
<1> QED
  BY <1>10, <1>14, <1>15, <1>16 DEF B

(* The entries that wait to be resolved come in the order of the ranks,    *)
(* after those that are done with.                                         *)
Left(list) == {list[n] : n \in 1..Len(list)}

InTurn(b, list) ==
  /\ \A m, n \in 1..Len(list) : m < n => Outranks(b, list[m], list[n])
  /\ \A i \in DOMAIN b \ Left(list), k \in Left(list) : Outranks(b, i, k)

(* What BookIsTold says, of the entries that are done with.                *)
TellsSoFar(b, list, told, out) ==
  /\ told \subseteq DOMAIN b \ Left(list)
  /\ \A r \in out : \E i \in DOMAIN b \ Left(list) : r.id = EntryId(b, i)
  /\ \A i \in DOMAIN b \ Left(list) : i \in told <=> ~\E r \in out : r.id = EntryId(b, i)
  /\ \A i \in told : b[i].enabled
  /\ \A i \in DOMAIN b : [id |-> EntryId(b, i), reason |-> "budget"] \in out
       => CharsOf(b, {k \in told : Outranks(b, k, i)}) + Excerpt(b[i]) > TotalChars

LEMMA HeadIsNext ==
  ASSUME NEW b \in Seq(BookEntry), NEW list \in Seq(DOMAIN b), list # <<>>
  PROVE  /\ Head(list) \in DOMAIN b /\ Tail(list) \in Seq(DOMAIN b)
         /\ Head(list) \in Left(list)
         /\ Left(list) = Left(Tail(list)) \cup {Head(list)}
         /\ Left(list) \subseteq DOMAIN b
         /\ InTurn(b, list) => Head(list) \notin Left(Tail(list)) /\ InTurn(b, Tail(list))
<1> DEFINE c == Len(list)
           rest == Tail(list)
<1>1. c \in Nat \ {0} /\ \A n \in 1..c : list[n] \in DOMAIN b
  BY EmptySeq
<1>2. /\ Head(list) = list[1] /\ rest \in Seq(DOMAIN b) /\ Len(rest) = c - 1
      /\ \A n \in 1..(c - 1) : rest[n] = list[n + 1]
  BY <1>1, HeadTailProperties
<1> HIDE DEF rest
<1>3. Left(list) \subseteq DOMAIN b /\ list[1] \in Left(list) /\ list[1] \in DOMAIN b
  BY <1>1 DEF Left
<1>4. Left(list) = Left(rest) \cup {list[1]}
  <2>1. ASSUME NEW n \in 1..c PROVE list[n] \in Left(rest) \cup {list[1]}
    <3>1. CASE n = 1
      BY <3>1
    <3>2. CASE n # 1
      <4>1. n - 1 \in 1..(c - 1) /\ (n - 1) + 1 = n
        BY <1>1, <3>2
      <4>2. rest[n - 1] = list[n]
        BY <1>2, <4>1
      <4> QED
        BY <1>2, <4>1, <4>2 DEF Left
    <3> QED
      BY <3>1, <3>2
  <2>2. ASSUME NEW n \in 1..(c - 1) PROVE rest[n] \in Left(list)
    <3>1. n + 1 \in 1..c /\ rest[n] = list[n + 1]
      BY <1>1, <1>2
    <3> QED
      BY <3>1 DEF Left
  <2> QED
    BY <1>2, <1>3, <2>1, <2>2, ZenonT(30) DEF Left
<1>5. ASSUME InTurn(b, list) PROVE list[1] \notin Left(rest) /\ InTurn(b, rest)
  <2>1. ASSUME NEW n \in 1..(c - 1) PROVE Outranks(b, list[1], rest[n])
    <3>1. 1 \in 1..c /\ n + 1 \in 1..c /\ 1 < n + 1 /\ rest[n] = list[n + 1]
      BY <1>1, <1>2
    <3> QED
      BY <1>5, <3>1 DEF InTurn
  <2>2. \A n \in 1..(c - 1) : rest[n] # list[1]
    <3> TAKE n \in 1..(c - 1)
    <3>1. rest[n] \in DOMAIN b
      BY <1>2
    <3> QED
      BY <1>3, <2>1, <3>1, OutranksIsStrict
  <2>3. \A m, n \in 1..(c - 1) : m < n => Outranks(b, rest[m], rest[n])
    <3> SUFFICES ASSUME NEW m \in 1..(c - 1), NEW n \in 1..(c - 1), m < n
                 PROVE  Outranks(b, rest[m], rest[n])
      OBVIOUS
    <3>1. /\ m + 1 \in 1..c /\ n + 1 \in 1..c /\ m + 1 < n + 1
          /\ rest[m] = list[m + 1] /\ rest[n] = list[n + 1]
      BY <1>1, <1>2, SMTT(30)
    <3> QED
      BY <1>5, <3>1 DEF InTurn
  <2>4. ASSUME NEW i \in DOMAIN b \ Left(rest), NEW k \in Left(rest) PROVE Outranks(b, i, k)
    <3>1. PICK n \in 1..(c - 1) : k = rest[n]
      BY <1>2 DEF Left
    <3>2. CASE i = list[1]
      BY <2>1, <3>1, <3>2
    <3>3. CASE i # list[1]
      <4>1. i \in DOMAIN b \ Left(list) /\ k \in Left(list)
        BY <1>4, <2>4, <3>3
      <4> QED
        BY <1>5, <4>1 DEF InTurn
    <3> QED
      BY <3>2, <3>3
  <2> QED
    BY <1>2, <2>2, <2>3, <2>4 DEF InTurn, Left
<1> QED
  BY <1>2, <1>3, <1>4, <1>5 DEF rest

(* An entry is left out: for the budget only if it does not fit.           *)
LEMMA TellsWithout ==
  ASSUME NEW b \in Seq(BookEntry), DistinctIn(b), NEW list, NEW rest, NEW told, NEW out,
         NEW i \in DOMAIN b, NEW reason,
         Left(list) = Left(rest) \cup {i}, i \notin Left(rest),
         InTurn(b, list), TellsSoFar(b, list, told, out),
         reason = "budget" => CharsOf(b, told) + Excerpt(b[i]) > TotalChars
  PROVE  TellsSoFar(b, rest, told, {r \in out : r.id # EntryId(b, i)}
                                   \cup {[id |-> EntryId(b, i), reason |-> reason]})
<1> DEFINE e == [id |-> EntryId(b, i), reason |-> reason]
           more == {r \in out : r.id # EntryId(b, i)} \cup {e}
<1>1. /\ i \notin DOMAIN b \ Left(list)
      /\ DOMAIN b \ Left(rest) = (DOMAIN b \ Left(list)) \cup {i}
      /\ i \in Left(list)
  OBVIOUS
<1>2. \A k \in DOMAIN b : k # i => EntryId(b, k) # EntryId(b, i)
  BY DEF DistinctIn
<1>3. e.id = EntryId(b, i) /\ e.reason = reason
  OBVIOUS
<1> DEFINE Done == DOMAIN b \ Left(list)
           Now == DOMAIN b \ Left(rest)
<1>4. /\ told \subseteq Done
      /\ \A r \in out : \E k \in Done : r.id = EntryId(b, k)
      /\ \A k \in Done : k \in told <=> ~\E r \in out : r.id = EntryId(b, k)
      /\ \A k \in told : b[k].enabled
      /\ \A k \in DOMAIN b : [id |-> EntryId(b, k), reason |-> "budget"] \in out
           => CharsOf(b, {l \in told : Outranks(b, l, k)}) + Excerpt(b[k]) > TotalChars
  BY DEF TellsSoFar
<1>5. Done \subseteq DOMAIN b /\ Now = Done \cup {i} /\ i \notin Done
  BY <1>1
<1>6. \A k \in Done : Outranks(b, k, i)
  BY <1>1 DEF InTurn
<1> HIDE DEF e, Done, Now
<1>7. told \subseteq Now
  BY <1>4, <1>5
<1>8. \A r \in more : \E k \in Now : r.id = EntryId(b, k)
  BY <1>3, <1>4, <1>5
<1>9. \A k \in Now : k \in told <=> ~\E r \in more : r.id = EntryId(b, k)
  <2> TAKE k \in Now
  <2>1. CASE k = i
    BY <1>3, <1>4, <1>5, <2>1
  <2>2. CASE k # i
    <3>1. k \in Done /\ EntryId(b, k) # EntryId(b, i)
      BY <1>2, <1>5, <2>2
    <3>2. (\E r \in more : r.id = EntryId(b, k)) <=> \E r \in out : r.id = EntryId(b, k)
      BY <1>3, <3>1
    <3> QED
      BY <1>4, <3>1, <3>2
  <2> QED
    BY <2>1, <2>2
<1>10. ASSUME NEW k \in DOMAIN b, [id |-> EntryId(b, k), reason |-> "budget"] \in more
       PROVE  CharsOf(b, {l \in told : Outranks(b, l, k)}) + Excerpt(b[k]) > TotalChars
  <2> DEFINE f == [id |-> EntryId(b, k), reason |-> "budget"]
  <2>0. f.id = EntryId(b, k) /\ f.reason = "budget" /\ f \in more
    BY <1>10
  <2> HIDE DEF f
  <2>1. CASE k = i
    <3>1. f = e
      BY <1>3, <2>0, <2>1
    <3>2. reason = "budget"
      BY <1>3, <2>0, <3>1
    <3>3. {l \in told : Outranks(b, l, k)} = told
      BY <1>4, <1>6, <2>1
    <3> QED
      BY <2>1, <3>2, <3>3
  <2>2. CASE k # i
    <3>1. f \in out
      BY <1>2, <1>3, <2>0, <2>2
    <3> QED
      BY <1>4, <3>1 DEF f
  <2> QED
    BY <2>1, <2>2
<1>11. TellsSoFar(b, rest, told, more)
  BY <1>4, <1>7, <1>8, <1>9, <1>10 DEF TellsSoFar, Now
<1> QED
  BY <1>11 DEF e

(* An entry is told: those before it outrank it.                           *)
LEMMA TellsAnother ==
  ASSUME NEW b \in Seq(BookEntry), DistinctIn(b), NEW list, NEW rest, NEW told, NEW out,
         NEW i \in DOMAIN b, b[i].enabled,
         Left(list) = Left(rest) \cup {i}, i \notin Left(rest),
         InTurn(b, list), TellsSoFar(b, list, told, out)
  PROVE  TellsSoFar(b, rest, told \cup {i}, out)
<1> DEFINE Done == DOMAIN b \ Left(list)
           Now == DOMAIN b \ Left(rest)
<1>1. Done \subseteq DOMAIN b /\ Now = Done \cup {i} /\ i \notin Done
  OBVIOUS
<1>2. \A k \in Done : Outranks(b, k, i)
  BY DEF InTurn
<1>3. /\ told \subseteq Done
      /\ \A r \in out : \E k \in Done : r.id = EntryId(b, k)
      /\ \A k \in Done : k \in told <=> ~\E r \in out : r.id = EntryId(b, k)
      /\ \A k \in told : b[k].enabled
      /\ \A k \in DOMAIN b : [id |-> EntryId(b, k), reason |-> "budget"] \in out
           => CharsOf(b, {l \in told : Outranks(b, l, k)}) + Excerpt(b[k]) > TotalChars
  BY DEF TellsSoFar
<1> HIDE DEF Done, Now
<1>4. \A r \in out : \E k \in Done : k # i /\ r.id = EntryId(b, k)
  BY <1>1, <1>3
<1>5. ~\E r \in out : r.id = EntryId(b, i)
  BY <1>1, <1>4 DEF DistinctIn
<1>6. \A k \in Now : k \in told \cup {i} <=> ~\E r \in out : r.id = EntryId(b, k)
  BY <1>1, <1>3, <1>5
<1>7. ASSUME NEW k \in DOMAIN b, [id |-> EntryId(b, k), reason |-> "budget"] \in out
      PROVE  CharsOf(b, {l \in told \cup {i} : Outranks(b, l, k)}) + Excerpt(b[k]) > TotalChars
  <2>1. PICK l \in Done : EntryId(b, k) = EntryId(b, l)
    <3> DEFINE f == [id |-> EntryId(b, k), reason |-> "budget"]
    <3>1. f \in out /\ f.id = EntryId(b, k)
      BY <1>7
    <3> HIDE DEF f
    <3> QED
      BY <1>3, <3>1
  <2>2. k \in Done
    BY <1>1, <2>1 DEF DistinctIn
  <2>3. ~Outranks(b, i, k)
    BY <1>2, <2>2, OutranksIsStrict
  <2>4. {m \in told \cup {i} : Outranks(b, m, k)} = {m \in told : Outranks(b, m, k)}
    BY <2>3
  <2> QED
    BY <1>3, <1>7, <2>4
<1> QED
  <2>1. told \cup {i} \subseteq Now /\ \A r \in out : \E k \in Now : r.id = EntryId(b, k)
    BY <1>1, <1>3
  <2>2. \A k \in told \cup {i} : b[k].enabled
    BY <1>3
  <2> QED
    BY <1>6, <1>7, <2>1, <2>2 DEF TellsSoFar, Now

(* The text told so far has the length that was counted, each id once.     *)
TextAddsUp ==
  /\ used = CharsOf(book, Told)
  /\ \A m, n \in 1..Len(activated) : activated[m].id = activated[n].id => m = n
  /\ \A n \in 1..Len(activated) : EntryId(book, activated[n].place) = activated[n].id

MemoriesAreBest ==
  \A l \in Layer :
    /\ recalled[l] = Best(Scores(l), matched[l], Limit(l)) /\ touched[l] = recalled[l]
    /\ contextStage = "done" => shown[l] = Best(Scores(l), recalled[l], Limit(l))

MemoriesTyped ==
  /\ match \in [matched["rag"] -> Quality] \cup {Unsearched}
  /\ \A f \in {matched, recalled, touched, shown} : f \in [Layer -> SUBSET Memory]

ContextInv ==
  /\ ContextTypeOK
  /\ contextStage = "load" => activated = <<>> /\ rejected = {} /\ used = 0
  /\ contextStage \in {"recall", "recallRag", "assemble", "done"} => candidates = <<>>
  /\ TextAddsUp
  /\ DistinctIn(book) => InTurn(book, candidates) /\ TellsSoFar(book, candidates, Told, rejected)
  /\ MemoriesAreBest

LEMMA LimitsAreTyped == \A l \in Layer : Limit(l) \in Nat
BY ContextAssumption DEF Limit

LEMMA NothingIsBest ==
  \A score : \A l \in Layer : Best(score, NoMemories[l], Limit(l)) = NoMemories[l]
BY DEF Best, NoMemories

LEMMA ScoresAreTyped ==
  ASSUME MemoriesTyped, NEW l \in Layer
  PROVE  \A m \in matched[l] : Scores(l)[m] \in Int
<1> TAKE m \in matched[l]
<1>1. Scores(l)[m] = Score(l, match, m) /\ m \in Memory
  BY DEF Scores, MemoriesTyped
<1>2. l = "rag" /\ match # Unsearched => match[m] \in Nat
  BY ContextAssumption DEF MemoriesTyped
<1>3. RankScore[m] \in Int /\ ScoreCap \in Nat
  BY <1>1, ContextAssumption
<1> QED
  BY <1>1, <1>2, <1>3 DEF Score, Layer

LEMMA NothingIsTold ==
  ASSUME NEW b \in Seq(BookEntry), activated = <<>>, rejected = {}, used = 0
  PROVE  /\ Told = {} /\ used = CharsOf(b, Told)
         /\ \A list : DOMAIN b \subseteq Left(list) => TellsSoFar(b, list, Told, rejected)
<1>1. Told = {}
  BY DEF Told, Range
<1>2. CharsOf(b, {}) = 0
  BY CharsAddUp
<1>3. \A list : DOMAIN b \subseteq Left(list) => TellsSoFar(b, list, {}, {})
  BY DEF TellsSoFar
<1> QED
  BY <1>1, <1>2, <1>3

LEMMA ContextStarts == ContextInit => ContextInv
<1> SUFFICES ASSUME ContextInit PROVE ContextInv
  OBVIOUS
<1>1. /\ contextStage = "load" /\ book = <<>> /\ heard = {} /\ candidates = <<>>
      /\ used = 0 /\ activated = <<>> /\ rejected = {}
      /\ matched = NoMemories /\ match = Unsearched /\ recalled = NoMemories
      /\ touched = NoMemories /\ shown = NoMemories
  BY DEF ContextInit
<1>2. book \in Seq(BookEntry) /\ DOMAIN book = {} /\ Len(candidates) = 0 /\ Len(activated) = 0
  BY <1>1
<1>3. ContextTypeOK
  <2>1. contextStage \in ContextStage /\ book \in Book \cup {<<>>} /\ heard \subseteq DOMAIN book
    BY <1>1 DEF ContextStage
  <2>2. /\ candidates \in Seq(DOMAIN book) /\ used \in 0..TotalChars
        /\ activated \in Seq([id: Int, place: DOMAIN book])
    BY <1>1, ContextAssumption
  <2>3. \A f \in {matched, recalled, touched, shown} : f \in [Layer -> SUBSET Memory]
    BY <1>1 DEF NoMemories
  <2> QED
    BY <1>1, <2>1, <2>2, <2>3 DEF ContextTypeOK
<1>4. TextAddsUp /\ TellsSoFar(book, candidates, Told, rejected)
  <2>1. DOMAIN book \subseteq Left(candidates)
    BY <1>2
  <2>2. used = CharsOf(book, Told) /\ TellsSoFar(book, candidates, Told, rejected)
    BY <1>1, <1>2, <2>1, NothingIsTold
  <2> QED
    BY <1>2, <2>2 DEF TextAddsUp
<1>5. InTurn(book, candidates)
  BY <1>2 DEF InTurn
<1>6. MemoriesAreBest
  BY <1>1, NothingIsBest DEF MemoriesAreBest
<1> QED
  BY <1>1, <1>3, <1>4, <1>5, <1>6 DEF ContextInv

LEMMA ContextForgets == ASSUME ContextForgotten PROVE ContextInv'
<1>1. ContextInit'
  BY DEF ContextInit, ContextForgotten
<1>2. ContextInit' => ContextInv'
  BY ContextStarts, PTL
<1> QED
  BY <1>1, <1>2

LEMMA ContextStays == ASSUME ContextInv, UNCHANGED contextVars PROVE ContextInv'
<1>1. /\ UNCHANGED <<contextStage, book, heard, candidates, used, activated, rejected>>
      /\ UNCHANGED <<matched, match, recalled, touched, shown>>
  BY DEF contextVars, bookVars, memoryVars
<1>2. Told' = Told
  BY <1>1 DEF Told
<1>3. ContextTypeOK'
  BY <1>1 DEF ContextInv, ContextTypeOK
<1>4. TextAddsUp' /\ MemoriesAreBest'
  BY <1>1, <1>2 DEF ContextInv, TextAddsUp, MemoriesAreBest, Scores
<1> QED
  BY <1>1, <1>2, <1>3, <1>4 DEF ContextInv

LEMMA ContextIsTyped ==
  ASSUME ContextInv
  PROVE  /\ book \in Seq(BookEntry) /\ candidates \in Seq(DOMAIN book)
         /\ used \in Nat /\ used <= TotalChars /\ TotalChars \in Nat
         /\ activated \in Seq([id: Int, place: DOMAIN book])
         /\ Len(activated) \in Nat
         /\ \A n \in 1..Len(activated) : activated[n].place \in DOMAIN book
         /\ Told = {activated[n].place : n \in 1..Len(activated)}
         /\ Told \subseteq DOMAIN book
<1>1. book \in Seq(BookEntry)
  BY ContextAssumption DEF ContextInv, ContextTypeOK
<1>2. /\ candidates \in Seq(DOMAIN book) /\ used \in 0..TotalChars /\ TotalChars \in Nat
      /\ activated \in Seq([id: Int, place: DOMAIN book])
  BY ContextAssumption DEF ContextInv, ContextTypeOK
<1>3. /\ Len(activated) \in Nat /\ DOMAIN activated = 1..Len(activated)
      /\ \A n \in 1..Len(activated) : activated[n].place \in DOMAIN book
  <2> DEFINE Pair == [id: Int, place: DOMAIN book]
  <2>1. \A a \in Pair : a.place \in DOMAIN book
    OBVIOUS
  <2>2. activated \in Seq(Pair)
    BY <1>2
  <2> HIDE DEF Pair
  <2>3. /\ Len(activated) \in Nat /\ DOMAIN activated = 1..Len(activated)
        /\ \A n \in 1..Len(activated) : activated[n] \in Pair
    BY <2>2
  <2> QED
    BY <2>1, <2>3
<1>4. Told = {activated[n].place : n \in 1..Len(activated)}
  BY <1>3 DEF Told, Range
<1> QED
  BY <1>1, <1>2, <1>3, <1>4

LEMMA BookLoaded == ASSUME ContextInv, LoadBook PROVE ContextInv'
<1>1. /\ contextStage = "load" /\ contextStage' = "resolve"
      /\ book' \in Book /\ heard' \subseteq DOMAIN book' /\ candidates' = Sorted(book')
      /\ UNCHANGED <<used, activated, rejected, matched, match, recalled, touched, shown>>
  BY DEF LoadBook, memoryVars
<1>2. activated = <<>> /\ rejected = {} /\ used = 0
  BY <1>1 DEF ContextInv
<1>3. book' \in Seq(BookEntry) /\ Len(activated) = 0
  BY <1>1, <1>2, ContextAssumption
<1>4. /\ candidates' \in Seq(DOMAIN book') /\ Len(candidates') = Len(book')
      /\ \A m, n \in 1..Len(book') : m < n => Ahead(book', candidates'[m], candidates'[n])
      /\ \A i \in DOMAIN book' : \E n \in 1..Len(book') : i = candidates'[n]
  BY <1>1, <1>3, SortedRanks
<1>5. DOMAIN book' \subseteq Left(candidates')
  BY <1>4 DEF Left
<1>6. Told' = Told /\ Told = {} /\ used = CharsOf(book', Told)
      /\ TellsSoFar(book', candidates', Told, rejected)
  BY <1>1, <1>2, <1>3, <1>5, NothingIsTold DEF Told
<1>7. ContextTypeOK'
  <2>1. contextStage' \in ContextStage /\ book' \in Book \cup {<<>>}
    BY <1>1 DEF ContextStage
  <2>2. activated' \in Seq([id: Int, place: DOMAIN book'])
    BY <1>1, <1>2
  <2> QED
    BY <1>1, <1>4, <2>1, <2>2 DEF ContextInv, ContextTypeOK
<1>8. TextAddsUp'
  BY <1>1, <1>2, <1>3, <1>6 DEF TextAddsUp
<1>9. DistinctIn(book') => InTurn(book', candidates')
  <2> SUFFICES ASSUME DistinctIn(book') PROVE InTurn(book', candidates')
    OBVIOUS
  <2>1. \A m \in 1..Len(book') : candidates'[m] \in DOMAIN book'
    BY <1>4, SMTT(30)
  <2> QED
    BY <1>3, <1>4, <1>5, <2>1, AheadOutranks DEF InTurn
<1>10. MemoriesAreBest'
  BY <1>1 DEF ContextInv, MemoriesAreBest, Scores
<1> QED
  BY <1>1, <1>6, <1>7, <1>8, <1>9, <1>10 DEF ContextInv

Reason == {"disabled", "unsupported", "uncalled", "budget", "duplicate"}

(* What every way to resolve an entry has in common.                       *)
Resolving ==
  /\ contextStage = "resolve" /\ candidates # <<>>
  /\ candidates' = Tail(candidates)
  /\ UNCHANGED <<contextStage, book, heard, memoryVars>>

LEMMA HereIs ==
  ASSUME ContextInv, Resolving
  PROVE  /\ Here \in DOMAIN book /\ candidates' \in Seq(DOMAIN book)
         /\ Place(book, Here) \in DOMAIN book /\ EntryId(book, Place(book, Here)) = Id
         /\ Id \in Int /\ Found = book[Place(book, Here)] /\ Excerpt(Found) \in Nat
         /\ DistinctIn(book) =>
              /\ Place(book, Here) = Here
              /\ Left(candidates) = Left(candidates') \cup {Here} /\ Here \notin Left(candidates')
              /\ InTurn(book, candidates) /\ InTurn(book, candidates')
              /\ TellsSoFar(book, candidates, Told, rejected)
<1>1. book \in Seq(BookEntry) /\ candidates \in Seq(DOMAIN book) /\ candidates # <<>>
  BY ContextIsTyped DEF Resolving
<1>2. /\ Here \in DOMAIN book /\ candidates' \in Seq(DOMAIN book)
      /\ Left(candidates) = Left(candidates') \cup {Here}
      /\ InTurn(book, candidates) => Here \notin Left(candidates') /\ InTurn(book, candidates')
  BY <1>1, HeadIsNext DEF Here, Resolving
<1>3. /\ Place(book, Here) \in DOMAIN book /\ EntryId(book, Place(book, Here)) = Id
      /\ Id \in Int /\ Found = book[Place(book, Here)]
  BY <1>1, <1>2, PlaceIsLast, EntriesAreTyped DEF Id, Found, Entry
<1>4. Excerpt(Found) \in Nat
  BY <1>1, <1>3, EntriesAreTyped
<1>5. DistinctIn(book) => Place(book, Here) = Here
  BY <1>1, <1>2, AheadOutranks
<1> QED
  BY <1>2, <1>3, <1>4, <1>5 DEF ContextInv

LEMMA LeftOut ==
  ASSUME ContextInv, Resolving, NEW reason \in Reason, LeaveOut(reason),
         reason = "budget" => ~Fits
  PROVE  ContextInv'
<1>1. /\ rejected' = {r \in rejected : r.id # Id} \cup {[id |-> Id, reason |-> reason]}
      /\ contextStage = "resolve" /\ UNCHANGED <<used, activated, contextStage, book, heard>>
      /\ UNCHANGED <<matched, match, recalled, touched, shown>>
  BY DEF LeaveOut, Resolving, memoryVars
<1>2. Told' = Told
  BY <1>1 DEF Told
<1>3. ContextTypeOK'
  <2>1. \A r \in rejected' : r.reason \in Reason
    BY <1>1 DEF ContextInv, ContextTypeOK, Reason
  <2>2. candidates' \in Seq(DOMAIN book')
    BY <1>1, HereIs
  <2> QED
    BY <1>1, <2>1, <2>2 DEF ContextInv, ContextTypeOK, Reason
<1>4. TextAddsUp' /\ MemoriesAreBest'
  BY <1>1, <1>2 DEF ContextInv, TextAddsUp, MemoriesAreBest, Scores
<1>5. ASSUME DistinctIn(book)
      PROVE  InTurn(book, candidates') /\ TellsSoFar(book, candidates', Told, rejected')
  <2>1. /\ Here \in DOMAIN book /\ Found = book[Here] /\ Id = EntryId(book, Here)
        /\ Left(candidates) = Left(candidates') \cup {Here} /\ Here \notin Left(candidates')
        /\ InTurn(book, candidates) /\ InTurn(book, candidates')
        /\ TellsSoFar(book, candidates, Told, rejected)
    BY <1>5, HereIs DEF Id
  <2>2. reason = "budget" => CharsOf(book, Told) + Excerpt(book[Here]) > TotalChars
    <3>1. used = CharsOf(book, Told) /\ used \in Nat /\ TotalChars \in Nat /\ Excerpt(Found) \in Nat
      BY ContextIsTyped, HereIs DEF ContextInv, TextAddsUp
    <3> QED
      BY <2>1, <3>1 DEF Fits
  <2>3. book \in Seq(BookEntry)
    BY ContextIsTyped
  <2>4. rejected' = {r \in rejected : r.id # EntryId(book, Here)}
                       \cup {[id |-> EntryId(book, Here), reason |-> reason]}
    BY <1>1, <2>1
  <2> DEFINE more == {r \in rejected : r.id # EntryId(book, Here)}
                       \cup {[id |-> EntryId(book, Here), reason |-> reason]}
  <2>5. TellsSoFar(book, candidates', Told, more)
    BY <1>5, <2>1, <2>2, <2>3, TellsWithout
  <2>6. rejected' = more
    BY <2>4
  <2> HIDE DEF more
  <2> QED
    BY <2>1, <2>5, <2>6
<1> QED
  BY <1>1, <1>2, <1>3, <1>4, <1>5 DEF ContextInv

LEMMA Activated ==
  ASSUME ContextInv, Resolving, Activate, Enabled, Fits, NotYet
  PROVE  ContextInv'
<1> DEFINE place == Place(book, Here)
           entry == [id |-> Id, place |-> place]
           m == Len(activated)
<1>1. /\ activated' = Append(activated, entry) /\ used' = used + Excerpt(Found)
      /\ contextStage = "resolve" /\ UNCHANGED <<rejected, contextStage, book, heard>>
      /\ UNCHANGED <<matched, match, recalled, touched, shown>>
  BY DEF Activate, Resolving, memoryVars
<1>2. /\ book \in Seq(BookEntry) /\ used \in Nat /\ TotalChars \in Nat
      /\ activated \in Seq([id: Int, place: DOMAIN book]) /\ m \in Nat
      /\ \A n \in 1..m : activated[n].place \in DOMAIN book
      /\ Told = {activated[n].place : n \in 1..m} /\ Told \subseteq DOMAIN book
  BY ContextIsTyped
<1>3. /\ Here \in DOMAIN book /\ candidates' \in Seq(DOMAIN book)
      /\ place \in DOMAIN book /\ EntryId(book, place) = Id /\ Id \in Int
      /\ Found = book[place] /\ Excerpt(Found) \in Nat
  BY HereIs
<1> HIDE DEF place
<1>4. /\ entry \in [id: Int, place: DOMAIN book] /\ entry.id = Id /\ entry.place = place
  BY <1>3
<1> HIDE DEF entry
<1>5. /\ activated' \in Seq([id: Int, place: DOMAIN book]) /\ Len(activated') = m + 1
      /\ activated'[m + 1] = entry /\ \A n \in 1..m : activated'[n] = activated[n]
      /\ DOMAIN activated = 1..m /\ DOMAIN activated' = 1..(m + 1)
  <2> DEFINE Pair == [id: Int, place: DOMAIN book]
  <2>1. activated \in Seq(Pair) /\ entry \in Pair
    BY <1>2, <1>4
  <2> HIDE DEF Pair
  <2>2. /\ activated' \in Seq(Pair) /\ Len(activated') = m + 1
        /\ activated'[m + 1] = entry /\ \A n \in 1..m : activated'[n] = activated[n]
    BY <1>1, <2>1, AppendProperties
  <2>3. DOMAIN activated = 1..m /\ DOMAIN activated' = 1..(m + 1)
    BY <2>1, <2>2
  <2> QED
    BY <2>2, <2>3 DEF Pair
<1>6. \A n \in 1..m : activated[n].id # Id
  BY <1>5 DEF NotYet
<1>7. Told' = Told \cup {place} /\ place \notin Told
  <2>1. Told' = {activated'[n].place : n \in 1..(m + 1)}
    BY <1>5 DEF Told, Range
  <2>2. \A n \in 1..(m + 1) : n \in 1..m \/ n = m + 1
    BY <1>2
  <2>3. m + 1 \in 1..(m + 1) /\ \A n \in 1..m : n \in 1..(m + 1)
    BY <1>2
  <2>4. Told' = Told \cup {place}
    BY <1>2, <1>4, <1>5, <2>1, <2>2, <2>3
  <2>5. \A n \in 1..m : EntryId(book, activated[n].place) = activated[n].id
    BY DEF ContextInv, TextAddsUp
  <2>6. place \notin Told
    BY <1>2, <1>3, <1>6, <2>5
  <2> QED
    BY <2>4, <2>6
<1>8. used' = CharsOf(book, Told') /\ used' \in 0..TotalChars
  <2>1. used = CharsOf(book, Told)
    BY DEF ContextInv, TextAddsUp
  <2>2. CharsOf(book, Told \cup {place}) = CharsOf(book, Told) + Excerpt(book[place])
    BY <1>2, <1>3, <1>7, CharsAddUp
  <2>3. used + Excerpt(Found) <= TotalChars
    BY DEF Fits
  <2> QED
    BY <1>1, <1>2, <1>3, <1>7, <2>1, <2>2, <2>3
<1>9. TextAddsUp'
  <2>1. \A n \in 1..(m + 1) : n \in 1..m \/ n = m + 1
    BY <1>2
  <2>2. \A k, n \in 1..(m + 1) : activated'[k].id = activated'[n].id => k = n
    BY <1>4, <1>5, <1>6, <2>1, SMTT(30) DEF ContextInv, TextAddsUp
  <2>3. \A n \in 1..(m + 1) : EntryId(book, activated'[n].place) = activated'[n].id
    BY <1>3, <1>4, <1>5, <2>1 DEF ContextInv, TextAddsUp
  <2> QED
    BY <1>1, <1>5, <1>8, <2>2, <2>3 DEF TextAddsUp
<1>10. ContextTypeOK'
  BY <1>1, <1>3, <1>5, <1>8 DEF ContextInv, ContextTypeOK
<1>11. ASSUME DistinctIn(book)
       PROVE  InTurn(book, candidates') /\ TellsSoFar(book, candidates', Told', rejected)
  <2>1. /\ place = Here
        /\ Left(candidates) = Left(candidates') \cup {Here} /\ Here \notin Left(candidates')
        /\ InTurn(book, candidates) /\ InTurn(book, candidates')
        /\ TellsSoFar(book, candidates, Told, rejected)
    BY <1>11, HereIs DEF place
  <2>2. book[Here].enabled
    BY DEF Enabled
  <2> QED
    BY <1>2, <1>3, <1>7, <1>11, <2>1, <2>2, TellsAnother
<1>12. MemoriesAreBest'
  BY <1>1 DEF ContextInv, MemoriesAreBest, Scores
<1> QED
  BY <1>1, <1>9, <1>10, <1>11, <1>12 DEF ContextInv

LEMMA MemoriesRecalled ==
  ASSUME ContextInv, RecallActive \/ RecallRag
  PROVE  MemoriesAreBest' /\ MemoriesTyped'
<1>0. PICK l \in Layer : Recall(l) /\ Matches(l) /\ (l = "active" => match' = match)
                        /\ (l = "rag" => match' \in [matched'["rag"] -> Quality] \cup {Unsearched})
  BY DEF RecallActive, RecallRag, Layer
<1>a. contextStage' # "done"
  BY DEF RecallActive, RecallRag
<1>1. PICK set \in SUBSET Memory : matched' = [matched EXCEPT ![l] = set]
  BY <1>0 DEF Matches
<1>2. /\ recalled' = [recalled EXCEPT ![l] = Best(Scores(l)', matched'[l], Limit(l))]
      /\ touched' = [touched EXCEPT ![l] = recalled'[l]] /\ shown' = shown
  BY <1>0 DEF Recall
<1>3. /\ matched \in [Layer -> SUBSET Memory] /\ recalled \in [Layer -> SUBSET Memory]
      /\ touched \in [Layer -> SUBSET Memory] /\ shown \in [Layer -> SUBSET Memory]
      /\ match \in [matched["rag"] -> Quality] \cup {Unsearched}
  BY DEF ContextInv, ContextTypeOK
<1>4. matched' \in [Layer -> SUBSET Memory] /\ matched'[l] = set
      /\ \A k \in Layer : k # l => matched'[k] = matched[k]
  BY <1>1, <1>3
<1>5. Best(Scores(l)', matched'[l], Limit(l)) \subseteq Memory
  BY <1>4 DEF Best
<1>6. /\ recalled' \in [Layer -> SUBSET Memory]
      /\ recalled'[l] = Best(Scores(l)', matched'[l], Limit(l))
      /\ \A k \in Layer : k # l => recalled'[k] = recalled[k]
  BY <1>2, <1>3, <1>5
<1>7. /\ touched' \in [Layer -> SUBSET Memory] /\ touched'[l] = recalled'[l]
      /\ \A k \in Layer : k # l => touched'[k] = touched[k]
  BY <1>2, <1>3, <1>6
<1>8. ASSUME NEW k \in Layer, k # l PROVE Scores(k)' = Scores(k)
  <2>1. \A m : Score(k, match', m) = Score(k, match, m)
    BY <1>0, <1>8 DEF Score, Layer
  <2> QED
    BY <1>4, <1>8, <2>1 DEF Scores
<1>9. ASSUME NEW k \in Layer
      PROVE  recalled'[k] = Best(Scores(k)', matched'[k], Limit(k)) /\ touched'[k] = recalled'[k]
  <2>1. CASE k = l
    BY <1>6, <1>7, <2>1
  <2>2. CASE k # l
    BY <1>4, <1>6, <1>7, <1>8, <2>2 DEF ContextInv, MemoriesAreBest
  <2> QED
    BY <2>1, <2>2
<1>10. match' \in [matched'["rag"] -> Quality] \cup {Unsearched}
  BY <1>0, <1>3, <1>4 DEF Layer
<1>11. MemoriesTyped'
  BY <1>2, <1>3, <1>4, <1>6, <1>7, <1>10 DEF MemoriesTyped
<1> QED
  BY <1>9, <1>11, <1>a DEF MemoriesAreBest

(* The steps that leave the worldbook alone.                               *)
LEMMA BookStays ==
  ASSUME ContextInv, UNCHANGED bookVars, contextStage' \in ContextStage \ {"load"},
         contextStage' = "resolve" \/ contextStage' = "failed" \/ candidates = <<>>,
         MemoriesAreBest', MemoriesTyped'
  PROVE  ContextInv'
<1>1. UNCHANGED <<book, heard, candidates, used, activated, rejected>>
  BY DEF bookVars
<1>2. Told' = Told
  BY <1>1 DEF Told
<1>3. ContextTypeOK'
  BY <1>1 DEF ContextInv, ContextTypeOK, MemoriesTyped
<1>4. TextAddsUp'
  BY <1>1, <1>2 DEF ContextInv, TextAddsUp
<1> QED
  BY <1>1, <1>2, <1>3, <1>4 DEF ContextInv

LEMMA ContextMoves == ASSUME ContextInv, ContextNext PROVE ContextInv'
<1>0. MemoriesTyped
  BY DEF ContextInv, ContextTypeOK, MemoriesTyped
<1>1. CASE LoadFails
  <2>1. /\ contextStage' = "failed" /\ contextStage = "load"
        /\ UNCHANGED <<bookVars, matched, match, recalled, touched, shown>>
    BY <1>1 DEF LoadFails, memoryVars
  <2>2. MemoriesAreBest'
    BY <2>1 DEF ContextInv, MemoriesAreBest, Scores
  <2>3. MemoriesTyped'
    BY <1>0, <2>1 DEF MemoriesTyped
  <2> QED
    BY <2>1, <2>2, <2>3, BookStays DEF ContextStage
<1>2. CASE LoadBook
  BY <1>2, BookLoaded
<1>3. CASE ResolveEntry
  <2>1. Resolving
    BY <1>3 DEF ResolveEntry, Resolving
  <2>2. \/ \E reason \in Reason : LeaveOut(reason) /\ (reason = "budget" => ~Fits)
        \/ Enabled /\ Fits /\ NotYet /\ Activate
    BY <1>3 DEF ResolveEntry, Reason
  <2> QED
    BY <2>1, <2>2, LeftOut, Activated
<1>4. CASE EndResolve
  <2>1. /\ contextStage' = "recall" /\ candidates = <<>> /\ contextStage = "resolve"
        /\ UNCHANGED <<bookVars, matched, match, recalled, touched, shown>>
    BY <1>4 DEF EndResolve, memoryVars
  <2>2. MemoriesAreBest'
    BY <2>1 DEF ContextInv, MemoriesAreBest, Scores
  <2>3. MemoriesTyped'
    BY <1>0, <2>1 DEF MemoriesTyped
  <2> QED
    BY <2>1, <2>2, <2>3, BookStays DEF ContextStage
<1>5. CASE RecallActive \/ RecallRag
  <2>1. /\ contextStage \in {"recall", "recallRag"} /\ contextStage' \in {"recallRag", "assemble"}
        /\ UNCHANGED bookVars
    BY <1>5 DEF RecallActive, RecallRag, Recall
  <2>2. candidates = <<>>
    BY <2>1 DEF ContextInv
  <2>3. MemoriesAreBest' /\ MemoriesTyped'
    BY <1>5, MemoriesRecalled
  <2> QED
    BY <2>1, <2>2, <2>3, BookStays DEF ContextStage
<1>6. CASE Assemble
  <2>1. /\ contextStage = "assemble" /\ contextStage' = "done" /\ candidates = <<>>
        /\ shown' = [l \in Layer |-> Best(Scores(l), recalled[l], Limit(l))]
        /\ UNCHANGED <<bookVars, matched, match, recalled, touched>>
    BY <1>6 DEF Assemble, ContextInv
  <2>2. MemoriesAreBest'
    BY <2>1 DEF ContextInv, MemoriesAreBest, Scores
  <2>3. shown' \in [Layer -> SUBSET Memory]
    <3>1. \A l \in Layer : Best(Scores(l), recalled[l], Limit(l)) \subseteq Memory
      BY <1>0 DEF Best, MemoriesTyped
    <3> QED
      BY <2>1, <3>1
  <2>4. MemoriesTyped'
    BY <1>0, <2>1, <2>3 DEF MemoriesTyped
  <2> QED
    BY <2>1, <2>2, <2>4, BookStays DEF ContextStage
<1> QED
  BY <1>1, <1>2, <1>3, <1>4, <1>5, <1>6 DEF ContextNext

LEMMA ContextDelivers == ASSUME ContextInv PROVE BestContext
<1> SUFFICES ASSUME contextStage = "done" PROVE BestContext
  BY DEF BestContext
<1>1. /\ book \in Seq(BookEntry) /\ used <= TotalChars
      /\ Len(activated) \in Nat
      /\ Told = {activated[n].place : n \in 1..Len(activated)}
  BY ContextIsTyped
<1>2. CharsOf(book, Told) <= TotalChars
  BY <1>1 DEF ContextInv, TextAddsUp
<1>3. Cardinality(Told) = Len(activated)
  <2> DEFINE m == Len(activated)
             f == [n \in 1..m |-> activated[n].place]
  <2>1. \A k, n \in 1..m : activated[k].place = activated[n].place => k = n
    BY DEF ContextInv, TextAddsUp
  <2>2. f \in Bijection(1..m, Told)
    <3>1. f \in [1..m -> Told] /\ \A x \in Told : \E n \in 1..m : f[n] = x
      BY <1>1
    <3>2. \A k, n \in 1..m : f[k] = f[n] => k = n
      BY <2>1
    <3> HIDE DEF f
    <3> QED
      BY <3>1, <3>2 DEF Bijection, Injection, Surjection, IsInjective
  <2>a. m \in Nat
    BY <1>1
  <2> HIDE DEF f, m
  <2>3. IsFiniteSet(1..m) /\ Cardinality(1..m) = m
    BY <2>a, FS_Interval
  <2>4. Cardinality(Told) = m
    BY <2>2, <2>3, FS_Bijection DEF ExistsBijection
  <2> QED
    BY <2>4 DEF m
<1>4. DistinctIds => BookIsTold
  <2> SUFFICES ASSUME DistinctIds PROVE BookIsTold
    OBVIOUS
  <2>1. candidates = <<>> /\ TellsSoFar(book, candidates, Told, rejected)
    BY DEF ContextInv, DistinctIds, DistinctIn
  <2>2. DOMAIN book \ Left(candidates) = DOMAIN book
    <3>1. Len(candidates) = 0 /\ 1..0 = {}
      BY <2>1
    <3>2. Left(candidates) = {}
      BY <3>1 DEF Left
    <3> QED
      BY <3>2
  <2> QED
    BY <2>1, <2>2 DEF TellsSoFar, BookIsTold
<1>5. BestAreShown
  <2> SUFFICES ASSUME NEW l \in Layer
               PROVE  /\ shown[l] \subseteq matched[l] /\ Cardinality(shown[l]) <= Limit(l)
                      /\ \A m \in matched[l] \ shown[l] :
                           Cardinality(shown[l]) = Limit(l) /\ \A n \in shown[l] : Precedes(l, n, m)
                      /\ touched[l] = shown[l]
    BY DEF BestAreShown
  <2>1. matched[l] \in SUBSET Memory /\ Limit(l) \in Nat /\ MemoriesTyped
    BY LimitsAreTyped DEF ContextInv, ContextTypeOK, MemoriesTyped
  <2>2. /\ recalled[l] = Best(Scores(l), matched[l], Limit(l)) /\ touched[l] = recalled[l]
        /\ shown[l] = Best(Scores(l), recalled[l], Limit(l))
    BY DEF ContextInv, MemoriesAreBest
  <2>3. /\ Best(Scores(l), matched[l], Limit(l)) \subseteq matched[l]
        /\ Cardinality(Best(Scores(l), matched[l], Limit(l))) <= Limit(l)
        /\ \A m \in matched[l] \ Best(Scores(l), matched[l], Limit(l)) :
             /\ Cardinality(Best(Scores(l), matched[l], Limit(l))) = Limit(l)
             /\ \A n \in Best(Scores(l), matched[l], Limit(l)) : SortsBefore(Scores(l), n, m)
        /\ Best(Scores(l), Best(Scores(l), matched[l], Limit(l)), Limit(l))
              = Best(Scores(l), matched[l], Limit(l))
    BY <2>1, ScoresAreTyped, BestAreBest
  <2>4. shown[l] = Best(Scores(l), matched[l], Limit(l)) /\ touched[l] = shown[l]
    BY <2>2, <2>3
  <2>5. ASSUME NEW m \in matched[l], NEW n \in matched[l], SortsBefore(Scores(l), n, m)
        PROVE  Precedes(l, n, m)
    <3>1. /\ Scores(l)[m] = Score(l, match, m) /\ Scores(l)[n] = Score(l, match, n)
      BY DEF Scores
    <3>2. CASE l = "active"
      BY <2>5, <3>1, <3>2 DEF SortsBefore, Score, Precedes
    <3>3. CASE l = "rag" /\ match = Unsearched
      BY <2>5, <3>1, <3>3 DEF SortsBefore, Score, Precedes
    <3>4. CASE l = "rag" /\ match # Unsearched
      <4>1. match[m] = match[n] => Scores(l)[m] = Scores(l)[n]
        BY <3>1, <3>4 DEF Score
      <4>2. Scores(l)[m] \in Int
        BY <2>1, ScoresAreTyped
      <4>3. match[n] = match[m] => n > m
        BY <2>5, <4>1, <4>2 DEF SortsBefore
      <4> QED
        BY <3>4, <4>3 DEF Precedes
    <3> QED
      BY <3>2, <3>3, <3>4 DEF Layer
  <2> QED
    BY <2>3, <2>4, <2>5
<1> QED
  BY <1>2, <1>3, <1>4, <1>5 DEF BestContext

-----------------------------------------------------------------------------
(* The whole turn.  A component keeps its own invariant while another is   *)
(* at work, and starts from its first state when the turn reaches it.      *)

GenerationInv ==
  /\ driver \in {"engine", "orchestrator"} /\ phase \in Phase
  /\ ContextInv /\ ToolInv /\ AgentInv /\ DraftInv
  /\ WavesInv /\ ReviewInv /\ TurnInv

LEMMA GenerationStarts == Init => GenerationInv
BY ContextStarts, ToolStarts, AgentStarts, DraftStarts, WavesStart, ReviewStarts, TurnStarts
   DEF Init, GenerationInv, Phase

LEMMA PhasesAreTyped ==
  ASSUME GenerationInv, [Next]_vars
  PROVE  driver' \in {"engine", "orchestrator"} /\ phase' \in Phase
<1>0. driver \in {"engine", "orchestrator"} /\ phase \in Phase
  BY DEF GenerationInv
<1>1. CASE UNCHANGED <<driver, phase>>
  BY <1>0, <1>1
<1>2. CASE \E next \in Phase : Goto(next)
  BY <1>0, <1>2 DEF Goto
<1> QED
  BY <1>1, <1>2 DEF Next, Step, vars, StartEngine, ContextAtWork, ContextDone, ToolsAtWork,
     ToolsDone, AgentsAtWork, AgentsDone, WriterAtWork, WriterDone, StartOrchestrator,
     WavesAtWork, WavesDone, ReviewAtWork, ReviewDone, TurnAtWork, OrchestratorRaises,
     OthersAtWork, Phase

LEMMA GenerationMoves == ASSUME GenerationInv, [Next]_vars PROVE GenerationInv'
<1>0. ContextInv /\ ToolInv /\ AgentInv /\ DraftInv /\ WavesInv /\ ReviewInv /\ TurnInv
  BY DEF GenerationInv
<1>p. driver' \in {"engine", "orchestrator"} /\ phase' \in Phase
  BY PhasesAreTyped
<1>a. /\ UNCHANGED contextVars => ContextInv'
      /\ UNCHANGED toolVars => ToolInv'
      /\ UNCHANGED agentVars => AgentInv'
      /\ UNCHANGED draftVars => DraftInv'
      /\ UNCHANGED waveVars => WavesInv'
      /\ UNCHANGED reviewVars => ReviewInv'
      /\ UNCHANGED turnVars => TurnInv'
  BY <1>0, ContextStays, ToolStays, AgentStays, DraftStays, WavesStay, ReviewStays, TurnStays
<1>1. CASE StartEngine \/ WriterDone
  <2>1. UNCHANGED <<contextVars, toolVars, agentVars, draftVars, waveVars, reviewVars, turnVars>>
    BY <1>1 DEF StartEngine, WriterDone
  <2> QED
    BY <1>p, <1>a, <2>1 DEF GenerationInv
<1>12. CASE ContextAtWork \/ ContextDone
  <2>1. ContextNext \/ ContextForgotten
    BY <1>12 DEF ContextAtWork, ContextDone
  <2>2. UNCHANGED <<toolVars, agentVars, draftVars, waveVars, reviewVars, turnVars>>
    BY <1>12 DEF ContextAtWork, ContextDone
  <2>3. ContextInv'
    BY <1>0, <2>1, ContextMoves, ContextForgets
  <2> QED
    BY <1>p, <1>a, <2>2, <2>3 DEF GenerationInv
<1>2. CASE ToolsAtWork \/ ToolsDone
  <2>1. ToolNext \/ ToolForgotten
    BY <1>2 DEF ToolsAtWork, ToolsDone
  <2>2. UNCHANGED <<contextVars, agentVars, draftVars, waveVars, reviewVars, turnVars>>
    BY <1>2 DEF ToolsAtWork, ToolsDone
  <2>3. ToolInv'
    BY <1>0, <2>1, ToolMoves, ToolForgets
  <2> QED
    BY <1>p, <1>a, <2>2, <2>3 DEF GenerationInv
<1>3. CASE AgentsAtWork \/ AgentsDone
  <2>1. AgentNext \/ AgentForgotten
    BY <1>3 DEF AgentsAtWork, AgentsDone
  <2>2. UNCHANGED <<contextVars, toolVars, draftVars, waveVars, reviewVars, turnVars>>
    BY <1>3 DEF AgentsAtWork, AgentsDone
  <2>3. AgentInv'
    BY <1>0, <2>1, AgentMoves, AgentForgets
  <2> QED
    BY <1>p, <1>a, <2>2, <2>3 DEF GenerationInv
<1>4. CASE WriterAtWork
  <2>1. DraftNext /\ UNCHANGED <<contextVars, toolVars, agentVars, waveVars, reviewVars, turnVars>>
    BY <1>4 DEF WriterAtWork
  <2>2. DraftInv'
    BY <1>0, <2>1, DraftMoves
  <2> QED
    BY <1>p, <1>a, <2>1, <2>2 DEF GenerationInv
<1>5. CASE StartOrchestrator \/ TurnAtWork \/ OthersAtWork
  <2>1. BuildSnapshot \/ TurnStep \/ OtherTurns
    BY <1>5 DEF StartOrchestrator, TurnAtWork, OthersAtWork
  <2>2. UNCHANGED <<contextVars, toolVars, agentVars, draftVars, waveVars, reviewVars>>
    BY <1>5 DEF StartOrchestrator, TurnAtWork, OthersAtWork
  <2>3. TurnInv'
    BY <1>0, <2>1, TurnMoves
  <2> QED
    BY <1>p, <1>a, <2>2, <2>3 DEF GenerationInv
<1>6. CASE WavesAtWork
  <2>1. WavesNext /\ UNCHANGED <<contextVars, toolVars, agentVars, draftVars, reviewVars, turnVars>>
    BY <1>6 DEF WavesAtWork
  <2>2. WavesInv'
    BY <1>0, <2>1, WavesMove
  <2> QED
    BY <1>p, <1>a, <2>1, <2>2 DEF GenerationInv
<1>7. CASE WavesDone
  <2>1. PICK s \in [1..Cardinality(Suggested) -> Suggestion] : StartMerge(s, policy # NoPolicy)
    BY <1>7 DEF WavesDone
  <2>2. WavesForgotten /\ UNCHANGED <<contextVars, toolVars, agentVars, draftVars, turnVars>>
    BY <1>7 DEF WavesDone
  <2>3. s \in Seq(Suggestion) /\ (policy # NoPolicy) \in BOOLEAN
    BY <1>0, <2>1, SuggestionsAreListed
  <2>4. ReviewInv'
    BY <1>0, <2>1, <2>3, ReviewBegins
  <2>5. WavesInv'
    BY <2>2, WavesForget
  <2> QED
    BY <1>p, <1>a, <2>2, <2>4, <2>5 DEF GenerationInv
<1>8. CASE ReviewAtWork
  <2>1. ReviewStep /\ UNCHANGED <<contextVars, toolVars, agentVars, draftVars, waveVars, turnVars>>
    BY <1>8 DEF ReviewAtWork
  <2>2. ReviewInv'
    BY <1>0, <2>1, ReviewMoves
  <2> QED
    BY <1>p, <1>a, <2>1, <2>2 DEF GenerationInv
<1>9. CASE ReviewDone
  <2>1. /\ StartWriting /\ ReviewForgotten
        /\ UNCHANGED <<contextVars, toolVars, agentVars, draftVars, waveVars>>
    BY <1>9 DEF ReviewDone
  <2>2. TurnInv' /\ ReviewInv'
    BY <1>0, <2>1, TurnMoves, ReviewForgets
  <2> QED
    BY <1>p, <1>a, <2>1, <2>2 DEF GenerationInv
<1>10. CASE OrchestratorRaises
  <2>1. /\ Raise /\ WavesForgotten /\ ReviewForgotten
        /\ UNCHANGED <<contextVars, toolVars, agentVars, draftVars>>
    BY <1>10 DEF OrchestratorRaises
  <2>2. TurnInv' /\ WavesInv' /\ ReviewInv'
    BY <1>0, <2>1, TurnMoves, WavesForget, ReviewForgets
  <2> QED
    BY <1>p, <1>a, <2>1, <2>2 DEF GenerationInv
<1>11. CASE UNCHANGED vars
  BY <1>p, <1>a, <1>11 DEF vars, GenerationInv
<1> QED
  BY <1>1, <1>2, <1>3, <1>4, <1>5, <1>6, <1>7, <1>8, <1>9, <1>10, <1>11, <1>12 DEF Next, Step

(* Whatever the tools, the agents, the writer and other turns do, every    *)
(* component keeps its inductive invariant through the turn.               *)
THEOREM GenerationInvariant == Spec => []GenerationInv
<1>1. GenerationInv /\ [Next]_vars => GenerationInv'
  BY GenerationMoves
<1> QED
  BY GenerationStarts, <1>1, PTL DEF Spec

(* The variables keep their types; so the used budget of a worldbook never *)
(* passes the limit, and every suggestion merged is in one of the lists.   *)
THEOREM TypeCorrect == Spec => []TypeOK
<1>1. GenerationInv => TypeOK
  BY DEF GenerationInv, TypeOK, ContextInv, ToolInv, AgentInv, DraftInv, WavesInv, ReviewInv,
         TurnInv
<1> QED
  BY GenerationInvariant, <1>1, PTL

(* What the director and the writer are told stays within the budget of    *)
(* the resolver.  Where no two entries share an id, the budget only leaves *)
(* out what does not fit beside the entries that outrank it, and nothing   *)
(* is left out without a reason.  Of the active memories found the most    *)
(* important are shown, of those of the RAG layer the most important among *)
(* equal matches.                                                          *)
THEOREM TheBestIsTold == Spec => []BestContext
<1>1. GenerationInv => BestContext
  BY ContextDelivers DEF GenerationInv
<1> QED
  BY GenerationInvariant, <1>1, PTL

(* The engine hands a text to the gate together with the receipt of the    *)
(* call that wrote it: the last call that was not blank, and a text that   *)
(* is still not good has used up the revisions.                            *)
THEOREM DraftKeepsItsReceipt == Spec => []DraftHasItsReceipt
<1>1. GenerationInv => DraftHasItsReceipt
  BY DraftDelivers DEF GenerationInv
<1> QED
  BY GenerationInvariant, <1>1, PTL

(* Whichever sub-agents run, fail or raise, and in whatever order their    *)
(* calls end: the engine goes on when every call has ended, every agent    *)
(* that was asked for has guidance, and guidance said to be deepened comes *)
(* from the agent's own call.                                              *)
THEOREM EachAgentIsHeard == Spec => []DeepenedOrRule
<1>1. GenerationInv => DeepenedOrRule
  BY AgentDelivers DEF GenerationInv
<1> QED
  BY GenerationInvariant, <1>1, PTL

(* ToolGateway.execute answers every request of an accepted plan, reports  *)
(* the same statuses to the merger that it keeps in the results, and its   *)
(* receipts account for every token without a gap.                         *)
THEOREM EachRequestIsClassified == Spec => []RequestsClassifiedOnce
<1>1. GenerationInv => RequestsClassifiedOnce
  BY ToolDelivers DEF GenerationInv
<1> QED
  BY GenerationInvariant, <1>1, PTL

(* A plan that validate_plan admits never runs out of tokens: what a       *)
(* request is refused for is the time that successful requests before it   *)
(* have taken.                                                             *)
THEOREM TimeIsTheOnlyBudget == Spec => []OnlyTimeRunsOut
<1>1. GenerationInv => OnlyTimeRunsOut
  BY ToolDelivers DEF GenerationInv
<1> QED
  BY GenerationInvariant, <1>1, PTL

(* Of a plan from which the tasks for unknown agents are dropped, the      *)
(* waves report every task exactly once and count what they report, and    *)
(* the plain pool answers every task once within its token budget.         *)
THEOREM EachTaskIsReported == Spec => []TasksReportedOnce
<1>1. GenerationInv => TasksReportedOnce
  BY DEF GenerationInv, WavesInv
<1> QED
  BY GenerationInvariant, <1>1, PTL

(* However merge, governor and resolution sort the suggestions, each one   *)
(* is in one list, those adopted write different paths and break no rule,  *)
(* and each of the conflicts lost to an earlier suggestion or leaks.       *)
THEOREM AdoptedSuggestionsAgree == Spec => []AdoptedAreCompatible
<1>1. GenerationInv => AdoptedAreCompatible
  BY ReviewDelivers DEF GenerationInv
<1> QED
  BY GenerationInvariant, <1>1, PTL

(* TurnOrchestrator writes state, record and memories only of a text the   *)
(* quality gate accepted and memories only after the record, whose         *)
(* revisions are those of the commit, whatever other turns do meanwhile;   *)
(* unless two turns compare before either writes, no patch is overwritten. *)
THEOREM NothingIsWrittenUngated == Spec => []WritesFollowGate
<1>1. GenerationInv => WritesFollowGate
  BY DEF GenerationInv, TurnInv
<1> QED
  BY GenerationInvariant, <1>1, PTL

=============================================================================
