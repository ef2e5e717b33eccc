------------------------------- MODULE SubAgents -------------------------------
(***************************************************************************)
(* The sub-agents D1..D5 of one turn of the persistent turn engine: the    *)
(* director's delegation or, when it fails, the trigger policies choose    *)
(* them, each one brings a suggestion written by rules, one call for each  *)
(* to the language model rewrites its summary in a pool of threads, and    *)
(* the merge hands every summary to the writer.                            *)
(***************************************************************************)
EXTENDS Integers, FiniteSets

CONSTANT Agents  \* number of sub-agents; the engine evaluates 1, 2, ..., Agents

ASSUME AgentsAssumption == Agents \in Nat

VARIABLES
  agentStage,  \* where the sub-agents are
  delegated,   \* requested_agents is a set and not None
  requested,   \* requested_agents: agents the director delegated to
  evaluated,   \* trigger policies evaluated so far
  policyFails, \* agents whose policy raised
  summaries,   \* who wrote the summary of each suggestion: "rule" or "llm"
  calls,       \* the futures of the thread pool
  collected,   \* futures the as_completed loop took
  guidance     \* the summaries of the merge result

agentVars ==
  <<agentStage, delegated, requested, evaluated, policyFails, summaries, calls, collected, guidance>>

Agent == 1..Agents

AgentStage == {"waiting", "triggering", "deepening", "abandoned", "merging", "done"}
CallState == {"running", "text", "empty", "raised"}
Author == {"rule", "llm"}

None == [a \in {} |-> "rule"]

SomeAgents(T) == UNION {[A -> T] : A \in SUBSET Agent}

AgentInit ==
  /\ agentStage = "waiting"
  /\ delegated = FALSE
  /\ requested = {}
  /\ evaluated = 0
  /\ policyFails = {}
  /\ summaries = None
  /\ calls = None
  /\ collected = {}
  /\ guidance = None

(* The next component is at work: this one's locals are gone.              *)
AgentForgotten ==
  /\ agentStage' = "waiting"
  /\ delegated' = FALSE
  /\ requested' = {}
  /\ evaluated' = 0
  /\ policyFails' = {}
  /\ summaries' = None
  /\ calls' = None
  /\ collected' = {}
  /\ guidance' = None

-----------------------------------------------------------------------------
(* generate_delegation_plan returns: the roles of its tasks, of which only *)
(* those that name a sub-agent matter; with none of them no agent runs.    *)
Delegate(asked) ==
  /\ agentStage = "waiting"
  /\ delegated' = TRUE
  /\ requested' = asked
  /\ agentStage' = "triggering"
  /\ UNCHANGED <<evaluated, policyFails, summaries, calls, collected, guidance>>

(* It raises: the trigger policies decide.                                 *)
DelegationFails ==
  /\ agentStage = "waiting"
  /\ agentStage' = "triggering"
  /\ UNCHANGED <<delegated, requested, evaluated, policyFails, summaries, calls, collected, guidance>>

ShouldRun(a, triggers) == IF delegated THEN a \in requested ELSE triggers

(* The policy of the next agent answers, and the agent to run gets its     *)
(* suggestion, with a summary written from the reasons of the policy.      *)
Trigger(triggers) ==
  LET a == evaluated + 1 IN
  /\ agentStage = "triggering" /\ a \in Agent
  /\ evaluated' = a
  /\ summaries' = IF ShouldRun(a, triggers)
                  THEN [b \in DOMAIN summaries \cup {a} |->
                          IF b = a THEN "rule" ELSE summaries[b]]
                  ELSE summaries
  /\ UNCHANGED <<agentStage, delegated, requested, policyFails, calls, collected, guidance>>

(* The policy raises: the agent does not run, even one the director asked  *)
(* for, and the others are evaluated all the same.                         *)
PolicyRaises ==
  LET a == evaluated + 1 IN
  /\ agentStage = "triggering" /\ a \in Agent
  /\ evaluated' = a
  /\ policyFails' = policyFails \cup {a}
  /\ UNCHANGED <<agentStage, delegated, requested, summaries, calls, collected, guidance>>

-----------------------------------------------------------------------------
(* The director is not a real model, or the API key or a module is         *)
(* missing, or there is nothing to deepen.                                 *)
KeepRuleSummaries ==
  /\ agentStage = "triggering" /\ evaluated = Agents
  /\ agentStage' = "merging"
  /\ UNCHANGED <<delegated, requested, evaluated, policyFails, summaries, calls, collected, guidance>>

(* The pool has min(suggestions, 5) workers: every call runs at once.      *)
SubmitCalls ==
  /\ agentStage = "triggering" /\ evaluated = Agents
  /\ summaries # None
  /\ calls' = [a \in DOMAIN summaries |-> "running"]
  /\ agentStage' = "deepening"
  /\ UNCHANGED <<delegated, requested, evaluated, policyFails, summaries, collected, guidance>>

(* A worker's call ends, in any order: the adapter answers "" for every    *)
(* failure of the provider, so an exception is one of building the prompt. *)
CallEnds(a, answer) ==
  /\ a \in DOMAIN calls /\ calls[a] = "running"
  /\ calls' = [calls EXCEPT ![a] = answer]
  /\ UNCHANGED <<agentStage, delegated, requested, evaluated, policyFails, summaries, collected, guidance>>

Ended(a) == calls[a] # "running"

(* Mutation of Collect: an empty answer replaces the summary as well.      *)
CollectAnything(a) ==
  /\ agentStage = "deepening" /\ a \in DOMAIN calls \ collected /\ Ended(a)
  /\ collected' = collected \cup {a}
  /\ IF calls[a] = "raised"
     THEN agentStage' = "abandoned" /\ UNCHANGED summaries
     ELSE summaries' = [summaries EXCEPT ![a] = "llm"] /\ UNCHANGED agentStage
  /\ UNCHANGED <<delegated, requested, evaluated, policyFails, calls, guidance>>

(* One turn of the as_completed loop; future.result() that raises leaves   *)
(* it, and the answers not collected yet are dropped with it.              *)
Collect(a) ==
  /\ agentStage = "deepening" /\ a \in DOMAIN calls \ collected /\ Ended(a)
  /\ collected' = collected \cup {a}
  /\ IF calls[a] = "raised"
     THEN agentStage' = "abandoned" /\ UNCHANGED summaries
     ELSE /\ summaries' = IF calls[a] = "text"
                          THEN [summaries EXCEPT ![a] = "llm"] ELSE summaries
          /\ UNCHANGED agentStage
  /\ UNCHANGED <<delegated, requested, evaluated, policyFails, calls, guidance>>

(* Leaving the with block waits for every worker.                          *)
LeavePool ==
  /\ \/ agentStage = "abandoned"
     \/ agentStage = "deepening" /\ collected = DOMAIN calls
  /\ \A a \in DOMAIN calls : Ended(a)
  /\ agentStage' = "merging"
  /\ UNCHANGED <<delegated, requested, evaluated, policyFails, summaries, calls, collected, guidance>>

(* The merge adopts every suggestion.                                      *)
MergeSummaries ==
  /\ agentStage = "merging"
  /\ guidance' = summaries
  /\ agentStage' = "done"
  /\ UNCHANGED <<delegated, requested, evaluated, policyFails, summaries, calls, collected>>

AgentNext ==
  \/ \E asked \in SUBSET Agent : Delegate(asked)
  \/ DelegationFails
  \/ \E triggers \in BOOLEAN : Trigger(triggers)
  \/ PolicyRaises
  \/ KeepRuleSummaries
  \/ SubmitCalls
  \/ \E a \in Agent : \/ \E answer \in CallState \ {"running"} : CallEnds(a, answer)
                      \/ Collect(a)
  \/ LeavePool
  \/ MergeSummaries

-----------------------------------------------------------------------------
AgentTypeOK ==
  /\ agentStage \in AgentStage
  /\ delegated \in BOOLEAN
  /\ requested \subseteq Agent
  /\ evaluated \in 0..Agents
  /\ policyFails \subseteq Agent
  /\ {summaries, guidance} \subseteq SomeAgents(Author)
  /\ calls \in SomeAgents(CallState)
  /\ collected \subseteq Agent

(* When the writer gets the guidance, no thread of the pool is at work;    *)
(* every agent the director asked for, and no other, is heard unless its   *)
(* policy failed; a summary is the model's own only when its call gave a   *)
(* text, and every text is used in whatever order the calls ended, unless  *)
(* some call raised.                                                       *)
DeepenedOrRule ==
  agentStage = "done" =>
    /\ \A a \in DOMAIN calls : Ended(a)
    /\ delegated => DOMAIN guidance = requested \ policyFails
    /\ \A a \in DOMAIN guidance :
         guidance[a] = "llm" => a \in DOMAIN calls /\ calls[a] = "text"
    /\ (\A b \in DOMAIN calls : calls[b] # "raised") =>
         \A a \in DOMAIN calls : calls[a] = "text" => guidance[a] = "llm"

=============================================================================
