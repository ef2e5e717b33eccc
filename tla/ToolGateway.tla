------------------------------ MODULE ToolGateway ------------------------------
(***************************************************************************)
(* The director's read-only tools in one turn: the engine hands a plan to  *)
(* ToolGateway.execute, which runs its requests one after the other inside *)
(* the plan's token and time budget, EnrichmentMerger.merge sorts the      *)
(* results, and FinalTurnBriefRuntime.produce writes them into the brief.  *)
(***************************************************************************)
EXTENDS Integers, Sequences, SequencesExt

CONSTANTS
  ToolPlan,  \* plans a director may hand over
  NoPlan,    \* no plan yet
  UsageCap,  \* tokens a tool that succeeds is charged at most
  Duration   \* milliseconds a tool may take

Request == [tokens: Nat, timeout: Nat, required: BOOLEAN, permitted: BOOLEAN]

ASSUME ToolAssumption ==
  /\ \A p \in ToolPlan : /\ p.requests \in Seq(Request)
                         /\ {p.maxRequests, p.tokens, p.time} \subseteq Nat
  /\ NoPlan \notin ToolPlan
  /\ UsageCap \in Nat
  /\ Duration \subseteq Nat

VARIABLES
  toolStage,   \* where the plan is
  plan,        \* the plan under execution
  results,     \* results[i]: result of request i
  tokensLeft,  \* remaining_tokens
  timeLeft,    \* remaining_time_ms; below 0 when a tool took longer than allowed
  reported,    \* the three lists of request ids of the ToolResultBundle
  receipts,    \* ToolExecutionReceipts: request, budget before and after
  brief        \* what the FinalTurnBrief says of the requests

toolVars == <<toolStage, plan, results, tokensLeft, timeLeft, reported, receipts, brief>>

ToolStage == {"waiting", "running", "merging", "done"}
ToolStatus == {"success", "failed", "timeout", "degraded", "denied", "over budget"}
ToolResult == [status: ToolStatus, usage: Nat, duration: Nat]

NoneReported == [successful |-> {}, failed |-> {}, degraded |-> {}]

(* The brief the engine builds from the director's plan, before any tool.  *)
DirectorBrief == [accepted |-> {}, rejected |-> {}]

ToolInit ==
  /\ toolStage = "waiting"
  /\ plan = NoPlan
  /\ results = <<>>
  /\ tokensLeft = 0
  /\ timeLeft = 0
  /\ reported = NoneReported
  /\ receipts = <<>>
  /\ brief = DirectorBrief

(* The next component is at work: this one's locals are gone.              *)
ToolForgotten ==
  /\ toolStage' = "waiting"
  /\ plan' = NoPlan
  /\ results' = <<>>
  /\ tokensLeft' = 0
  /\ timeLeft' = 0
  /\ reported' = NoneReported
  /\ receipts' = <<>>
  /\ brief' = DirectorBrief

-----------------------------------------------------------------------------
TotalTokens(requests) == FoldLeft(LAMBDA sum, r : sum + r.tokens, 0, requests)

(* Mutation of ValidPlan: each request by itself fits the budget.          *)
EachFits(p) ==
  /\ Len(p.requests) <= p.maxRequests
  /\ \A i \in DOMAIN p.requests : /\ p.requests[i].tokens <= p.tokens
                                  /\ p.requests[i].timeout <= p.time

(* ToolBudgetRuntime.validate_plan.                                        *)
ValidPlan(p) ==
  /\ Len(p.requests) <= p.maxRequests
  /\ TotalTokens(p.requests) <= p.tokens
  /\ \A i \in DOMAIN p.requests : p.requests[i].timeout <= p.time

(* The director has no plan, an empty one, or fails to write one: whatever *)
(* is raised, the turn goes on with the director's own brief.              *)
SkipTools ==
  /\ toolStage = "waiting"
  /\ toolStage' = "done"
  /\ UNCHANGED <<plan, results, tokensLeft, timeLeft, reported, receipts, brief>>

RefusePlan(p) ==
  /\ toolStage = "waiting" /\ p.requests # <<>> /\ ~ValidPlan(p)
  /\ plan' = p
  /\ results' = [i \in DOMAIN p.requests |->
                   [status |-> "over budget", usage |-> 0, duration |-> 0]]
  /\ reported' = [NoneReported EXCEPT !.failed = DOMAIN p.requests]
  /\ toolStage' = "merging"
  /\ UNCHANGED <<tokensLeft, timeLeft, receipts, brief>>

AcceptPlan(p) ==
  /\ toolStage = "waiting" /\ p.requests # <<>> /\ ValidPlan(p)
  /\ plan' = p
  /\ tokensLeft' = p.tokens
  /\ timeLeft' = p.time
  /\ toolStage' = "running"
  /\ UNCHANGED <<results, reported, receipts, brief>>

-----------------------------------------------------------------------------
(* The request the loop is at.                                             *)
Current == Len(results) + 1
Asked == plan.requests[Current]

(* ToolBudgetRuntime.check_request_budget.                                 *)
InBudget(r) == r.tokens <= tokensLeft /\ r.timeout <= timeLeft

AtRequest == toolStage = "running" /\ Current \in DOMAIN plan.requests

Answer(status, usage, duration) ==
  results' = Append(results, [status |-> status, usage |-> usage, duration |-> duration])

Receipt(before, after) ==
  receipts' = Append(receipts, [request |-> Current, before |-> before, after |-> after])

RefuseRequest ==
  /\ AtRequest /\ ~InBudget(Asked)
  /\ Answer("over budget", 0, 0)
  /\ reported' = [reported EXCEPT !.failed = @ \cup {Current}]
  /\ UNCHANGED <<toolStage, plan, tokensLeft, timeLeft, receipts, brief>>

DenyRequest ==
  /\ AtRequest /\ InBudget(Asked) /\ ~Asked.permitted
  /\ Answer("denied", 0, 0)
  /\ reported' = [reported EXCEPT !.failed = @ \cup {Current}]
  /\ Receipt(tokensLeft, tokensLeft)
  /\ UNCHANGED <<toolStage, plan, tokensLeft, timeLeft, brief>>

Usage(r) == IF r.tokens < UsageCap THEN r.tokens ELSE UsageCap

RunTool(duration) ==
  /\ AtRequest /\ InBudget(Asked) /\ Asked.permitted
  /\ Answer("success", Usage(Asked), duration)
  /\ reported' = [reported EXCEPT !.successful = @ \cup {Current}]
  /\ tokensLeft' = tokensLeft - Usage(Asked)
  /\ timeLeft' = timeLeft - duration
  /\ Receipt(tokensLeft, tokensLeft')
  /\ UNCHANGED <<toolStage, plan, brief>>

(* Mutation of ToolRaises: an optional tool keeps the status of its error. *)
ToolRaisesAsIs(error, duration) ==
  /\ AtRequest /\ InBudget(Asked) /\ Asked.permitted
  /\ Answer(error, 0, duration)
  /\ reported' = IF Asked.required
                 THEN [reported EXCEPT !.failed = @ \cup {Current}]
                 ELSE [reported EXCEPT !.degraded = @ \cup {Current}]
  /\ Receipt(tokensLeft, tokensLeft)
  /\ UNCHANGED <<toolStage, plan, tokensLeft, timeLeft, brief>>

(* The runner raises: neither tokens nor time are taken from the budget.   *)
ToolRaises(error, duration) ==
  /\ AtRequest /\ InBudget(Asked) /\ Asked.permitted
  /\ IF Asked.required
     THEN /\ Answer(error, 0, duration)
          /\ reported' = [reported EXCEPT !.failed = @ \cup {Current}]
     ELSE /\ Answer("degraded", 0, duration)
          /\ reported' = [reported EXCEPT !.degraded = @ \cup {Current}]
  /\ Receipt(tokensLeft, tokensLeft)
  /\ UNCHANGED <<toolStage, plan, tokensLeft, timeLeft, brief>>

EndPlan ==
  /\ toolStage = "running" /\ Current \notin DOMAIN plan.requests
  /\ toolStage' = "merging"
  /\ UNCHANGED <<plan, results, tokensLeft, timeLeft, reported, receipts, brief>>

-----------------------------------------------------------------------------
WithStatus(statuses) == {i \in DOMAIN results : results[i].status \in statuses}

(* EnrichmentMerger.merge sorts by the status of the result, not by the    *)
(* lists of the bundle; the brief has no place for degraded items.         *)
Enrichment ==
  [accepted |-> WithStatus({"success"}),
   rejected |-> WithStatus({"failed", "timeout", "denied", "over budget"}),
   degraded |-> WithStatus({"degraded"})]

WriteBrief ==
  /\ toolStage = "merging"
  /\ brief' = [accepted |-> Enrichment.accepted, rejected |-> Enrichment.rejected]
  /\ toolStage' = "done"
  /\ UNCHANGED <<plan, results, tokensLeft, timeLeft, reported, receipts>>

ToolNext ==
  \/ SkipTools
  \/ \E p \in ToolPlan : RefusePlan(p) \/ AcceptPlan(p)
  \/ RefuseRequest
  \/ DenyRequest
  \/ \E d \in Duration : \/ RunTool(d)
                         \/ \E error \in {"failed", "timeout"} : ToolRaises(error, d)
  \/ EndPlan
  \/ WriteBrief

-----------------------------------------------------------------------------
ToolTypeOK ==
  /\ toolStage \in ToolStage
  /\ plan \in ToolPlan \cup {NoPlan}
  /\ results \in Seq(ToolResult)
  /\ tokensLeft \in Nat /\ timeLeft \in Int
  /\ DOMAIN reported = {"successful", "failed", "degraded"}
  /\ \A kind \in DOMAIN reported : reported[kind] \subseteq DOMAIN results
  /\ receipts \in Seq([request: DOMAIN results, before: Nat, after: Nat])
  /\ brief.accepted \cup brief.rejected \subseteq DOMAIN results

(* Two classifications of the same results reach two readers: the id lists *)
(* the gateway reports go to the turn's effects, the classes the merger    *)
(* derives from the statuses go to the writer's brief.  They agree, every  *)
(* answered request is in exactly one class, and the audit receipts show   *)
(* the budget going down by exactly what the successes used.               *)
RequestsClassifiedOnce ==
  /\ reported = [successful |-> Enrichment.accepted,
                 failed     |-> Enrichment.rejected,
                 degraded   |-> Enrichment.degraded]
  /\ toolStage = "done" /\ plan # NoPlan =>
       /\ DOMAIN results = DOMAIN plan.requests
       /\ brief.accepted \cup brief.rejected = DOMAIN results \ reported.degraded
  /\ \A i \in DOMAIN receipts :
       LET r == receipts[i] IN
       /\ r.before = IF i = 1 THEN plan.tokens ELSE receipts[i - 1].after
       /\ r.before - r.after = results[r.request].usage

(* A request of a validated plan is never refused for tokens, however the  *)
(* requests before it ended: only time can run out on the way, and only    *)
(* because tools that succeeded took it; tools that fail cost nothing.     *)
OnlyTimeRunsOut ==
  toolStage = "running" =>
    /\ AtRequest => Asked.tokens <= tokensLeft
    /\ \A i \in DOMAIN results :
         results[i].status = "over budget" =>
           \E j \in 1..(i - 1) : results[j].status = "success" /\ results[j].duration > 0

=============================================================================
