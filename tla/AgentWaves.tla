------------------------------ MODULE AgentWaves ------------------------------
(***************************************************************************)
(* The orchestrator's sub-agents of one turn.  DelegationPlanner filters   *)
(* the director's tasks, DynamicAgentScheduler puts them in wave A, wave B *)
(* or aside, DynamicAgentWaveExecutor runs the waves through the agent     *)
(* pool and reports on every task.  Without a scheduler the pool runs the  *)
(* plan as it is, within the plan's token budget.                          *)
(***************************************************************************)
EXTENDS Integers, Sequences, SequencesExt

CONSTANTS
  Task,    \* tasks, numbered by falling priority of their role
  Kind,    \* Kind[t]: "A", "B", "other" (no wave), "curator" or "unknown"
  Tokens,  \* Tokens[t]: max_tokens of the task
  Plan,    \* sequences of tasks a director may delegate
  Policy,  \* TurnAgentBudgetPolicies
  NoPolicy \* an orchestrator without scheduler and executor

ASSUME WavesAssumption ==
  /\ Task \subseteq Nat
  /\ Kind \in [Task -> {"A", "B", "other", "curator", "unknown"}]
  /\ Tokens \in [Task -> Nat]
  /\ Plan \subseteq Seq(Task) /\ \A p \in Plan : IsInjective(p)
  /\ Policy \subseteq [perTurn: Nat, waveA: Nat, waveB: Nat, budget: Nat]
  /\ NoPolicy \in [perTurn: {0}, waveA: {0}, waveB: {0}, budget: Nat] \ Policy

VARIABLES
  waveStage, \* where the tasks are
  policy,    \* the policy of the turn, or NoPolicy
  tasks,     \* the filtered plan
  queue,     \* tasks the pool has yet to run of the current wave
  spent,     \* tokens_budget_used of the pool
  answers,   \* answers[t]: how task t ended in the pool
  reports,   \* AgentExecutionReports
  counts     \* counters of the TurnAgentBudgetReport

waveVars == <<waveStage, policy, tasks, queue, spent, answers, reports, counts>>

WaveStage == {"waiting", "wave A", "wave B", "pool", "done"}

(* "nothing": success with no valid suggestion; "timeout" and "budget": an *)
(* error whose text says so; "error": any other, a missing runner as well. *)
PoolAnswer == {"suggestions", "nothing", "degraded", "timeout", "budget", "error"}

Outcome == {"success", "degraded", "timeout", "skipped for budget", "skipped by policy",
            "failed"}

NoCounts == [executed |-> 0, degraded |-> 0, timeout |-> 0, skipped |-> 0, failed |-> 0]

WavesInit ==
  /\ waveStage = "waiting"
  /\ policy = NoPolicy
  /\ tasks = <<>>
  /\ queue = <<>>
  /\ spent = 0
  /\ answers = <<>>
  /\ reports = <<>>
  /\ counts = NoCounts

(* The next component is at work: this one's locals are gone.              *)
WavesForgotten ==
  /\ waveStage' = "waiting"
  /\ policy' = NoPolicy
  /\ tasks' = <<>>
  /\ queue' = <<>>
  /\ spent' = 0
  /\ answers' = <<>>
  /\ reports' = <<>>
  /\ counts' = NoCounts

-----------------------------------------------------------------------------
OfKind(plan, kind) == {t \in ToSet(plan) : Kind[t] = kind}

(* Tasks of S that the scheduler looks at before task t.                   *)
Before(t, S) == {u \in S : u < t}

WaveA(plan, p) ==
  LET candidates == OfKind(plan, "A") IN
  {t \in candidates : /\ Cardinality(Before(t, candidates)) < p.waveA
                      /\ Cardinality(Before(t, candidates)) < p.perTurn}

(* Mutation of WaveB: the agents of wave A are not counted.                *)
WaveBAlone(plan, p) ==
  LET candidates == OfKind(plan, "B") IN
  {t \in candidates : p.waveB > 0 /\ Cardinality(Before(t, candidates)) < p.perTurn}

(* wave_b_max_agents switches wave B on; only perTurn limits its size.     *)
WaveB(plan, p) ==
  LET candidates == OfKind(plan, "B") IN
  {t \in candidates :
     /\ Cardinality(WaveA(plan, p)) + Cardinality(Before(t, candidates)) < p.perTurn
     /\ p.waveB > 0}

SetAside(plan, p) == ToSet(plan) \ (WaveA(plan, p) \cup WaveB(plan, p))

(* The numbers of S from the lowest to the highest.                        *)
InOrder(S) ==
  [n \in 1..Cardinality(S) |-> CHOOSE t \in S : Cardinality(Before(t, S)) = n - 1]

(* DelegationPlanner.validate_and_filter: only unknown roles are dropped,  *)
(* a plan with too many tasks stays as it is.                              *)
Filtered(plan) ==
  LET kept == InOrder({i \in DOMAIN plan : Kind[plan[i]] # "unknown"}) IN
  [n \in DOMAIN kept |-> plan[kept[n]]]

StartWaves(plan, p) ==
  /\ waveStage = "waiting"
  /\ policy' = p
  /\ tasks' = Filtered(plan)
  /\ queue' = InOrder(WaveA(tasks', p))
  /\ waveStage' = "wave A"
  /\ UNCHANGED <<spent, answers, reports, counts>>

StartPool(plan) ==
  /\ waveStage = "waiting"
  /\ tasks' = Filtered(plan)
  /\ queue' = tasks'
  /\ waveStage' = "pool"
  /\ UNCHANGED <<policy, spent, answers, reports, counts>>

-----------------------------------------------------------------------------
(* The budget of a wave is the sum of its tasks': only the plain pool ever *)
(* refuses a task for it.                                                  *)
InTokens(t) == waveStage = "pool" => spent + Tokens[t] <= policy.budget

(* Outcome and counters _execute_wave derives from an answer of the pool.  *)
OutcomeOf(answer) ==
  CASE answer \in {"suggestions", "nothing"} -> "success"
    [] answer = "degraded" -> "degraded"
    [] answer = "timeout"  -> "timeout"
    [] answer = "budget"   -> "skipped for budget"
    [] answer = "error"    -> "failed"

Count(outcome) ==
  [executed |-> counts.executed + 1,
   degraded |-> counts.degraded + (IF outcome = "degraded" THEN 1 ELSE 0),
   timeout  |-> counts.timeout + (IF outcome = "timeout" THEN 1 ELSE 0),
   skipped  |-> counts.skipped + (IF outcome = "skipped for budget" THEN 1 ELSE 0),
   failed   |-> counts.failed + (IF outcome = "failed" THEN 1 ELSE 0)]

(* The pool runs the next task of the wave; a runner that raises, or times *)
(* out, ends its own task only.  A task for which no envelope can be built *)
(* is not charged.                                                         *)
RunTask(answer) ==
  /\ queue # <<>>
  /\ IF InTokens(Head(queue))
     THEN /\ answer # "degraded"
          /\ \/ spent' = spent + Tokens[Head(queue)]
             \/ answer = "error" /\ UNCHANGED spent
     ELSE answer = "degraded" /\ UNCHANGED spent
  /\ answers' = Append(answers, [task |-> Head(queue), answer |-> answer])
  /\ IF waveStage = "pool"
     THEN UNCHANGED <<reports, counts>>
     ELSE /\ reports' = Append(reports, [task |-> Head(queue), outcome |-> OutcomeOf(answer)])
          /\ counts' = Count(OutcomeOf(answer))
  /\ queue' = Tail(queue)
  /\ UNCHANGED <<waveStage, policy, tasks>>

Suggested == {answers[i].task : i \in {j \in DOMAIN answers : answers[j].answer = "suggestions"}}

(* The continuity barrier: wave B has suggestions of wave A to check.      *)
OpenWaveB ==
  /\ waveStage = "wave A" /\ queue = <<>>
  /\ WaveB(tasks, policy) # {} /\ Suggested # {}
  /\ queue' = InOrder(WaveB(tasks, policy))
  /\ waveStage' = "wave B"
  /\ UNCHANGED <<policy, tasks, spent, answers, reports, counts>>

ReportAll(S, outcome) == [i \in 1..Cardinality(S) |-> [task |-> InOrder(S)[i], outcome |-> outcome]]

(* Wave B without suggestions to check is skipped, and so is every task    *)
(* the scheduler put aside, for whatever reason.                           *)
EndWaves ==
  LET barred == IF waveStage = "wave A" THEN WaveB(tasks, policy) ELSE {}
      aside  == SetAside(tasks, policy)
  IN
  /\ queue = <<>>
  /\ \/ waveStage = "wave A" /\ (WaveB(tasks, policy) = {} \/ Suggested = {})
     \/ waveStage = "wave B"
  /\ reports' = reports \o ReportAll(barred, "skipped by policy")
                        \o ReportAll(aside, "skipped for budget")
  /\ counts' = [counts EXCEPT !.skipped = @ + Cardinality(barred) + Cardinality(aside)]
  /\ waveStage' = "done"
  /\ UNCHANGED <<policy, tasks, queue, spent, answers>>

EndPool ==
  /\ waveStage = "pool" /\ queue = <<>>
  /\ waveStage' = "done"
  /\ UNCHANGED <<policy, tasks, queue, spent, answers, reports, counts>>

WavesNext ==
  \/ \E plan \in Plan : StartPool(plan) \/ \E p \in Policy : StartWaves(plan, p)
  \/ \E answer \in PoolAnswer : RunTask(answer)
  \/ OpenWaveB
  \/ EndWaves
  \/ EndPool

-----------------------------------------------------------------------------
WavesTypeOK ==
  /\ waveStage \in WaveStage
  /\ policy \in Policy \cup {NoPolicy}
  /\ {tasks, queue} \subseteq Seq(Task)
  /\ spent \in Nat
  /\ answers \in Seq([task: Task, answer: PoolAnswer])
  /\ reports \in Seq([task: Task, outcome: Outcome])
  /\ counts \in [DOMAIN NoCounts -> Nat]

Ran == {answers[i].task : i \in DOMAIN answers}

Reported(outcomes) == {i \in DOMAIN reports : reports[i].outcome \in outcomes}

(* The plain pool answers each task of the plan, in its order, and gives   *)
(* out no more tokens than the plan has.                                   *)
PoolAnswered ==
  /\ Len(answers) = Len(tasks)
  /\ \A i \in 1..Len(tasks) : answers[i].task = tasks[i]
  /\ spent <= policy.budget

(* However the agents end, the report of the turn accounts for every task  *)
(* the planner left in the plan exactly once, whichever wave, limit or     *)
(* policy put it aside, and its counters agree with it; the agents that    *)
(* ran are within the turn's limit, in each wave the ones of the highest   *)
(* priority; and the continuity agent, which checks what the others        *)
(* suggest, ran only after one of them suggested something.  Tasks of      *)
(* unknown roles are gone by then, and no report has them.                 *)
TasksReportedOnce ==
  /\ waveStage = "done" /\ policy = NoPolicy => PoolAnswered
  /\ waveStage = "done" /\ policy # NoPolicy =>
       /\ Len(reports) = Len(tasks)
       /\ {reports[i].task : i \in DOMAIN reports} = ToSet(tasks)
       /\ counts = [executed |-> Cardinality(Ran),
                    degraded |-> Cardinality(Reported({"degraded"})),
                    timeout  |-> Cardinality(Reported({"timeout"})),
                    skipped  |-> Cardinality(Reported({"skipped for budget", "skipped by policy"})),
                    failed   |-> Cardinality(Reported({"failed"}))]
       /\ counts.executed <= policy.perTurn
       /\ \A t \in Ran, u \in ToSet(tasks) \ Ran : Kind[t] = Kind[u] => t < u
       /\ (\E t \in Ran : Kind[t] = "B") => \E t \in Suggested : Kind[t] = "A"

=============================================================================
