------------------------------- MODULE AgentTurn -------------------------------
(***************************************************************************)
(* The generation of one turn by either program that runs one.  The engine *)
(* runs the director's tools, the sub-agents and the writer, and hands the *)
(* text to the quality gate (PersistentTurn takes it from there).  The     *)
(* orchestrator runs its sub-agents in waves, reviews their suggestions,   *)
(* and goes on to the critic and the commits.                              *)
(* A component's variables go back to their first values when the next one *)
(* starts: in the code they are local, and what they leave is text.        *)
(***************************************************************************)
EXTENDS TurnContext, ToolGateway, SubAgents, WriterDraft, AgentWaves, SuggestionReview,
        OrchestratedTurn

VARIABLES
  driver, \* which program runs the turn
  phase   \* the component at work

vars == <<driver, phase, contextVars, toolVars, agentVars, draftVars, waveVars, reviewVars, turnVars>>

Phase == {"start", "context", "tools", "agents", "draft", "waves", "review", "turn", "ended"}

Init ==
  /\ driver \in {"engine", "orchestrator"}
  /\ phase = "start"
  /\ ContextInit /\ ToolInit /\ AgentInit /\ DraftInit
  /\ WavesInit /\ ReviewInit /\ TurnInit

Goto(next) == phase' = next /\ UNCHANGED driver

-----------------------------------------------------------------------------
(* The turn node and PersistentTurnEngine.execute, up to the quality gate. *)

StartEngine ==
  /\ driver = "engine" /\ phase = "start"
  /\ Goto("context")
  /\ UNCHANGED <<contextVars, toolVars, agentVars, draftVars, waveVars, reviewVars, turnVars>>

ContextAtWork ==
  /\ phase = "context" /\ ContextNext
  /\ UNCHANGED <<driver, phase, toolVars, agentVars, draftVars, waveVars, reviewVars, turnVars>>

(* The director plans from the context.  A session that cannot be loaded,  *)
(* or a director that gives no plan, ends the turn.                        *)
ContextDone ==
  /\ phase = "context"
  /\ \/ contextStage = "done" /\ Goto("tools")
     \/ contextStage \in {"done", "failed"} /\ Goto("ended")
  /\ ContextForgotten
  /\ UNCHANGED <<toolVars, agentVars, draftVars, waveVars, reviewVars, turnVars>>

ToolsAtWork ==
  /\ phase = "tools" /\ ToolNext
  /\ UNCHANGED <<driver, phase, contextVars, agentVars, draftVars, waveVars, reviewVars, turnVars>>

ToolsDone ==
  /\ phase = "tools" /\ toolStage = "done"
  /\ Goto("agents")
  /\ ToolForgotten
  /\ UNCHANGED <<contextVars, agentVars, draftVars, waveVars, reviewVars, turnVars>>

AgentsAtWork ==
  /\ phase = "agents" /\ AgentNext
  /\ UNCHANGED <<driver, phase, contextVars, toolVars, draftVars, waveVars, reviewVars, turnVars>>

AgentsDone ==
  /\ phase = "agents" /\ agentStage = "done"
  /\ Goto("draft")
  /\ AgentForgotten
  /\ UNCHANGED <<contextVars, toolVars, draftVars, waveVars, reviewVars, turnVars>>

WriterAtWork ==
  /\ phase = "draft" /\ DraftNext
  /\ UNCHANGED <<driver, phase, contextVars, toolVars, agentVars, waveVars, reviewVars, turnVars>>

(* A blank text ends the turn as a failure, any other goes to the gate.    *)
WriterDone ==
  /\ phase = "draft" /\ draftStage = "done"
  /\ Goto("ended")
  /\ UNCHANGED <<contextVars, toolVars, agentVars, draftVars, waveVars, reviewVars, turnVars>>

-----------------------------------------------------------------------------
(* TurnOrchestrator.execute_turn.                                          *)

StartOrchestrator ==
  /\ driver = "orchestrator" /\ phase = "start"
  /\ BuildSnapshot
  /\ Goto("waves")
  /\ UNCHANGED <<contextVars, toolVars, agentVars, draftVars, waveVars, reviewVars>>

WavesAtWork ==
  /\ phase = "waves" /\ WavesNext
  /\ UNCHANGED <<driver, phase, contextVars, toolVars, agentVars, draftVars, reviewVars, turnVars>>

(* Each task that has suggestions brings one; the governor and the         *)
(* resolution come with the scheduler.                                     *)
WavesDone ==
  /\ phase = "waves" /\ waveStage = "done"
  /\ \E s \in [1..Cardinality(Suggested) -> Suggestion] : StartMerge(s, policy # NoPolicy)
  /\ Goto("review")
  /\ WavesForgotten
  /\ UNCHANGED <<contextVars, toolVars, agentVars, draftVars, turnVars>>

ReviewAtWork ==
  /\ phase = "review" /\ ReviewStep
  /\ UNCHANGED <<driver, phase, contextVars, toolVars, agentVars, draftVars, waveVars, turnVars>>

ReviewDone ==
  /\ phase = "review" /\ reviewStage = "done"
  /\ StartWriting
  /\ Goto("turn")
  /\ ReviewForgotten
  /\ UNCHANGED <<contextVars, toolVars, agentVars, draftVars, waveVars>>

TurnAtWork ==
  /\ phase = "turn" /\ TurnStep
  /\ Goto(IF turnStage' = "ended" THEN "ended" ELSE "turn")
  /\ UNCHANGED <<contextVars, toolVars, agentVars, draftVars, waveVars, reviewVars>>

(* Anything may raise once the turn has begun.                             *)
OrchestratorRaises ==
  /\ phase \in {"waves", "review", "turn"}
  /\ Raise
  /\ Goto("ended")
  /\ UNCHANGED <<contextVars, toolVars, agentVars, draftVars>>
  /\ WavesForgotten /\ ReviewForgotten

(* What other turns do while the sub-agents work is done before or after:  *)
(* the sub-agents do not touch the card state.                             *)
OthersAtWork ==
  /\ driver = "orchestrator" /\ phase \in {"start", "turn", "ended"}
  /\ OtherTurns
  /\ UNCHANGED <<driver, phase, contextVars, toolVars, agentVars, draftVars, waveVars, reviewVars>>

-----------------------------------------------------------------------------
Step ==
  \/ StartEngine \/ ContextAtWork \/ ContextDone
  \/ ToolsAtWork \/ ToolsDone \/ AgentsAtWork \/ AgentsDone
  \/ WriterAtWork \/ WriterDone
  \/ StartOrchestrator \/ WavesAtWork \/ WavesDone \/ ReviewAtWork \/ ReviewDone
  \/ TurnAtWork \/ OrchestratorRaises

Next == Step \/ OthersAtWork

(* Both programs are sequential, and each call they wait for returns: the  *)
(* adapters' timeouts bound every one of them.                             *)
Spec == Init /\ [][Next]_vars /\ WF_vars(Step)

-----------------------------------------------------------------------------
TypeOK ==
  /\ driver \in {"engine", "orchestrator"} /\ phase \in Phase
  /\ ContextTypeOK /\ ToolTypeOK /\ AgentTypeOK /\ DraftTypeOK
  /\ WavesTypeOK /\ ReviewTypeOK /\ TurnTypeOK

(* A turn comes to its end however the tools, the agents, the writer and   *)
(* the critic answer, and whatever other turns do.                         *)
TurnEnds == <>(phase = "ended")

=============================================================================
