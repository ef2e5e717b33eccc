----------------------------- MODULE MCAgentTurn -----------------------------
(***************************************************************************)
(* Instances of AgentTurn for TLC.  Worldbooks: one of constant and        *)
(* selective entries, one of them too long; one of entries that are left   *)
(* out for other reasons; one in which ids collide.  Tools: two plans of   *)
(* three requests the budget of which can be used up by time, and one that *)
(* is refused.  Four sub-agents.  Orchestrator: a task of each kind and    *)
(* two of wave A, under the policies that let none, one and all run.       *)
(* Times are in units of five seconds, tokens in hundreds.                 *)
(***************************************************************************)
EXTENDS AgentTurn

E(uid, constant, selective, priority, chars) ==
  [uid |-> uid, constant |-> constant, selective |-> selective, keyed |-> selective,
   priority |-> priority, chars |-> chars, enabled |-> TRUE, unknown |-> FALSE]

Books == {
  <<E(NoUid, FALSE, TRUE, 5, 3), E(NoUid, TRUE, FALSE, 1, 4), E(NoUid, FALSE, TRUE, 2, 2),
    E(NoUid, TRUE, TRUE, 1, 9)>>,
  <<E(7, FALSE, FALSE, 1, 2), [E(8, FALSE, TRUE, 2, 2) EXCEPT !.enabled = FALSE],
    [E(9, TRUE, FALSE, 0, 1) EXCEPT !.unknown = TRUE],
    [E(3, FALSE, TRUE, 9, 1) EXCEPT !.keyed = FALSE]>>,
  <<E(1, FALSE, TRUE, 1, 3), E(NoUid, FALSE, TRUE, 1, 2),
    [E(1, TRUE, FALSE, 0, 1) EXCEPT !.enabled = FALSE]>>}

RankScores == 1 :> 2 @@ 2 :> 1 @@ 3 :> 3

R(tokens, timeout, required, permitted) ==
  [tokens |-> tokens, timeout |-> timeout, required |-> required, permitted |-> permitted]

P(requests, maxRequests, tokens, time) ==
  [requests |-> requests, maxRequests |-> maxRequests, tokens |-> tokens, time |-> time]

ToolPlans == {
  P(<<R(6, 3, TRUE, TRUE), R(6, 3, FALSE, TRUE), R(6, 3, FALSE, TRUE)>>, 5, 18, 6),
  P(<<R(1, 1, FALSE, TRUE), R(6, 3, FALSE, FALSE), R(2, 2, TRUE, TRUE)>>, 5, 9, 6),
  P(<<R(6, 3, TRUE, TRUE), R(6, 3, FALSE, TRUE)>>, 5, 10, 6)}
NoToolPlan == P(<<>>, 0, 0, 0)
Durations == 0..3

Tasks == 1..6
KindOf == <<"A", "B", "A", "unknown", "curator", "other">>
TokensOf == <<7, 7, 5, 1, 1, 1>>
Plans == {<<1, 2, 3>>, <<3, 1>>, <<2>>, <<4, 5, 6, 2, 1>>, <<>>}
Pol(perTurn, waveA, waveB) ==
  [perTurn |-> perTurn, waveA |-> waveA, waveB |-> waveB, budget |-> 0]
Policies == {Pol(0, 0, 0), Pol(1, 1, 1), Pol(2, 1, 1), Pol(3, 3, 1)}
PlainPool == [perTurn |-> 0, waveA |-> 0, waveB |-> 0, budget |-> 12]

Paths == {"hp", "mood"}
S(paths, flaws) == [paths |-> paths, flaws |-> flaws]
Suggestions ==
  {S({}, {}), S({"hp"}, {}), S({"mood"}, {}), S(Paths, {}),
   S({"hp"}, {"banned"}), S({}, {"unproven", "unsourced"}), S({"hp"}, {"unsourced"}),
   S({"hp"}, {"leak"}), S({"mood"}, {"agency"})}

=============================================================================
