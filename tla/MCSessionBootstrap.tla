-------------------------- MODULE MCSessionBootstrap --------------------------
(***************************************************************************)
(* Instances of SessionBootstrap for TLC: two card files, one of which     *)
(* offers a single greeting.                                               *)
(***************************************************************************)
EXTENDS SessionBootstrap, TLC

CONSTANTS cardA, cardB, g0, g1

CardFiles == {cardA, cardB}
Greetings == {g0, g1}
GreetingsOffered == (cardA :> {g0, g1}) @@ (cardB :> {g0})

Interchangeable ==
  Permutations(Server) \cup Permutations(Session) \cup Permutations(Request)

=============================================================================
