----------------------------- MODULE TurnLedger -----------------------------
(***************************************************************************)
(* What the persistent runtime promises of a session, with every turn      *)
(* effect taken in one step: a card state that changes only by applying    *)
(* the patch of one turn to the latest revision, a log of accepted turns   *)
(* that only grows, one dense index after the other, in revision order,    *)
(* and memories that only come from logged turns.                          *)
(***************************************************************************)
EXTENDS Integers, FiniteSetsExt

CONSTANTS
  Session,   \* session ids
  Turn       \* turn ids

VARIABLES
  state,     \* state[s]: revision and the turns whose patch is in the state
  log,       \* accepted turns, [session, turn, index, base, result]
  remembered \* remembered[layer]: turns whose memories are in that layer

ledgerVars == <<state, log, remembered>>

Layer == {"active", "rag"}

Entries(s) == {e \in log : e.session = s}

Logged == {e.turn : e \in log}

Init ==
  /\ state = [s \in Session |-> [revision |-> 0, applied |-> {}]]
  /\ log = {}
  /\ remembered = [l \in Layer |-> {}]

(* The patch of turn t moves session s to its next revision, at most once  *)
(* whatever the session.                                                   *)
Patch(s, t) ==
  /\ \A r \in Session : t \notin state[r].applied
  /\ state' = [state EXCEPT ![s] = [revision |-> @.revision + 1,
                                    applied  |-> @.applied \cup {t}]]
  /\ UNCHANGED <<log, remembered>>

LastIndex(s) == Max({e.index : e \in Entries(s)} \cup {0})

(* Turn t enters the log of s, after every entry of s, at the revision the *)
(* session has now, which t itself may have produced.                      *)
Append(s, t) ==
  /\ t \notin Logged
  /\ \E b \in {state[s].revision, state[s].revision - 1} \cap Nat :
       log' = log \cup {[session |-> s, turn |-> t, index |-> LastIndex(s) + 1,
                         base |-> b, result |-> state[s].revision]}
  /\ UNCHANGED <<state, remembered>>

Remember(l, t) ==
  /\ t \in Logged
  /\ remembered' = [remembered EXCEPT ![l] = @ \cup {t}]
  /\ UNCHANGED <<state, log>>

Next ==
  \E t \in Turn :
    \/ \E s \in Session : Patch(s, t) \/ Append(s, t)
    \/ \E l \in Layer : Remember(l, t)

Spec == Init /\ [][Next]_ledgerVars

=============================================================================
