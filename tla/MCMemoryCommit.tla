---------------------------- MODULE MCMemoryCommit ----------------------------
(***************************************************************************)
(* Instances of MemoryCommit for TLC: two slots, two plans that bring two  *)
(* memories each, and a plan for the RAG layer alone.  Of the first plan's *)
(* memories the second resolves one and updates the other; it has entries  *)
(* for the RAG layer too.                                                  *)
(***************************************************************************)
EXTENDS MemoryCommit, TLC

Keys == 1..3
Memories == 1..4
NewMemories == (1 :> {1, 4}) @@ (2 :> {2, 3}) @@ (3 :> {})
UpdatedMemories == (1 :> {}) @@ (2 :> {4}) @@ (3 :> {})
ResolvedMemories == (1 :> {}) @@ (2 :> {1}) @@ (3 :> {})
RagMemories == (1 :> {}) @@ (2 :> {2, 3}) @@ (3 :> {4})
ById == [m \in Memories |-> m]

(* Plans of the turn engine, which neither updates nor resolves a memory.  *)
Nothing == [k \in Keys |-> {}]

Interchangeable == Permutations(Server)

=============================================================================
