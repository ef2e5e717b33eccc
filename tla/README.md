# Verification of the AWP role-play runtime

The repository is a set of ComfyUI nodes that run a turn-based role-play with
language models: a character card is imported, a session is bound to it, and
every player input becomes a turn that a director plans, agents enrich, a writer
writes and a quality gate accepts or rejects. What an accepted turn changes is
committed to SQLite: a card state with a revision, a log of turn records, and two
layers of memory.

This directory holds TLA+ models of that runtime, TLC configurations that check
them on small instances, and proofs checked by TLAPS. Paths below are relative to
the repository root.

## 1. Inventory

The components, what each keeps and does, and what makes it correct.

| Component | State | Operations | Correct if |
|---|---|---|---|
| Schema migrations, `storage/sqlite/database.py` | tables, `schema_migrations` | `initialize`, `apply_migrations` at every start of a process | nobody works on a partial schema; a start that was interrupted can be repeated; a migrated file can be opened |
| Session bootstrap, `nodes/persistent_bootstrap_node.py`, `runtime/card_session_bootstrap_pipeline.py`, `storage/sqlite/session_stores.py` | card definitions, openings, worldbook bindings, session bindings, receipts | import, check receipt, check binding, five inserts | a ready binding is immutable and never dangles; a request can be repeated |
| Persistent turn, `nodes/persistent_continuation_turn_node.py`, `nodes/persistent_first_turn_node.py`, `runtime/persistent_turn_engine.py` | none of its own | replay, load, snapshot, generate, gate, propose, commit state, record, remember, trace | a turn takes effect once, behind the gate, all of it or nothing that matters |
| Card state store, `storage/sqlite/card_state_store.py` | `card_states`, `card_state_patch_receipts` | `load`, `initialize`, `commit` | no lost update; revisions are a chain; a patch is applied once |
| Turn record store, `storage/sqlite/turn_record_store.py` | `turn_records` | `get_next_turn_index`, `save`, `load` | indices are dense and in revision order |
| Memory commit, `runtime/active_memory_commit_runtime.py`, `runtime/rag_memory_commit_runtime.py`, `policies/memory_policy.py` and the two stores | active memories (bounded), RAG memories, receipts of both | validate, replay, resolve, upsert, retention, receipt | the limit holds, the lowest is evicted, a receipt tells what is stored |
| Session load and snapshot, `runtime/session_runtime_load.py`, `runtime/round_snapshot_builder.py` | none | reads of binding, opening, worldbook, card state, turns | no patch is written for a state that director and writer did not see |
| First turn and continuation nodes in memory, `runtime/first_turn_pipeline.py`, `nodes/continuation_turn_execution_node.py` | none | the in-memory variant of a turn | same order of gate and commits |
| Turn orchestrator, `runtime/turn_orchestrator.py` with `runtime/critic_runtime.py` and the legacy commit runtimes | retry count | retry loop of writer and critic, commits | bounded retries, no side effect of a rejected draft |
| Writer and sub-agent calls, `adapters/llm/real_writer_adapter.py`, `runtime/sub_agent_llm_runner.py`, the engine's `_run_sub_agent_triggers` | futures of a thread pool | first draft and revisions; trigger, suggest, rewrite, merge | text and receipt are of one call; a model's answer is used or the rule's stays |
| Agent waves, `runtime/dynamic_agent_scheduler.py`, `runtime/dynamic_agent_wave_executor.py`, `runtime/dynamic_subagent_pool.py` | a budget report | schedule, wave A, barrier, wave B | budgets hold; the continuity check sees all suggestions |
| Tool gateway, `runtime/tool_gateway.py`, `runtime/tool_budget_runtime.py` | remaining tokens and time | validate a plan, check and run each request | budgets hold; every request is in exactly one result class |
| Merge and conflict governance, `runtime/suggestion_merger.py`, `runtime/suggestion_conflict_governor.py` | none | merge, govern, resolve | no suggestion is both accepted and rejected |
| Curator and patch contracts, `runtime/turn_evolution_curator.py`, `contracts/card_state_patch.py` | none | filter, validate, apply operations | the log of accepted operations explains the state; a text is lost only for a reason; a seed is where play begins |
| Memory recall and context, the two stores' `recall`, `runtime/memory_context_assembler.py` | recall counters | filter, rank, cut | no memory takes the place of a better one, as many are shown as the limits let through |
| Worldbook resolution, `runtime/version_locked_worldbook_resolver.py`, `runtime/condition_evaluator.py` | a budget | version check, order, activation | only entries of the bound card, the budget goes to those that outrank the others |
| Card import, `runtime/card_import_pipeline.py` and the parser and scanner | sources, definitions, reports | parse, scan, normalise, save | one definition for one source |
| Specialist agents D1 to D6 (`history_recall_*`, `opportunity_*`, `world_life_*`, `emotion_relationship_*`, `continuity_*`, `memory_curation_*`) | none | trigger, query, generate, validate, rank | pure functions of a snapshot |
| LLM adapters, diagnostics, node wrappers, web front end, contracts, presets | none that a turn depends on | network, views, data classes | not modelled |

The components interact through calls inside one node execution, and through the
tables between executions. There is one host process per ComfyUI server, which
runs one node at a time; several servers may open the same database file. No
lock spans two statements: `sqlite3` opens a transaction at the first
INSERT, UPDATE or DELETE and the stores commit after each operation. The hard
behaviours are therefore

* two servers between a SELECT and the write that depends on it (load, comparison and UPDATE of a card state are three statements),
* a process that dies, or a statement that raises, between two commits,
* a client that sends the same turn, request or plan again after either,
* limits (memory slots) that are only restored after they were exceeded,
* models and tools that fail, time out or answer nothing in the middle of a turn that
  should still come to a text, within several budgets at once.

`PROJECT.json` lists these hazards line by line.

## 2. Modules

`EXTENDS` and `INSTANCE` among the modules:

    TurnLedger <-- INSTANCE -- PersistentTurn <-- MCPersistentTurn
                                    ^
                                    +-- PersistentTurnProofs <-- SingleServerProofs
    SchemaMigration <-- MCSchemaMigration,  SchemaMigrationProofs
    SessionBootstrap <-- MCSessionBootstrap,  SessionBootstrapProofs
    MemoryCommit <-- MCMemoryCommit,  MemoryCommitProofs
    StatePatch <-- MCStatePatch,  StatePatchProofs

    TurnContext, ToolGateway, SubAgents, WriterDraft   (engine)        \
    AgentWaves, SuggestionReview, OrchestratedTurn     (orchestrator)  -- AgentTurn <-- MCAgentTurn,
                                                                          AgentTurnProofs

    TableLemmas <-- MemoryCommitProofs, SessionBootstrapProofs, StatePatchProofs, AgentTurnProofs

The component modules have the same shape. A *server* is one process with
one connection; `pc[p]` names the statement it executes next and `job[p]` holds
the local variables of the execution. Every action is one SQL statement, or one
transaction, together with the decisions the code takes on its result (in
StatePatch also one operation of a patch). `Crash`
throws `job[p]` away and leaves the tables; failing writes do the same by way of
the handler that is there. Definitions named "Mutation of ..." are not part of
the specifications: each is the form an action would have with a plausible
mistake in the code, and shows that the property it is listed with notices it.

**TurnLedger** is what a turn promises: a session has a state that is the set of
turns applied to it, a log, and memories; a turn is applied (if it changes
anything), then appended, then remembered, each in one step and each at most
once. It knows no servers, statements or failures.

**PersistentTurn** is the turn node, the engine and the two stores.

| TLA+ | code |
|---|---|
| `cardStates[s]`, `patchReceipts`, `turnRecords` | rows of `card_states`, `card_state_patch_receipts`, `turn_records` |
| `applied` of a card state | its content, as the set of turns whose operations are in it |
| `memory[layer]` | turns with entries in `active_memory_records`, `rag_memory_records` |
| `Replay`, `Begin` | `persistent_continuation_turn_node.execute`: lookup of the turn id |
| `LoadFails`, `LoadState`, `InitializeLooks`, `InitializeInserts` | `SessionRuntimeLoad.load`, `CardStateStore.initialize` |
| `BuildSnapshot` | `RoundSnapshotBuilder.build`, the second read of the state |
| `GenerationFails`, `WriteDraft`, `QualityRejects` | director, agents, writer, quality gate, with every outcome |
| `Curate`, `ApplyRaises` | the curator's proposal and the construction of the new state |
| `DuplicateCheck`, `RevisionCheck`, `PatchWrite` | `SqliteCardStateStore.commit` |
| `TurnIndex`, `TurnCheck`, `TurnInsert` | `get_next_turn_index`, `SqliteTurnRecordStore.save` |
| `ActiveCommit`, `RagCommit`, `PersistTrace` | `_run_memory_commit`, `_persist_trace` |

`accepted` and `cut` are history: turns that passed the gate, and turns an
execution of which died or could not be recorded.

**SchemaMigration** is `Database.apply_migrations`: the versions applied are read
once, a script is a sequence of statements that each commit by themselves, the
version is recorded by one more. `CREATE ... IF NOT EXISTS` can be repeated,
`ALTER TABLE ... ADD COLUMN` raises if the column is there. SQLite may raise at every
statement: in the script that ends the attempt (`ScriptRaises`), at the INSERT of the
version it is swallowed and the loop goes on (`InsertRaises`). `cut` is history: the
versions a crash or an error interrupted or left unrecorded.

**SessionBootstrap** is the bootstrap node with its pipeline. Tables are
sequences in rowid order where the code reads `LIMIT 1` without an order.
`disturbed[s]` is history: whether executions for a session overlapped, or one of
them died. `Loads` is what a later `SessionRuntimeLoad` makes of the rows.

**MemoryCommit** is one session's memory commit, with both layers, the policy's
limit check, retention and the receipts. `Rank` is the place of a memory in the
retention order: by score, and of equal scores the earlier row of `get_all`'s query, so no
two are alike. An update leaves the place as it is. The turn engine's plans have new
entries only; those of the memory curation also update and resolve.

**StatePatch** is the content of a card state, where PersistentTurn only has the set
of turns applied. An operation is a record with its kind, the prefix and key of its
path, and a value by the type the code tells apart. The store's comparison and its
UPDATE are two steps, and other servers come in between.

| TLA+ | code |
|---|---|
| `state`, `receipts` | the row of `card_states`, the rows of `card_state_patch_receipts` |
| `Load` | `SessionRuntimeLoad.load` with `CardStateStore.initialize` |
| `ParseOne`, `CurateOffline` | `_parse_llm_response` for the next operation, `_curate_deterministic` |
| `Invalid`, `Errors`, `Validate` | `validate_patch_operations`, `_validate_proposal` |
| `Applied`, `Raises`, `ApplyOne` | the engine's loop over the operations |
| `CuratorRaises` | what `_parse_llm_response` lets out on an answer of the wrong shape |
| `Check`, `Write` with `Store`, `StoreRaises`, `NoStateChange` | `SqliteCardStateStore.commit` up to its first write, the transaction behind it, its exception handler; the branch without operations |
| `RuntimeApplied`, `Replay` | `CardStateCommitRuntime._apply_operations`, as the reference the engine is compared with |
| `seed`, `Bootstrap` | `initial_state_seed`, and what the bootstrap leaves of it |

**AgentTurn** is what PersistentTurn has as one step: how the text of one turn comes
about. It composes seven modules, one per component, which have variables, actions
and properties of their own and no step in common; `phase` names the one at work,
and a component's variables go back to their first values when the next one
starts. `driver` is the program that runs the turn: `PersistentTurnEngine`, the
one in production, or `TurnOrchestrator`, which the tests construct.

| Module | TLA+ | code |
|---|---|---|
| TurnContext | `Ahead`, `ResolveEntry`, `Fits` | the resolver's order of the worldbook, its loop, its budget |
| | `EntryId`, `Place` | the parser's ids; `catalog_by_id`, which keeps the last entry of an id |
| | `RecallActive`, `RecallRag`, `Score`, `SortsBefore` | `recall` of both stores with the recall counts; the score of the full-text search and `_order_rag` |
| | `Assemble` | `MemoryContextAssembler.assemble` |
| ToolGateway | `ValidPlan`, `AcceptPlan`, `RefusePlan` | `ToolBudgetRuntime.validate_plan` |
| | `RefuseRequest`, `DenyRequest`, `RunTool`, `ToolRaises` | one round of `ToolGateway.execute`: budget, permission, result, exception |
| | `Enrichment`, `WriteBrief` | `EnrichmentMerger.merge`, `FinalTurnBriefRuntime.produce` |
| SubAgents | `Delegate`, `DelegationFails`, `Trigger`, `PolicyRaises` | the director's delegation, `_run_sub_agent_triggers` |
| | `SubmitCalls`, `CallEnds`, `Collect`, `LeavePool` | the thread pool: threads end in any order, `as_completed` takes what has ended, an exception leaves the loop, the `with` block waits |
| WriterDraft | `FirstDraft`, `Revise`, `HandOver` | `RealWriterV2Adapter.generate` |
| AgentWaves | `WaveA`, `WaveB`, `SetAside`, `Filtered` | `DynamicAgentScheduler.schedule`, `DelegationPlanner` |
| | `RunTask`, `OpenWaveB`, `ReportAll` | the pool, the barrier between the waves, the reports and counters |
| SuggestionReview | `MergeNext`, `Govern`, `Resolve` | one round of `merge`, `govern`, the director's resolution |
| OrchestratedTurn | `Write`, `Accept`, `Retry`, `Reject` | the loop of writer and critic |
| | `Propose` to `CommitRag`, `Raise` | the commits, with comparison (`CheckState`) and write (`WriteState`) of the card state apart; the exception handler |
| | `RivalLoads`, `RivalCompares`, `RivalWrites` | load, comparison and write of other turns of the session, at any moment |

## 3. Runs

| Run | Instance | Distinct states | Shows |
|---|---|---|---|
| `turn_one_server` | 1 server, 2 sessions, 2 turns, 3 executions, crashes and failing writes, weak fairness | 169 000 | the engine implements `TurnLedger`; the state is the fold of its patches; records are in revision order, at the current revision, and agree with the patch of their turn unless the turn was cut; every execution ends |
| `turn_two_servers` | 2 servers, 2 sessions (1 bound), 2 turns, 3 executions, crashes | 2 350 000 | indices are dense; a turn has one patch and one record; nothing is written without the gate; memories only of recorded turns; a patch is only written by a turn whose director and writer saw the revision it is based on, until an update was lost |
| `lost_update` | 2 servers, no faults | violation | the state is not the fold of its patches |
| `retry` | 1 server, crashes | violation | a turn whose patch is committed cannot be retried |
| `schema_crashes` | 2 processes, 4 versions, 2 crashes, 1 error of SQLite, weak fairness | 178 000 | the statements of a recorded version and of all before it are executed; a process let through sees the full schema; only a fault leaves a column behind that nobody records; all get through unless one is |
| `schema_reopen` | 1 process, 1 crash | violation | after a crash between two ALTERs nobody opens the file again |
| `bootstrap` | 2 servers, 2 sessions, 2 requests, 2 cards, 3 executions, crashes | 852 000 | bindings never dangle; serial sessions keep binding and receipts; calm sessions load and can be retried |
| `memory` | 2 servers, 3 plans of new, updated and resolved entries, 4 memories, 2 slots, crashes and failing writes | 1 770 000 | receipts tell what is stored; the limit holds without faults; without overlap the lowest is evicted and a replay writes nothing; undisturbed plans are accepted |
| `memory_refused` | 1 server, 1 crash or more | violation | an over-full active layer refuses every plan from then on |
| `patches` | 2 servers, 3 turns of up to 2 operations out of 9, or the deterministic ones | 2 550 000 | one line of receipts, replayed by the other implementation of patch application, gives the stored content, a lost update being lost in full; until one is, the store never refuses what the curator validated; the deterministic curator is never rejected; a text is lost only when the state moved on, its operations cannot be executed in order, the answer is malformed or the database raises |
| `seed` | 1 server, 1 turn | violation | the seed of a bootstrap is not in the state that is loaded |
| `agent_turn` | both programs; 3 worldbooks of 3 or 4 entries, 3 memories of 3 qualities of match, 3 tool plans of up to 3 requests, 4 sub-agents, 2 revisions, 5 plans of up to 5 tasks under 4 policies or none, 9 kinds of suggestion, 2 retries, 2 other turns; weak fairness | 415 000 | the best of the worldbook and the most important memories (of the RAG layer, among equal matches) are told; every tool request is in one class and only time runs out; a model's text is used or the rule's stays; text and receipt are of one call; every task left in the plan is reported once, by the plain pool answered once; what is adopted is compatible; nothing is written before the critic accepts, and nothing of others is lost unless two compare before either writes; every turn ends |

Several properties are guarded by a history variable: `Serial` and `Calm`
sessions, `cut` turns, `disturbed` commits. The guard is the weakest the code
supports. The violations, and the observations below, are what lies outside it.

*Bounds.* `MaxRuns` bounds the executions started; three are enough for a first
attempt, its retry and an unrelated turn in between, or for two that overlap and
one that comes after. Two turns and two sessions tell "the same" from "another".
Two servers are enough for the races found here, each of which needs one
statement of another server between two of one's own. Two slots with four
memories let a plan fill, overflow and evict. Migration 2 of the instance has an
ALTER before and after statements that can be repeated, and versions before and
after it; the crashes and the error can hit one version or several. Three turns are what
a lost update and a turn behind it take. Two operations of one turn let a variable be
set to a text and incremented, or a field be set twice, in every order, on the content
three turns can leave; of the fields and kinds of operation there is one for each way the
code treats them. The proofs below
have no bounds.

In `agent_turn` the budgets are small enough to run out before the last request,
task, suggestion or worldbook entry, and large enough for one that does not; every
tool, agent, writer and critic has every outcome. The worldbooks are one of
constant and selective entries with one too long, one of entries that are disabled,
unsupported or without keys, and one in which two ids collide; `BestContext`
excludes the last where it says so. Of the three qualities of a match the best two get
one score, as the code's scale ends there, and importance decides between them. Two other
turns can lose an update to each other as well as to the turn at work. Durations and tokens are in coarse units: the
code only adds and compares them.

The type invariants are proved (section 4); that of AgentTurn and its parts, in which the
sizes of its tables are hidden, is checked here as well.

*Symmetry* is used where no liveness is checked, over servers and turns (or
requests and sessions), which the specifications only compare.

*Deadlock* is not checked: a system in which all executions are over, or all
processes are ready, has stopped rightly.

*Fairness* is weak fairness of each server's `Step`: a node execution is a
sequential Python function, so once begun it goes on until it returns, raises or
dies. `Begin` and `Crash` are not fair. In SchemaMigration `Step` includes
`Open` of a process that failed: `_get_or_create_registry` caches the registry
only after `initialize` has returned, so the next turn opens the database again.
In AgentTurn it is weak fairness of the turn as a whole: both programs are
sequential but for the pool, whose threads each wait for one call, and the
adapters' timeouts bound every call. The steps of other turns are not fair.

## 4. Proofs

| Theorem | Module | Assumes |
|---|---|---|
| `TypeCorrect`, `IndicesAreDense`, `EffectsAtMostOnce`, `NoWriteBeforeGate`, `MemoryOfRecordedTurns` | PersistentTurnProofs | the ASSUMEs of PersistentTurn |
| `NoLostUpdate`, `RevisionsFormChain`, `RecordsFollowRevisions`, `RecordedAtCurrent`, `RecordsMatchReceipts`, `ImplementsLedger` | SingleServerProofs | in addition, that there is one server |
| `PatchesFitSnapshots` | SingleServerProofs | the ASSUMEs of PersistentTurn |
| `TypeCorrect`, `RecordedVersionsComplete`, `OpenedIsMigrated`, `MigrationsAtomic` | SchemaMigrationProofs | the ASSUMEs of SchemaMigration |
| `TypeCorrect`, `BindingsNeverDangle`, `ReceiptsTellBindings`, `ReadySessionsLoad`, `BoundSessionsStayBound`, `RetriesAreNotRefused` | SessionBootstrapProofs | the ASSUMEs of SessionBootstrap |
| `TypeCorrect`, `ReplaysAreTrue`, `SlotsBounded`, `ReplaysWriteNothing`, `RetentionEvictsLowest`, `RetentionAlwaysMakesRoom` | MemoryCommitProofs | the ASSUMEs of MemoryCommit |
| `TypeCorrect`, `NeverRefused`, `OfflineProposalsPass`, `TextIsLostWithReason`, `LogExplainsState` | StatePatchProofs | the ASSUMEs of StatePatch |
| `TypeCorrect`, `TheBestIsTold`, `EachRequestIsClassified`, `TimeIsTheOnlyBudget`, `EachAgentIsHeard`, `DraftKeepsItsReceipt`, `EachTaskIsReported`, `AdoptedSuggestionsAgree`, `NothingIsWrittenUngated` | AgentTurnProofs | the ASSUMEs of the seven components |

So every invariant and every action property that a passing run checks is a theorem,
and so is the refinement of `TurnLedger`. The theorems hold for any number of servers
(except where said), sessions, turns, executions, migrations, requests, plans, memories,
slots, operations, worldbook entries, tool requests, agents, revisions, tasks, suggestions
and retries, and for any number of crashes. What remains to TLC is liveness.

*Assumptions on the constants* are those the code gives: limits are natural numbers,
budgets are positive where the code's default is, a plan has the fields its data class
has, "no value" is none of the values. Three do more than that.
`AlteredOnceAssumption` of SchemaMigration says that what an
ALTER adds no other statement creates, which a reader can verify in `MIGRATIONS`; without it the
migrations could not be applied even once. `RankAssumption` of MemoryCommit says that the ranking of
memories is total, as it is by the row order that breaks its ties. `ContextAssumption` of
TurnContext gives a worldbook entry the fields the parser gives it. TLC evaluates all of
them on the instances of section 3.

*Any number of servers.* None of the four safety properties is inductive.
`SafetyInv` adds that an index a server has read is at most one past the largest
of its session (indices only grow, and the unique index stops a second use), that
a server past the gate runs an accepted turn, and that a server at the memory
commit has its record in the table. The proof has one lemma per conjunct and, in
it, one step per action that can disturb the conjunct.

*One server.* `SingleInv` adds what the statements in flight know: from the load
to the patch write the local revision and content are those of the row, the
snapshot has the same revision, and from the patch write to the record
`result_revision` is the stored revision. This is false with two servers, which
is the run `lost_update`. `ImplementsLedger` shows that the initial states map to
`TurnLedger!Init` and that every step is a ledger step or a stutter. For
`RecordsMatchReceipts`, `MatchInv` adds where a turn stands between its two commits: before
the patch write it has neither patch nor record, after it its patch is the one the server
announces, and the index the server is about to insert is free.

*The snapshot.* `PatchesFitSnapshots` holds for any number of servers, in a session of
which no update was lost so far (`ForkFree`). Then every revision below the stored one has
its receipt, so the stored revision never falls and what a server has read is at most what
is stored (`FitsInv`): load, snapshot and comparison read growing revisions, and when the
last equals the first the one in between does too. After a lost update
the revision can go back to one that was read before, and none of this holds.

*Migrations.* `MigrationInv` says of a process inside a script that the objects
of the statements behind it exist, of any process that the objects of the versions it has
passed exist, executed or found applied, whether they are recorded or not, and that
the versions it found applied are recorded. Nothing is ever dropped, so a crash or an
error keeps it. `MigrationsAtomic` needs the converse as well (`ColumnsAreOwned`): a column
in the file is of a recorded version or of one a fault has cut, or a process inside the
script is past its statement. The property itself is not inductive: a
process that fails on a column leaves the rest to the one that added it.

*Bootstrap.* `BootstrapInv` has a part for each of the five inserts: what an execution
that is past an insert has stored is in its table (`PartsInv`, for any overlap, which is
enough for `BindingsNeverDangle`); in a serial session the binding found absent stays
absent until the insert of its own, the first opening and worldbook row are those of the
binding, and a request is in the receipts before its execution ends.

*Memory commit.* `MemoryInv` says of a commit under way that what its plan still has to
store is in its local set and the rest is stored (`StoredInv`). `SlotsInv`: too many
memories are active only while some server is yet to count them, or has chosen enough of
them to evict; another server's evictions in between only help, so this is inductive with
any overlap. `AloneInv` says what one commit at a time knows: each memory it is to evict is
outranked by as many that stay as there are slots, and its key has no receipt.

*Patches.* The content of a state is typed by the kinds of values the code tells
apart, so `TypeCorrect` is about what the engine puts into it; its lemmas type every
operator from the parser to `Applied`. For `NeverRefused`, `PatchInv` adds that, while no
update is lost, a turn was loaded at a revision not after the stored one and an equal
revision means equal content, and that the operations the engine holds have no errors in
the content of the load. `TextIsLostWithReason` compares what the engine has done with what
the operations say: `SoFar` is the account of the first operations, by the place of the last
assignment of every variable and of the list of persons, and grows by one operation with
every step of the loop. `LogExplainsState` adds that the content a turn was loaded with
ends a line of the receipts, as the stored one does, and that the content the engine holds
is what a replay of the operations behind it makes of the content of the load (`LogInv`).
A write that loses another puts its receipt behind the line of its own load. A
replay of one operation, or of one receipt, more is the last step of the fold.

*The making of a turn.* The components of AgentTurn share no variable. Each has an
inductive invariant of its own (`ContextInv`, `ToolInv`, `AgentInv`, `DraftInv`,
`WavesInv`, `ReviewInv`, `TurnInv`), and `GenerationInv` is their conjunction: a step of one
leaves the others as they are, and a component the turn has not reached is in its first
state. What the invariants say beyond the properties:

* `ContextInv`: in the middle of the loop the entries are those of the book in the
  resolver's order, the candidates are a tail of it, what has been told of
  the entries before that tail fits the budget, and each one that was left out would not
  have fitted beside those that outrank it.
* `ToolInv`: the receipts are a chain of the tokens left, and since the plan was
  admitted the tokens of all its requests, taken together, are within the budget, so the
  prefix behind the next request leaves room for it.
* `AgentInv`: an agent's summary is its rule's until its own call was collected; every call
  has an end when the pool is left.
* `WavesInv`: answers and queue together are the tasks the scheduler kept, each once (in the
  plain pool the plan's, in its order), and the counters are a tally of the reports made.
* `ReviewInv`: the paths of every adopted suggestion are held by it, and each
  conflict names an earlier holder of one of its paths, or leaks.
* `TurnInv`: a stage behind the gate has an accepted verdict, what has been written is what
  the stage says; unless two turns have compared before either wrote, the snapshot's revision
  is at most the stored one, and whoever has compared still holds the stored content.

*Induction over data.* The library's induction theorems cannot be used, so the
proofs that need one take the smallest counterexample: `Smallest` of TableLemmas (every set of
natural numbers has a least element, by well-foundedness). In this way TableLemmas has what
INSERT OR REPLACE leaves of a table, that the recursive function of a fold exists and is
determined by its steps (`FoldExists`, `SameByStep`), and AgentTurnProofs that an enumeration
by rank lists every element once. Three definitions have the form these proofs can take: the orders
of AgentWaves and TurnContext are enumerations by rank (the number of elements ahead of
one) rather than sorts, and `CharsOf` is a recursive function.

Each inductive invariant was first checked by TLC on the instance of its run.

*Only model-checked:* liveness (`RequestAnswered`, `WholeMigrationsReopen`,
`TurnEnds`), which needs ENABLED for its fairness, and which the prover does not
support. Nothing else that a passing run checks is left to TLC.

## 5. Observations

Each with a run:

* `lost_update`: the revision check of `commit` reads in autocommit mode; the
  UPDATE does not compare again.
* `retry`: after a crash between patch and record the engine takes the store's
  DUPLICATE_PATCH answer for a failure.
* `schema_reopen`: `executescript` does not run in a transaction; a half-applied
  version 2 cannot be applied again.
* `memory_refused`: the limit check in front of retention refuses every plan once
  the layer is over its limit.
* `seed`: `_init_card_state` builds the state from the seed for the receipt only;
  the first load creates an empty one.

Conditions of `patches`, where the code lets a validated patch fail behind the gate
(`Applicable` in StatePatch says which):

* An increment of a variable that holds a text or list raises, and nothing catches
  it; a patch that sets a text and then increments it does so too. The curator's
  rule "Model cannot override CardState variable types"
  (`runtime/turn_evolution_curator.py:24`) is not enforced by any check.
* None passes validation for `active_npcs` and `metadata`, and the store's
  `to_dict` raises on it.
* A `set_scene_field` with a bare field name gets no prefix and empties the whole
  proposal, where a bare variable or event is completed.
* `contracts/card_state.py:58` and the commit runtime's docstring call
  `CardStateCommitRuntime` the only writer; the persistent engine applies patches
  itself and calls the store.

In the models as in the code, and part of what the passing runs check:

* `SchemaMigration!InsertRaises`: an error of the INSERT that records version 2 is
  swallowed (`storage/sqlite/database.py:414`). The process goes on with the full
  schema, and every later open fails on the duplicate column, although line 393 says
  "Idempotent: already-applied versions are skipped."
* `TurnContext!Score`: the score made of the full-text search's rank
  (`storage/sqlite/rag_memory_store.py:302`) is the lower the better the match, and is
  sorted descending. When more memories match than are shown, the worse matches are,
  although line 235 names the order "bm25 ASC then importance DESC, confidence DESC".

Outside the guards of the passing runs, visible in the models when a guard is
removed:

* Two servers: a turn without operations skips the revision check and is recorded
  at a revision that is no longer current (`RecordedAtCurrentRevision`).
* A retry after a crash whose proposal is empty is recorded with equal revisions
  although its earlier patch is in the state (`TurnsMatchPatches`).
* Two overlapping bootstraps of one session replace each other's binding
  (`BindingImmutable`).
* A bootstrap that died leaves an opening or worldbook row that a later load can
  pick (`ReadySessionLoads`), or a binding without receipt, which turns every
  retry into a version conflict (`RetrySucceeds`).

Met while modelling the making of a turn (AgentTurn), each outside what its
properties promise:

* Worldbook: an entry without uid is named after its place
  (`runtime/card_payload_parser.py:110`), so its id can be another entry's uid.
  `catalog_by_id` keeps the last entry of an id: the first one's content is told by
  nobody, the enabled flag of one decides for the content of the other, and
  "duplicate_excerpt" lists an activated id among the rejected. No parsed entry has
  a condition, so the resolver's condition branch never runs for an imported card.
* Memory: `retention_score` and the recall order read the recall count of
  `memory_json`, which `touch_recall` does not write. A memory id is a hash of the
  first 80 (or 200) characters, so texts with the same beginning share an id. The
  engine puts a fresh uuid into every idempotency key
  (`runtime/persistent_turn_engine.py:1271`), so only callers of the commit nodes can
  replay a plan.
* Sub-agents: when the call of one raises, texts of others that were not collected
  yet are dropped without a word (`runtime/persistent_turn_engine.py:686`). A
  provider's error is not such an exception: `generate_text` answers it with "".
* Writer: among several revisions the last that is not blank is taken, whether or
  not an earlier one had fewer issues.
* Merge: a suggestion ignored for want of room still holds its paths; one the
  governor removes leaves the rival it displaced rejected; "downgraded" items end
  rejected; the governor copies the writer's guidance unchanged.
* Orchestrator: the writer of a retry gets the same arguments as the first; the
  reply of the memory commits is not looked at; an error after the state commit
  leaves the state without a record. `runtime/critic_runtime.py:55` reads an
  attribute that QualityDecision does not have.
* Quality gate: the engine treats the verdict "revise" as a rejection although it
  says that a retry is allowed. The validation of patches asks of `active_npcs` only
  that it is a list (`contracts/card_state_patch.py:288`), the gate searches the text
  for each element (`runtime/quality_pipeline_runtime.py:32`): an element that is
  not a text makes every later turn of the session raise.

## 6. Not modelled

* SQLite itself: a statement either takes effect or not; lock timeouts
  ("database is locked") are failing writes, or errors where they matter at a read.
* The thread a connection belongs to, which is the host's choice, and an implicit
  transaction left open by a statement that raised, which is listed as a hazard.
* Text: prompts, drafts, scoring, keyword lists, parsing of answers. Their outcome
  is a choice, and the larger part of the program's lines is this: the specialist
  agents, the adapters' prompts, the card parser and scanner, the chunk builder.
* Trace, snapshot and recall-log tables: no decision reads them.
* The in-memory first turn and continuation nodes: their fake proposal adapter
  raises before the first commit of every accepted turn.
* About a hundred node wrappers that call one function each, 124 data classes,
  diagnostic specifications, read-only management views, scripts: no state, or none
  that a turn depends on. They are why the models cover the core of the runtime and
  a small share of its lines.
* The components with status `not_modelled` in `PROJECT.json`, each with its
  reason.

## 7. Plan

1. Measures for the loops of a turn: that each step of `AgentTurn` and of a server in
   PersistentTurn lowers a natural number is an action property, so the part of `TurnEnds` and
   `RequestAnswered` that does not need ENABLED can be proved.
2. What two servers keep of `LedgerSpec`, stated as a ledger with lost patches.
3. `SharedConnection`: the implicit transaction of the cached connection under
   failing statements, composed of PersistentTurn's writes.
4. The quality gate over the content of StatePatch, with the kinds of a list's
   elements.
