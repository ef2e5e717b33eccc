---------------------------- MODULE SchemaMigration ----------------------------
(***************************************************************************)
(* Database.apply_migrations: every process that opens the database file   *)
(* brings its schema up to date first.  executescript runs each statement  *)
(* of a migration in a transaction of its own, and the versions found      *)
(* applied are read once, before the first migration.  The version is      *)
(* recorded by a statement behind the script whose OperationalError is     *)
(* swallowed: the migration then counts as applied in this process only.   *)
(***************************************************************************)
EXTENDS Integers, Sequences

CONSTANTS
  Process,     \* processes that open the database file
  Object,      \* tables, indices and columns
  MIGRATIONS,  \* version -> statements; "create" is CREATE ... IF NOT EXISTS,
               \* "alter" is ALTER TABLE ... ADD COLUMN
  MaxCrashes,  \* bound of the model: how often a process dies
  MaxErrors    \* bound of the model: how often SQLite raises (locked, full)

Statement == [kind: {"create", "alter"}, object: Object]

ASSUME MigrationsAssumption == MIGRATIONS \in Seq(Seq(Statement))
ASSUME BoundsAssumption == MaxCrashes \in Nat /\ MaxErrors \in Nat

(* A column is added by one statement of the list and nowhere else.        *)
ASSUME AlteredOnceAssumption ==
  \A v, w \in 1..Len(MIGRATIONS) :
    \A i \in 1..Len(MIGRATIONS[v]), j \in 1..Len(MIGRATIONS[w]) :
      /\ MIGRATIONS[v][i].kind = "alter"
      /\ MIGRATIONS[w][j].object = MIGRATIONS[v][i].object
      => v = w /\ i = j

VARIABLES
  schema,     \* objects that exist in the file
  recorded,   \* rows of table schema_migrations
  pc,         \* pc[p]: what process p does next
  applied,    \* applied[p]: versions p found applied when it opened the file
  version,    \* version[p]: migration p is at
  statement,  \* statement[p]: next statement of that migration
  cut,        \* history: versions a crash or an error of SQLite interrupted
              \* or left unrecorded
  crashes,    \* crashes so far, bounds the model
  errors      \* errors so far, bounds the model

vars == <<schema, recorded, pc, applied, version, statement, cut, crashes, errors>>

faults == <<cut, crashes, errors>>

Version == 1..Len(MIGRATIONS)

Objects(v) == {MIGRATIONS[v][i].object : i \in 1..Len(MIGRATIONS[v])}

Current(p) == MIGRATIONS[version[p]][statement[p]]

Init ==
  /\ schema = {}
  /\ recorded = {}
  /\ pc = [p \in Process |-> "closed"]
  /\ applied = [p \in Process |-> {}]
  /\ version = [p \in Process |-> 0]
  /\ statement = [p \in Process |-> 1]
  /\ cut = {}
  /\ crashes = 0
  /\ errors = 0

(* Mutation of Open: a failed registry is kept and never opened again.     *)
OpenOnce(p) ==
  /\ pc[p] = "closed"
  /\ applied' = [applied EXCEPT ![p] = recorded]
  /\ version' = [version EXCEPT ![p] = 0]
  /\ pc' = [pc EXCEPT ![p] = "choose"]
  /\ UNCHANGED <<schema, recorded, statement, faults>>

(* A closed process, or one whose last attempt raised, opens the file.     *)
Open(p) ==
  /\ pc[p] \in {"closed", "failed"}
  /\ applied' = [applied EXCEPT ![p] = recorded]
  /\ version' = [version EXCEPT ![p] = 0]
  /\ pc' = [pc EXCEPT ![p] = "choose"]
  /\ UNCHANGED <<schema, recorded, statement, faults>>

(* The loop over MIGRATIONS skips what was found applied.                  *)
Pending(p) == {v \in Version : v > version[p] /\ v \notin applied[p]}

Enter(p, v) ==
  /\ pc' = [pc EXCEPT ![p] = "script"]
  /\ version' = [version EXCEPT ![p] = v]
  /\ statement' = [statement EXCEPT ![p] = 1]

Finish(p) ==
  /\ pc' = [pc EXCEPT ![p] = "ready"]
  /\ UNCHANGED <<version, statement>>

Choose(p) ==
  /\ pc[p] = "choose"
  /\ \/ Pending(p) = {} /\ Finish(p)
     \/ \E v \in Pending(p) : (\A u \in Pending(p) : v <= u) /\ Enter(p, v)
  /\ UNCHANGED <<schema, recorded, applied, faults>>

(* Mutation of Execute: a duplicate column ends the migration instead of   *)
(* the process, as if the OperationalError of the script were swallowed.   *)
ExecuteOrSkip(p) ==
  /\ pc[p] = "script"
  /\ statement[p] <= Len(MIGRATIONS[version[p]])
  /\ IF Current(p).kind = "alter" /\ Current(p).object \in schema
     THEN /\ pc' = [pc EXCEPT ![p] = "choose"]
          /\ UNCHANGED <<schema, statement>>
     ELSE /\ schema' = schema \cup {Current(p).object}
          /\ statement' = [statement EXCEPT ![p] = @ + 1]
          /\ UNCHANGED pc
  /\ UNCHANGED <<recorded, applied, version, faults>>

(* One statement of the script.  Adding a column that exists raises; what  *)
(* earlier statements of the migration did stays.                          *)
Execute(p) ==
  /\ pc[p] = "script"
  /\ statement[p] <= Len(MIGRATIONS[version[p]])
  /\ IF Current(p).kind = "alter" /\ Current(p).object \in schema
     THEN /\ pc' = [pc EXCEPT ![p] = "failed"]
          /\ UNCHANGED <<schema, statement>>
     ELSE /\ schema' = schema \cup {Current(p).object}
          /\ statement' = [statement EXCEPT ![p] = @ + 1]
          /\ UNCHANGED pc
  /\ UNCHANGED <<recorded, applied, version, faults>>

(* Mutations of Record: the version is recorded before its script ends;    *)
(* the table keeps the latest version only.                                *)
RecordEarly(p) ==
  /\ pc[p] = "script"
  /\ recorded' = recorded \cup {version[p]}
  /\ pc' = [pc EXCEPT ![p] = IF statement[p] > Len(MIGRATIONS[version[p]])
                             THEN "choose" ELSE @]
  /\ UNCHANGED <<schema, applied, version, statement, faults>>

RecordLatest(p) ==
  /\ pc[p] = "script"
  /\ statement[p] = Len(MIGRATIONS[version[p]]) + 1
  /\ recorded' = {version[p]}
  /\ pc' = [pc EXCEPT ![p] = "choose"]
  /\ UNCHANGED <<schema, applied, version, statement, faults>>

(* INSERT OR IGNORE INTO schema_migrations, and on to the next version.    *)
Record(p) ==
  /\ pc[p] = "script"
  /\ statement[p] = Len(MIGRATIONS[version[p]]) + 1
  /\ recorded' = recorded \cup {version[p]}
  /\ pc' = [pc EXCEPT ![p] = "choose"]
  /\ UNCHANGED <<schema, applied, version, statement, faults>>

(* SQLite raises inside version v.                                         *)
Error(p) ==
  /\ pc[p] = "script"
  /\ errors < MaxErrors
  /\ errors' = errors + 1
  /\ cut' = cut \cup {version[p]}
  /\ UNCHANGED <<schema, recorded, applied, version, statement, crashes>>

(* A statement of the script, or the commit behind the INSERT, raises: the *)
(* rollback takes back nothing of the script.                              *)
ScriptRaises(p) ==
  /\ Error(p)
  /\ pc' = [pc EXCEPT ![p] = "failed"]

(* The INSERT raises an OperationalError, which is swallowed: the loop     *)
(* goes on with the next version.                                          *)
InsertRaises(p) ==
  /\ Error(p)
  /\ statement[p] = Len(MIGRATIONS[version[p]]) + 1
  /\ pc' = [pc EXCEPT ![p] = "choose"]

Crash(p) ==
  /\ pc[p] # "closed"
  /\ crashes < MaxCrashes
  /\ crashes' = crashes + 1
  /\ cut' = IF pc[p] = "script" THEN cut \cup {version[p]} ELSE cut
  /\ pc' = [pc EXCEPT ![p] = "closed"]
  /\ UNCHANGED <<schema, recorded, applied, version, statement, errors>>

Step(p) == Open(p) \/ Choose(p) \/ Execute(p) \/ Record(p)

Next ==
  \E p \in Process : Step(p) \/ ScriptRaises(p) \/ InsertRaises(p) \/ Crash(p)

Spec == Init /\ [][Next]_vars

(* A process that opens the file goes on, and one that failed tries again: *)
(* the registry is cached only when initialize has returned, so the next   *)
(* turn constructs a new Database.                                         *)
FairSpec == Spec /\ \A p \in Process : WF_vars(Step(p))

-----------------------------------------------------------------------------
(* Every variable has its type, and a process inside a script is at one of *)
(* its statements or just behind the last.                                 *)
TypeOK ==
  /\ schema \subseteq Object
  /\ recorded \subseteq Version
  /\ pc \in [Process -> {"closed", "choose", "script", "ready", "failed"}]
  /\ applied \in [Process -> SUBSET Version]
  /\ version \in [Process -> Version \cup {0}]
  /\ statement \in [Process -> Nat]
  /\ \A p \in Process :
       pc[p] = "script" =>
         /\ version[p] \in Version
         /\ statement[p] \in 1..(Len(MIGRATIONS[version[p]]) + 1)
  /\ cut \subseteq Version
  /\ crashes \in 0..MaxCrashes
  /\ errors \in 0..MaxErrors

(* When a version is recorded, its objects and those of every version      *)
(* before it are in the file: get_applied_versions never leads a process   *)
(* to skip a statement that was not executed, whoever executed the others, *)
(* whoever crashed, and whichever of the versions before is not recorded.  *)
RecordedIsComplete ==
  \A v \in recorded : \A u \in 1..v : Objects(u) \subseteq schema

(* A process that initialize let through works on the full schema, also    *)
(* when the record of a version was swallowed.                             *)
ReadyMeansMigrated ==
  \A p \in Process : pc[p] = "ready" => \A v \in Version : Objects(v) \subseteq schema

(* A process inside its script is past statement i of version v.           *)
Past(v, i) == \E p \in Process : pc[p] = "script" /\ version[p] = v /\ i < statement[p]

(* A column of unrecorded version v is there and belongs to no process     *)
(* that is still inside that migration: adding it again will raise.        *)
ColumnLeft(v) ==
  /\ v \notin recorded
  /\ \E i \in 1..Len(MIGRATIONS[v]) :
       /\ MIGRATIONS[v][i].kind = "alter"
       /\ MIGRATIONS[v][i].object \in schema
       /\ ~Past(v, i)

(* Processes that migrate one file at once never leave a column behind by  *)
(* their interleaving, although each of them may fail on a column another  *)
(* one added: only a crash or an error of SQLite inside that very version  *)
(* does.                                                                   *)
OnlyFaultsLeaveColumns == \A v \in Version : ColumnLeft(v) => v \in cut

(* Every process is let through in the end, however often it was started.  *)
EveryProcessOpens == \A p \in Process : []<>(pc[p] = "ready")

NoColumnLeft == \A v \in Version : ~ColumnLeft(v)

(* Every process is let through in the end unless a column is left behind: *)
(* crashes and errors anywhere else do no harm, and a process that failed  *)
(* on a column another one added gets through when it tries again.         *)
WholeMigrationsReopen == []NoColumnLeft => EveryProcessOpens

=============================================================================
