------------------------ MODULE SchemaMigrationProofs ------------------------
(***************************************************************************)
(* For every list of migrations and any number of processes, crashes and   *)
(* errors of SQLite: a recorded version is complete, a process that        *)
(* initialize let through works on the full schema, and no interleaving    *)
(* leaves a column of an unrecorded version behind.                        *)
(***************************************************************************)
EXTENDS SchemaMigration, TLAPS

(* The versions a process found applied are recorded.                      *)
AppliedIsRecorded == \A p \in Process : applied[p] \subseteq recorded

(* Everything before the migration a process is at is in the file; it need *)
(* not be recorded, for the record of a version may have been swallowed.   *)
BehindIsThere ==
  \A p \in Process :
    /\ pc[p] = "choose" => \A u \in 1..version[p] : Objects(u) \subseteq schema
    /\ pc[p] = "script" => \A u \in 1..(version[p] - 1) : Objects(u) \subseteq schema

(* The statements a process is past have taken effect.                     *)
ExecutedIsThere ==
  \A p \in Process :
    pc[p] = "script" =>
      \A i \in 1..(statement[p] - 1) : MIGRATIONS[version[p]][i].object \in schema

(* The inductive invariant.  RecordedIsComplete alone is not inductive:    *)
(* Record needs to know that the script ran to its end and that what was   *)
(* passed over before it is in the file.                                   *)
MigrationInv ==
  /\ TypeOK
  /\ AppliedIsRecorded
  /\ RecordedIsComplete
  /\ BehindIsThere
  /\ ExecutedIsThere
  /\ ReadyMeansMigrated

LEMMA InitMigrationInv == Init => MigrationInv
BY BoundsAssumption
   DEF Init, MigrationInv, TypeOK, AppliedIsRecorded, RecordedIsComplete,
       BehindIsThere, ExecutedIsThere, ReadyMeansMigrated, Version

(* Nothing is ever dropped from the schema or from the recorded versions.  *)
LEMMA Growing == TypeOK /\ [Next]_vars => schema \subseteq schema' /\ recorded \subseteq recorded'
BY DEF Next, Step, Open, Choose, Enter, Finish, Execute, Record,
       Error, ScriptRaises, InsertRaises, Crash, vars, faults

LEMMA TypeStep == TypeOK /\ [Next]_vars => TypeOK'
<1> SUFFICES ASSUME TypeOK, [Next]_vars PROVE TypeOK'
  OBVIOUS
<1> USE MigrationsAssumption, BoundsAssumption DEF TypeOK, faults
<1>1. ASSUME NEW p \in Process, Open(p) PROVE TypeOK'
  BY <1>1 DEF Open
<1>2. ASSUME NEW p \in Process, Choose(p) PROVE TypeOK'
  <2>1. CASE Pending(p) = {} /\ Finish(p)
    BY <1>2, <2>1 DEF Choose, Finish
  <2>2. ASSUME NEW v \in Pending(p), Enter(p, v) PROVE TypeOK'
    <3>1. v \in Version /\ Len(MIGRATIONS[v]) \in Nat
      BY DEF Pending, Version
    <3> QED
      BY <1>2, <2>2, <3>1 DEF Choose, Enter
  <2> QED
    BY <1>2, <2>1, <2>2 DEF Choose
<1>3. ASSUME NEW p \in Process, Execute(p) PROVE TypeOK'
  <2>1. /\ version[p] \in Version
        /\ MIGRATIONS[version[p]] \in Seq(Statement)
        /\ statement[p] \in 1..Len(MIGRATIONS[version[p]])
    BY <1>3 DEF Execute, Version
  <2>2. MIGRATIONS[version[p]][statement[p]] \in Statement
    BY <2>1
  <2>3. Current(p).object \in Object
    BY <2>2 DEF Current, Statement
  <2>4. Len(MIGRATIONS[version[p]]) \in Nat
    BY <2>1
  <2>5. CASE Current(p).kind = "alter" /\ Current(p).object \in schema
    BY <1>3, <2>5 DEF Execute
  <2>6. CASE ~(Current(p).kind = "alter" /\ Current(p).object \in schema)
    <3>1. /\ schema' = schema \cup {Current(p).object}
          /\ statement' = [statement EXCEPT ![p] = @ + 1]
          /\ UNCHANGED <<pc, recorded, applied, version, faults>>
      BY <1>3, <2>6 DEF Execute
    <3> QED
      BY <2>1, <2>3, <2>4, <3>1
  <2> QED
    BY <2>5, <2>6
<1>4. ASSUME NEW p \in Process, Record(p) PROVE TypeOK'
  BY <1>4 DEF Record
<1>5. ASSUME NEW p \in Process, Crash(p) PROVE TypeOK'
  BY <1>5 DEF Crash
<1>6. ASSUME NEW p \in Process, ScriptRaises(p) \/ InsertRaises(p) PROVE TypeOK'
  <2>1. /\ UNCHANGED <<schema, recorded, applied, version, statement, crashes>>
        /\ cut' = cut \cup {version[p]} /\ version[p] \in Version
        /\ errors \in Nat /\ errors < MaxErrors /\ errors' = errors + 1
        /\ pc[p] = "script"
    BY <1>6 DEF ScriptRaises, InsertRaises, Error
  <2>2. \E c \in {"choose", "failed"} : pc' = [pc EXCEPT ![p] = c]
    BY <1>6 DEF ScriptRaises, InsertRaises
  <2>3. /\ pc' \in [Process -> {"closed", "choose", "script", "ready", "failed"}]
        /\ \A q \in Process : pc'[q] = "script" => pc[q] = "script"
    BY <2>2
  <2> QED
    BY <2>1, <2>3
<1>7. CASE UNCHANGED vars
  BY <1>7 DEF vars, faults
<1> QED
  BY <1>1, <1>2, <1>3, <1>4, <1>5, <1>6, <1>7 DEF Next, Step

LEMMA MigrationStep == MigrationInv /\ [Next]_vars => MigrationInv'
<1> SUFFICES ASSUME MigrationInv, [Next]_vars PROVE MigrationInv'
  OBVIOUS
<1>t. TypeOK /\ TypeOK'
  BY TypeStep DEF MigrationInv
<1>g. schema \subseteq schema' /\ recorded \subseteq recorded'
  BY <1>t, Growing
<1> USE MigrationsAssumption DEF MigrationInv
<1>1. ASSUME NEW p \in Process, Open(p) PROVE MigrationInv'
  <2>1. AppliedIsRecorded' /\ RecordedIsComplete'
    BY <1>1, <1>t DEF Open, TypeOK, AppliedIsRecorded, RecordedIsComplete, Objects
  <2>2. BehindIsThere'
    BY <1>1, <1>t DEF Open, TypeOK, BehindIsThere, Objects
  <2>3. ExecutedIsThere' /\ ReadyMeansMigrated'
    BY <1>1, <1>t DEF Open, TypeOK, ExecutedIsThere, ReadyMeansMigrated, Objects
  <2> QED
    BY <1>t, <2>1, <2>2, <2>3
<1>2. ASSUME NEW p \in Process, Choose(p) PROVE MigrationInv'
  <2>1. UNCHANGED <<schema, recorded, applied>>
    BY <1>2 DEF Choose
  <2>2. AppliedIsRecorded' /\ RecordedIsComplete'
    BY <2>1 DEF AppliedIsRecorded, RecordedIsComplete, Objects
  <2>3. \A u \in 1..version[p] : Objects(u) \subseteq schema
    BY <1>2 DEF Choose, BehindIsThere
  <2>4. \A u \in Version : u \in applied[p] => Objects(u) \subseteq schema
    <3>1. ASSUME NEW u \in Version, u \in applied[p] PROVE Objects(u) \subseteq schema
      <4>1. u \in 1..u /\ u \in recorded
        BY <1>t, <3>1 DEF AppliedIsRecorded, Version
      <4> QED
        BY <4>1 DEF RecordedIsComplete
    <3> QED
      BY <3>1
  <2>5. CASE Pending(p) = {} /\ Finish(p)
    <3>1. ASSUME NEW u \in Version PROVE Objects(u) \subseteq schema
      <4>1. u \in 1..version[p] \/ u > version[p]
        BY <1>t DEF Version, TypeOK
      <4> QED
        BY <2>3, <2>4, <2>5, <4>1 DEF Pending
    <3>2. ReadyMeansMigrated'
      BY <1>t, <2>1, <2>5, <3>1 DEF Finish, ReadyMeansMigrated, Version, TypeOK, Objects
    <3>3. BehindIsThere' /\ ExecutedIsThere'
      BY <1>t, <2>1, <2>5 DEF Finish, BehindIsThere, ExecutedIsThere, TypeOK, Objects
    <3> QED
      BY <1>t, <2>2, <3>2, <3>3
  <2>6. ASSUME NEW v \in Pending(p), \A u \in Pending(p) : v <= u, Enter(p, v)
        PROVE MigrationInv'
    <3>1. ASSUME NEW u \in 1..(v - 1) PROVE Objects(u) \subseteq schema
      <4>1. v \in Version /\ Len(MIGRATIONS) \in Nat /\ version[p] \in Nat
        BY <1>t DEF Pending, TypeOK, Version
      <4>2. u \in Version /\ ~(v <= u)
        BY <4>1 DEF Version
      <4>3. u \notin Pending(p)
        BY <2>6, <4>2
      <4>4. u \in 1..version[p] \/ u \in applied[p]
        BY <4>1, <4>2, <4>3 DEF Pending
      <4> QED
        BY <2>3, <2>4, <4>2, <4>4
    <3>2. BehindIsThere'
      BY <1>t, <2>1, <2>6, <3>1 DEF Enter, BehindIsThere, TypeOK, Objects
    <3>3. ExecutedIsThere'
      <4>1. \A q \in Process : pc'[q] = "script" =>
              IF q = p THEN statement'[q] = 1
              ELSE pc[q] = "script" /\ UNCHANGED <<version[q], statement[q]>>
        BY <1>t, <2>6 DEF Enter, TypeOK
      <4> QED
        BY <2>1, <4>1 DEF ExecutedIsThere
    <3>4. ReadyMeansMigrated'
      BY <1>t, <2>1, <2>6 DEF Enter, ReadyMeansMigrated, TypeOK, Objects
    <3> QED
      BY <1>t, <2>2, <3>2, <3>3, <3>4
  <2> QED
    BY <1>2, <2>5, <2>6 DEF Choose
<1>3. ASSUME NEW p \in Process, Execute(p) PROVE MigrationInv'
  <2>1. UNCHANGED <<recorded, applied, version>>
    BY <1>3 DEF Execute
  <2>2. AppliedIsRecorded' /\ RecordedIsComplete'
    BY <1>g, <2>1 DEF AppliedIsRecorded, RecordedIsComplete, Objects
  <2>3. BehindIsThere'
    <3>1. \A q \in Process : pc'[q] \in {"choose", "script"} => pc[q] = pc'[q]
      BY <1>3, <1>t DEF Execute, TypeOK
    <3> QED
      BY <1>g, <2>1, <3>1 DEF BehindIsThere, Objects
  <2>4. ReadyMeansMigrated'
    BY <1>3, <1>t, <1>g, <2>1 DEF Execute, ReadyMeansMigrated, TypeOK, Objects
  <2>5. ASSUME NEW q \in Process, pc'[q] = "script", NEW i \in 1..(statement'[q] - 1)
        PROVE MIGRATIONS[version[q]][i].object \in schema'
    <3>1. CASE q = p /\ i = statement[p]
      BY <1>3, <1>t, <2>5, <3>1 DEF Execute, Current, TypeOK
    <3>2. CASE ~(q = p /\ i = statement[p])
      <4>1. pc[q] = "script" /\ i \in 1..(statement[q] - 1)
        <5>1. /\ statement[q] \in Nat /\ pc[q] = "script"
              /\ \/ statement'[q] = statement[q]
                 \/ q = p /\ statement'[q] = statement[p] + 1
          <6>1. \/ pc' = [pc EXCEPT ![p] = "failed"] /\ statement' = statement
                \/ pc' = pc /\ statement' = [statement EXCEPT ![p] = statement[p] + 1]
            BY <1>3 DEF Execute
          <6>2. pc \in [Process -> {"closed", "choose", "script", "ready", "failed"}]
                /\ statement \in [Process -> Nat]
            BY <1>t DEF TypeOK
          <6> QED
            BY <2>5, <6>1, <6>2
        <5> QED
          BY <2>5, <3>2, <5>1
      <4> QED
        BY <1>g, <4>1 DEF ExecutedIsThere
    <3> QED
      BY <3>1, <3>2
  <2> QED
    BY <1>t, <2>1, <2>2, <2>3, <2>4, <2>5 DEF ExecutedIsThere
<1>s. ASSUME NEW p \in Process, pc[p] = "script", version[p] \in Version,
             statement[p] = Len(MIGRATIONS[version[p]]) + 1
      PROVE  \A u \in 1..version[p] : Objects(u) \subseteq schema
  (* The script ran to its end.                                            *)
  <2>1. Len(MIGRATIONS[version[p]]) \in Nat
    BY <1>s DEF Version
  <2>2. Objects(version[p]) \subseteq schema
    BY <1>s, <2>1 DEF ExecutedIsThere, Objects
  <2>3. \A u \in 1..(version[p] - 1) : Objects(u) \subseteq schema
    BY <1>s DEF BehindIsThere
  <2> QED
    BY <1>s, <2>2, <2>3 DEF Version
<1>4. ASSUME NEW p \in Process, Record(p) PROVE MigrationInv'
  <2>1. UNCHANGED <<schema, applied, version, statement>>
    BY <1>4 DEF Record
  <2>2. AppliedIsRecorded'
    BY <1>g, <2>1 DEF AppliedIsRecorded
  <2>3. /\ version[p] \in Version
        /\ recorded' = recorded \cup {version[p]}
        /\ \A u \in 1..version[p] : Objects(u) \subseteq schema
    BY <1>4, <1>s, <1>t DEF Record, TypeOK
  <2>4. RecordedIsComplete'
    BY <2>1, <2>3 DEF RecordedIsComplete, Objects
  <2>5. BehindIsThere'
    BY <1>4, <1>t, <2>1, <2>3, SMTT(30) DEF Record, BehindIsThere, TypeOK, Objects
  <2>6. ExecutedIsThere'
    BY <1>4, <1>t, <2>1 DEF Record, ExecutedIsThere, TypeOK
  <2>7. ReadyMeansMigrated'
    BY <1>4, <1>t, <2>1 DEF Record, ReadyMeansMigrated, TypeOK, Objects
  <2> QED
    BY <1>t, <2>2, <2>4, <2>5, <2>6, <2>7
<1>5. ASSUME NEW p \in Process, Crash(p) \/ ScriptRaises(p) PROVE MigrationInv'
  <2>1. /\ UNCHANGED <<schema, recorded, applied, version, statement>>
        /\ \E c \in {"closed", "failed"} : pc' = [pc EXCEPT ![p] = c]
    BY <1>5 DEF Crash, ScriptRaises, Error
  <2>2. \A q \in Process : pc'[q] \in {"choose", "script", "ready"} => pc[q] = pc'[q]
    BY <1>t, <2>1 DEF TypeOK
  <2>3. AppliedIsRecorded' /\ RecordedIsComplete'
    BY <2>1 DEF AppliedIsRecorded, RecordedIsComplete, Objects
  <2>4. ExecutedIsThere' /\ BehindIsThere' /\ ReadyMeansMigrated'
    BY <2>1, <2>2 DEF ExecutedIsThere, BehindIsThere, ReadyMeansMigrated, Objects
  <2> QED
    BY <1>t, <2>3, <2>4
<1>6. ASSUME NEW p \in Process, InsertRaises(p) PROVE MigrationInv'
  <2>1. /\ UNCHANGED <<schema, recorded, applied, version, statement>>
        /\ pc' = [pc EXCEPT ![p] = "choose"]
    BY <1>6 DEF InsertRaises, Error
  <2>2. \A u \in 1..version[p] : Objects(u) \subseteq schema
    BY <1>6, <1>s, <1>t DEF InsertRaises, Error, TypeOK
  <2>3. \A q \in Process :
          /\ pc'[q] \in {"script", "ready"} => pc[q] = pc'[q]
          /\ pc'[q] = "choose" /\ q # p => pc[q] = "choose"
    BY <1>t, <2>1 DEF TypeOK
  <2>4. AppliedIsRecorded' /\ RecordedIsComplete'
    BY <2>1 DEF AppliedIsRecorded, RecordedIsComplete, Objects
  <2>5. ExecutedIsThere' /\ ReadyMeansMigrated'
    BY <2>1, <2>3 DEF ExecutedIsThere, ReadyMeansMigrated, Objects
  <2>6. BehindIsThere'
    BY <2>1, <2>2, <2>3 DEF BehindIsThere, Objects
  <2> QED
    BY <1>t, <2>4, <2>5, <2>6
<1>7. CASE UNCHANGED vars
  BY <1>7, <1>t DEF vars, AppliedIsRecorded, RecordedIsComplete, Objects,
       BehindIsThere, ExecutedIsThere, ReadyMeansMigrated
<1> QED
  BY <1>1, <1>2, <1>3, <1>4, <1>5, <1>6, <1>7 DEF Next, Step

LEMMA AlwaysMigrationInv == Spec => []MigrationInv
BY InitMigrationInv, MigrationStep, PTL DEF Spec

(* Every variable keeps its type: in particular a process inside a script  *)
(* is at one of its statements or just behind the last.                    *)
THEOREM TypeCorrect == Spec => []TypeOK
<1>1. MigrationInv => TypeOK
  BY DEF MigrationInv
<1> QED
  BY <1>1, AlwaysMigrationInv, PTL

(* What schema_migrations says was applied is in the file, with all that   *)
(* comes before it, whoever opened it together with whom, died where, and  *)
(* whichever record was swallowed.                                         *)
THEOREM RecordedVersionsComplete == Spec => []RecordedIsComplete
<1>1. MigrationInv => RecordedIsComplete
  BY DEF MigrationInv
<1> QED
  BY <1>1, AlwaysMigrationInv, PTL

(* initialize returns only on the full schema, recorded or not.            *)
THEOREM OpenedIsMigrated == Spec => []ReadyMeansMigrated
<1>1. MigrationInv => ReadyMeansMigrated
  BY DEF MigrationInv
<1> QED
  BY <1>1, AlwaysMigrationInv, PTL

-----------------------------------------------------------------------------
(* OnlyFaultsLeaveColumns, as an induction uses it: a process that fails   *)
(* on a column leaves its own statements to the one that added that        *)
(* column, which is further in the same script.                            *)
ColumnsAreOwned ==
  \A v \in Version : \A i \in 1..Len(MIGRATIONS[v]) :
    MIGRATIONS[v][i].kind = "alter" /\ MIGRATIONS[v][i].object \in schema =>
      v \in recorded \/ v \in cut \/ Past(v, i)

LEMMA OwnersStay ==
  ASSUME ColumnsAreOwned, recorded \subseteq recorded', cut \subseteq cut',
         UNCHANGED schema,
         \A v \in Version : \A i \in 1..Len(MIGRATIONS[v]) :
           Past(v, i) => v \in recorded' \/ v \in cut' \/ Past(v, i)'
  PROVE  ColumnsAreOwned'
BY DEF ColumnsAreOwned, Version

LEMMA OwnedStep == MigrationInv /\ ColumnsAreOwned /\ [Next]_vars => ColumnsAreOwned'
<1> SUFFICES ASSUME MigrationInv, ColumnsAreOwned, [Next]_vars
             PROVE  ColumnsAreOwned'
  OBVIOUS
<1>t. TypeOK /\ TypeOK'
  BY TypeStep DEF MigrationInv
<1>g. recorded \subseteq recorded'
  BY <1>t, Growing
<1>1. CASE UNCHANGED vars
  BY <1>1 DEF vars, faults, ColumnsAreOwned, Past, Version
<1>2. ASSUME NEW p \in Process, Open(p) PROVE ColumnsAreOwned'
  <2>1. \A v, i : Past(v, i) => Past(v, i)'
    BY <1>t, <1>2 DEF Open, Past, TypeOK
  <2> QED
    BY <1>g, <1>2, <2>1, OwnersStay DEF Open, faults
<1>3. ASSUME NEW p \in Process, Choose(p) PROVE ColumnsAreOwned'
  <2>1. \A v, i : Past(v, i) => Past(v, i)'
    BY <1>t, <1>3 DEF Choose, Enter, Finish, Past, TypeOK
  <2> QED
    BY <1>g, <1>3, <2>1, OwnersStay DEF Choose, faults
<1>4. ASSUME NEW p \in Process, Record(p) PROVE ColumnsAreOwned'
  <2>1. \A v, i : Past(v, i) => v \in recorded' \/ Past(v, i)'
    BY <1>t, <1>4 DEF Record, Past, TypeOK
  <2> QED
    BY <1>g, <1>4, <2>1, OwnersStay DEF Record, faults
<1>5. ASSUME NEW p \in Process, Crash(p) PROVE ColumnsAreOwned'
  <2>1. cut \subseteq cut'
    BY <1>5 DEF Crash
  <2>2. \A v, i : Past(v, i) => v \in cut' \/ Past(v, i)'
    BY <1>t, <1>5 DEF Crash, Past, TypeOK
  <2> QED
    BY <1>g, <1>5, <2>1, <2>2, OwnersStay DEF Crash
<1>6. ASSUME NEW p \in Process, ScriptRaises(p) \/ InsertRaises(p) PROVE ColumnsAreOwned'
  <2>1. cut \subseteq cut'
    BY <1>6 DEF ScriptRaises, InsertRaises, Error
  <2>2. \A v, i : Past(v, i) => v \in cut' \/ Past(v, i)'
    BY <1>t, <1>6 DEF ScriptRaises, InsertRaises, Error, Past, TypeOK
  <2> QED
    BY <1>g, <1>6, <2>1, <2>2, OwnersStay DEF ScriptRaises, InsertRaises, Error
<1>7. ASSUME NEW p \in Process, Execute(p) PROVE ColumnsAreOwned'
  <2> DEFINE w == version[p]
             k == statement[p]
  <2>1. /\ pc[p] = "script" /\ w \in Version /\ k \in 1..Len(MIGRATIONS[w])
        /\ UNCHANGED <<recorded, version, cut>>
    BY <1>t, <1>7, MigrationsAssumption DEF Execute, TypeOK, Version, faults
  <2>2. CASE Current(p).kind = "alter" /\ Current(p).object \in schema
    (* The column has another owner, which is past statement k of w.       *)
    <3>1. pc' = [pc EXCEPT ![p] = "failed"] /\ UNCHANGED <<schema, statement>>
      BY <1>7, <2>2 DEF Execute
    <3>2. w \in recorded \/ w \in cut \/ Past(w, k)
      BY <2>1, <2>2 DEF ColumnsAreOwned, Current
    <3>3. ASSUME NEW u \in Version, NEW j \in 1..Len(MIGRATIONS[u]), Past(u, j)
          PROVE  u \in recorded' \/ u \in cut' \/ Past(u, j)'
      <4>1. PICK q \in Process : pc[q] = "script" /\ version[q] = u /\ j < statement[q]
        BY <3>3 DEF Past
      <4>2. CASE q # p
        BY <1>t, <2>1, <3>1, <4>1, <4>2 DEF Past, TypeOK
      <4>3. CASE q = p /\ (w \in recorded \/ w \in cut)
        BY <2>1, <4>1, <4>3
      <4>4. CASE q = p /\ Past(w, k)
        <5>1. PICK r \in Process : pc[r] = "script" /\ version[r] = w /\ k < statement[r]
          BY <4>4 DEF Past
        <5>2. r # p /\ j < statement[r]
          BY <1>t, <2>1, <4>1, <4>4, <5>1 DEF TypeOK
        <5> QED
          BY <1>t, <2>1, <3>1, <4>1, <4>4, <5>1, <5>2 DEF Past, TypeOK
      <4> QED
        BY <3>2, <4>1, <4>2, <4>3, <4>4
    <3> QED
      BY <1>g, <2>1, <3>1, <3>3, OwnersStay
  <2>3. CASE ~(Current(p).kind = "alter" /\ Current(p).object \in schema)
    <3>1. /\ schema' = schema \cup {MIGRATIONS[w][k].object}
          /\ statement' = [statement EXCEPT ![p] = k + 1]
          /\ UNCHANGED pc
      BY <1>7, <2>3 DEF Execute, Current
    <3>2. \A u \in Version : \A j \in 1..Len(MIGRATIONS[u]) : Past(u, j) => Past(u, j)'
      BY <1>t, <2>1, <3>1, MigrationsAssumption DEF Past, TypeOK, Version
    <3>3. \A v, i : v = w /\ i = k => Past(v, i)'
      <4>1. pc'[p] = "script" /\ version'[p] = w /\ statement'[p] = k + 1 /\ k < k + 1
        BY <1>t, <2>1, <3>1 DEF TypeOK
      <4> QED
        BY <4>1 DEF Past
    <3>4. ASSUME NEW v \in Version, NEW i \in 1..Len(MIGRATIONS[v]),
                 MIGRATIONS[v][i].kind = "alter", MIGRATIONS[v][i].object \in schema'
          PROVE  v \in recorded' \/ v \in cut' \/ Past(v, i)'
      <4>1. CASE MIGRATIONS[v][i].object \in schema
        BY <2>1, <3>2, <3>4, <4>1 DEF ColumnsAreOwned
      <4>2. CASE MIGRATIONS[v][i].object = MIGRATIONS[w][k].object
        <5>1. v = w /\ i = k
          BY <2>1, <3>4, <4>2, AlteredOnceAssumption, SMTT(30) DEF Version
        <5> QED
          BY <3>3, <5>1
      <4> QED
        BY <3>1, <3>4, <4>1, <4>2
    <3> QED
      BY <3>4 DEF ColumnsAreOwned, Version
  <2> QED
    BY <2>2, <2>3
<1> QED
  BY <1>1, <1>2, <1>3, <1>4, <1>5, <1>6, <1>7 DEF Next, Step

(* However many processes migrate one file at once and fail on a column    *)
(* another one added: a column of an unrecorded version that no process is *)
(* still responsible for was left by a crash or an error of SQLite inside  *)
(* that version.                                                           *)
THEOREM MigrationsAtomic == Spec => []OnlyFaultsLeaveColumns
<1>1. Init => ColumnsAreOwned
  BY DEF Init, ColumnsAreOwned
<1>2. ColumnsAreOwned => OnlyFaultsLeaveColumns
  BY DEF ColumnsAreOwned, OnlyFaultsLeaveColumns, ColumnLeft
<1> QED
  BY <1>1, <1>2, AlwaysMigrationInv, OwnedStep, PTL DEF Spec

=============================================================================
