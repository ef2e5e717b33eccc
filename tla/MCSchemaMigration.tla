-------------------------- MODULE MCSchemaMigration --------------------------
(***************************************************************************)
(* The migrations of storage/sqlite/database.py with one statement for     *)
(* each group of statements that behave alike: version 2 adds columns to   *)
(* two tables, with indices and tables created in between.                 *)
(***************************************************************************)
EXTENDS SchemaMigration

create(o) == [kind |-> "create", object |-> o]
alter(o) == [kind |-> "alter", object |-> o]

Migrations ==
  << << create("schema_migrations"), create("active_memory_records") >>,
     << alter("active.kind"), alter("active.summary"),
        create("idx_active_memories_kind"),
        alter("rag.scope"), create("memory_recall_logs") >>,
     << create("card_definitions"), create("card_quarantine_records") >>,
     << create("card_session_bindings") >> >>

AllObjects ==
  UNION {{Migrations[v][i].object : i \in DOMAIN Migrations[v]} :
           v \in DOMAIN Migrations}

=============================================================================
