----------------------------- MODULE Migrations -----------------------------
(***************************************************************************)
(* run_embedded_migrations (runtime/src/db/migrations.rs), run by every    *)
(* replica of the chassis when it starts, on one PostgreSQL database.  The *)
(* DDL is CREATE ... IF NOT EXISTS; it and the row that records the version*)
(* are one transaction.                                                    *)
(*                                                                         *)
(* A statement waits for another transaction that creates the same object, *)
(* or inserts the same key, and has not ended.                             *)
(***************************************************************************)
EXTENDS Naturals

CONSTANTS Replicas,
          MaxMigration  \* the embedded migrations are 1..MaxMigration, in order

ASSUME MigrationsAssumption == MaxMigration \in Nat

VARIABLES migrator,     \* each replica's run
          recorded,     \* committed rows of schema_migrations
          built         \* history: times a migration's DDL and row were committed

migrations == <<migrator, recorded, built>>

Versions == 1..MaxMigration

\* seen: the versions that were applied when it looked; at: the next to look at;
\* tx: the version whose transaction is open on its connection (0: none).
NoMigrator == [pc |-> "none", seen |-> {}, at |-> 1, tx |-> 0]

MigrationsInit ==
    /\ migrator = [c \in Replicas |-> NoMigrator]
    /\ recorded = {}
    /\ built = [v \in Versions |-> 0]

Migrating(c, pc) == migrator[c].pc = pc

\* The run returns early.  A Transaction that goes out of scope rolls back; the
\* connection goes back to the pool and stays open.
EndsInTransaction(run) == [run EXCEPT !.pc = "ended"]
Ends(run) == [run EXCEPT !.pc = "ended", !.tx = 0]
Fail(c) == migrator' = [migrator EXCEPT ![c] = Ends(@)]

\* Begins; if there is no connection, the caller logs that and goes on.
BeginMigrations(c) ==
    /\ \E pc \in {"ensure", "ended"} :
          migrator' = [migrator EXCEPT ![c] = [NoMigrator EXCEPT !.pc = pc]]
    /\ UNCHANGED <<recorded, built>>

\* Any statement may fail.
MigrationFails(c) ==
    /\ ~Migrating(c, "none") /\ ~Migrating(c, "ended")
    /\ Fail(c)
    /\ UNCHANGED <<recorded, built>>

\* CREATE TABLE IF NOT EXISTS schema_migrations, and SELECT version.
ReadApplied(c) ==
    /\ Migrating(c, "ensure")
    /\ migrator' = [migrator EXCEPT ![c].pc = "next", ![c].seen = recorded]
    /\ UNCHANGED <<recorded, built>>

\* The next migration that was not applied, or the end.
NextMigration(c) ==
    LET at == migrator[c].at
    IN  /\ Migrating(c, "next")
        /\ migrator' = [migrator EXCEPT
             ![c].pc = IF at > MaxMigration THEN "ended"
                       ELSE IF at \in migrator[c].seen THEN "next" ELSE "ddl",
             ![c].at = IF at \in migrator[c].seen THEN @ + 1 ELSE @]
        /\ UNCHANGED <<recorded, built>>

\* The DDL, in a transaction: IF NOT EXISTS passes over what is committed, and
\* waits for what is not.
ExecuteDdl(c) ==
    /\ Migrating(c, "ddl")
    /\ \A d \in Replicas \ {c} : migrator[d].tx # migrator[c].at
    /\ migrator' = [migrator EXCEPT ![c].pc = "insert", ![c].tx = migrator[c].at]
    /\ UNCHANGED <<recorded, built>>

InsertOrIgnore(c) == TRUE
PrimaryKeyFree(c) == migrator[c].at \notin recorded

\* INSERT INTO schema_migrations: a version that is there is an error.
InsertVersion(c) ==
    /\ Migrating(c, "insert")
    /\ IF PrimaryKeyFree(c) THEN migrator' = [migrator EXCEPT ![c].pc = "commit"]
       ELSE Fail(c)
    /\ UNCHANGED <<recorded, built>>

\* COMMIT; the answer may be lost.
CommitMigration(c) ==
    LET at == migrator[c].at
    IN  /\ Migrating(c, "commit")
        /\ recorded' = recorded \cup {at}
        /\ built' = [built EXCEPT ![at] = @ + 1]
        /\ \E pc \in {"next", "ended"} :
              migrator' = [migrator EXCEPT ![c].pc = pc, ![c].at = @ + 1, ![c].tx = 0]

Migrate(c) ==
    \/ ReadApplied(c) \/ NextMigration(c) \/ ExecuteDdl(c) \/ InsertVersion(c)
    \/ CommitMigration(c)

\* The process ends, which closes the connection: the server rolls back.
ForgetMigrator(c) ==
    /\ migrator' = [migrator EXCEPT ![c] = NoMigrator]
    /\ UNCHANGED <<recorded, built>>
=============================================================================
