----------------------------- MODULE Migrations ------------------------------
(***************************************************************************)
(* Migration jobs that bring one database to the schema of their build     *)
(* (packages/db/src/migrations.ts), and the readiness check of the servers *)
(* (schema-version.ts, Database.assertSchemaReady).                        *)
(*                                                                         *)
(* A job is one SERIALIZABLE transaction.  Its snapshot is taken by the    *)
(* first statement, CREATE TABLE IF NOT EXISTS, and the advisory lock is   *)
(* waited for by the second: what another job commits in between is not    *)
(* seen by the third, which reads the rows, but it is there for the        *)
(* primary key.                                                            *)
(***************************************************************************)
EXTENDS Integers, FiniteSets, Sequences

CONSTANTS
    Migrators,   \* runs of the migrate command
    PackageOf    \* the migration files each is built with, in the order of their names

\* A file: its place in that order, and its content.
File == [version : Nat, digest : Nat]

ASSUME MigrationsAssumption ==
    /\ PackageOf \in [Migrators -> Seq(File)]
    /\ \A m \in Migrators : LET p == PackageOf[m] IN
          /\ p # <<>>
          /\ \A i, j \in 1..Len(p) : i < j => p[i].version < p[j].version

VARIABLES
    ledger,   \* the committed rows of arcdb_schema_migrations
    schema,   \* the files whose SQL took effect, in that order
    migrators \* the transaction of each job

migrationVars == <<ledger, schema, migrators>>

FilesOf(m) == {PackageOf[m][i] : i \in 1..Len(PackageOf[m])}
Migrator   == [at : {"idle", "begun", "locked", "done", "modified", "conflict"},
               snapshot : SUBSET File, next : Nat, own : Seq(File)]
NotRunning == [at |-> "idle", snapshot |-> {}, next |-> 1, own |-> <<>>]

MigrationsInit ==
    /\ ledger = {}
    /\ schema = <<>>
    /\ migrators = [m \in Migrators |-> NotRunning]

-----------------------------------------------------------------------------
(* KeyUnchecked and ReadyByVersion are faulty variants of the definition   *)
(* that follows them.                                                      *)

\* ensureMigrationTable
BeginMigration(m) ==
    /\ migrators[m].at = "idle"
    /\ migrators' = [migrators EXCEPT ![m] = [NotRunning EXCEPT !.at = "begun",
                                                               !.snapshot = ledger]]
    /\ UNCHANGED <<ledger, schema>>

\* pg_advisory_xact_lock
LockMigrations(m) ==
    /\ migrators[m].at = "begun"
    /\ \A n \in Migrators : migrators[n].at # "locked"
    /\ migrators' = [migrators EXCEPT ![m].at = "locked"]
    /\ UNCHANGED <<ledger, schema>>

KeyUnchecked(f, rows) == TRUE

\* The primary key of arcdb_schema_migrations.
KeyIsFree(f, rows) == \A g \in rows : g.version # f.version

\* One file of the loop.  The job ends with an error, and its transaction is rolled
\* back, if an applied file was modified or if it was applied behind its snapshot.
MigrateFile(m) ==
    LET job   == migrators[m]
        f     == PackageOf[m][job.next]
        known == {g \in job.snapshot : g.version = f.version}
    IN  /\ job.at = "locked"
        /\ job.next <= Len(PackageOf[m])
        /\ \/ /\ known = {f}
              /\ migrators' = [migrators EXCEPT ![m].next = @ + 1]
           \/ /\ known \notin {{}, {f}}
              /\ migrators' = [migrators EXCEPT ![m] = [NotRunning EXCEPT !.at = "modified"]]
           \/ /\ known = {} /\ KeyIsFree(f, ledger)
              /\ migrators' = [migrators EXCEPT ![m].next = @ + 1, ![m].own = Append(@, f)]
           \/ /\ known = {} /\ ~KeyIsFree(f, ledger)
              /\ migrators' = [migrators EXCEPT ![m] = [NotRunning EXCEPT !.at = "conflict"]]
        /\ UNCHANGED <<ledger, schema>>

CommitMigration(m) ==
    LET own == migrators[m].own
    IN  /\ migrators[m].at = "locked"
        /\ migrators[m].next > Len(PackageOf[m])
        /\ ledger' = ledger \union {own[i] : i \in 1..Len(own)}
        /\ schema' = schema \o own
        /\ migrators' = [migrators EXCEPT ![m] = [NotRunning EXCEPT !.at = "done"]]

\* The job is run again: it had ended, or it crashes.
RunAgain(m) ==
    /\ migrators[m].at # "idle"
    /\ migrators' = [migrators EXCEPT ![m] = NotRunning]
    /\ UNCHANGED <<ledger, schema>>

MigrationsNext == \E m \in Migrators :
    \/ BeginMigration(m) \/ LockMigrations(m) \/ MigrateFile(m) \/ CommitMigration(m)
    \/ RunAgain(m)

MigrationsSpec == MigrationsInit /\ [][MigrationsNext]_migrationVars

ReadyByVersion(m) == \E f \in ledger : f.version = PackageOf[m][Len(PackageOf[m])].version

\* assertSchemaReady, of a server of the same build as m: the newest file of its
\* package, CURRENT_SCHEMA_MIGRATION, was applied.
SchemaReady(m) == PackageOf[m][Len(PackageOf[m])] \in ledger

-----------------------------------------------------------------------------
(* Properties.                                                             *)

MigrationsTypeOK ==
    /\ ledger \subseteq UNION {FilesOf(m) : m \in Migrators}
    /\ schema \in Seq(File)
    /\ migrators \in [Migrators -> Migrator]

\* No migration takes effect twice, also when jobs of several builds run at the same
\* time with snapshots that are out of date, crash and are run again; and what the
\* table says is what took effect.
EachAppliedOnce ==
    /\ \A i, j \in 1..Len(schema) : i # j => schema[i].version # schema[j].version
    /\ ledger = {schema[i] : i \in 1..Len(schema)}

\* A server is told that its schema is there only if every file of its build was
\* applied as it has it, or if its newest one was applied by a build that lacks one
\* of the others or has it otherwise: readiness looks at the newest file only.
ReadyMeansComplete ==
    \A m \in Migrators : SchemaReady(m) =>
        \/ FilesOf(m) \subseteq ledger
        \/ \E n \in Migrators : SchemaReady(n) /\ ~(FilesOf(m) \subseteq FilesOf(n))
                                /\ PackageOf[m][Len(PackageOf[m])] \in FilesOf(n)
=============================================================================
