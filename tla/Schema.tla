-------------------------------- MODULE Schema --------------------------------
(***************************************************************************)
(* storage.New and migrate (internal/storage/storage.go): every process    *)
(* that opens the database, the daemon and the command-line subcommands,   *)
(* applies the migration files that are not recorded yet, statement by     *)
(* statement and without a transaction. A process may be killed at any     *)
(* step, and two of them may open the database at once. systemd starts the *)
(* daemon again when it has died.                                          *)
(***************************************************************************)
EXTENDS Integers, Sequences, FiniteSets

CONSTANTS
    Openers,      \* processes that open the database
    Statements,   \* how many statements each migration file has
    Alters,       \* <<file, statement>> that cannot be executed twice
    Pragma,       \* the statement that switches foreign keys on
    MaxCrashes    \* bound: processes killed

Files == DOMAIN Statements
AllStatements == UNION {{f} \X (1..Statements[f]) : f \in Files}

ASSUME StatementsAssumption == Statements \in Seq(Nat \ {0})
ASSUME AltersAssumption == Alters \subseteq AllStatements /\ Pragma \in AllStatements
ASSUME CrashAssumption == MaxCrashes \in Nat

VARIABLES
    phase,    \* of a process: "off", "migrate" or "ready"
    file,     \* the file migrate is at
    stmt,     \* 0: look whether it is recorded, then its statements, then record it
    fk,       \* foreign keys are enforced on the process's connection
    schema,   \* statements whose effect is in the database
    applied,  \* schema_migrations
    crashes

procVars == <<phase, file, stmt, fk>>
schemaVars == <<procVars, schema, applied, crashes>>

SchemaInit ==
    /\ phase = [p \in Openers |-> "off"]
    /\ file = [p \in Openers |-> 1]
    /\ stmt = [p \in Openers |-> 0]
    /\ fk = [p \in Openers |-> FALSE]
    /\ schema = {}
    /\ applied = {}
    /\ crashes = 0

Here(p) == <<file[p], stmt[p]>>
Migrating(p) == phase[p] = "migrate"

(* The position after the file p is at.                                    *)
NextFile(p) ==
    /\ file' = [file EXCEPT ![p] = @ + 1]
    /\ stmt' = [stmt EXCEPT ![p] = 0]

(* storage.New: the connection starts with foreign keys off. (An opening   *)
(* that fails at the journal_mode pragma changes nothing.)                 *)
Open(p) ==
    /\ phase[p] = "off"
    /\ phase' = [phase EXCEPT ![p] = "migrate"]
    /\ file' = [file EXCEPT ![p] = 1]
    /\ stmt' = [stmt EXCEPT ![p] = 0]
    /\ fk' = [fk EXCEPT ![p] = FALSE]
    /\ UNCHANGED <<schema, applied, crashes>>

(* Variant: schema_migrations is not asked.                                *)
LookNot(p) ==
    /\ Migrating(p) /\ stmt[p] = 0 /\ file[p] \in Files
    /\ stmt' = [stmt EXCEPT ![p] = 1]
    /\ UNCHANGED <<phase, file, fk, schema, applied, crashes>>

(* A recorded file is skipped.                                             *)
Look(p) ==
    /\ Migrating(p) /\ stmt[p] = 0 /\ file[p] \in Files
    /\ IF file[p] \in applied THEN NextFile(p)
                              ELSE stmt' = [stmt EXCEPT ![p] = 1] /\ UNCHANGED file
    /\ UNCHANGED <<phase, fk, schema, applied, crashes>>

(* One statement of a file; each commits by itself.                        *)
Exec(p) ==
    /\ Migrating(p) /\ Here(p) \in AllStatements
    /\ Here(p) \notin Alters \intersect schema
    /\ schema' = schema \union {Here(p)}
    /\ fk' = [fk EXCEPT ![p] = @ \/ Here(p) = Pragma]
    /\ stmt' = [stmt EXCEPT ![p] = @ + 1]
    /\ UNCHANGED <<phase, file, applied, crashes>>

(* The column is there already: migrate, New and the process end with an   *)
(* error.                                                                  *)
ExecFails(p) ==
    /\ Migrating(p) /\ Here(p) \in Alters \intersect schema
    /\ phase' = [phase EXCEPT ![p] = "off"]
    /\ UNCHANGED <<file, stmt, fk, schema, applied, crashes>>

(* Variant: a file is recorded when its first statement has run.           *)
RecordEarly(p) ==
    /\ Migrating(p) /\ file[p] \in Files /\ stmt[p] > 1
    /\ applied' = applied \union {file[p]}
    /\ IF stmt[p] > Statements[file[p]] THEN NextFile(p) ELSE UNCHANGED <<file, stmt>>
    /\ UNCHANGED <<phase, fk, schema, crashes>>

(* The insert into schema_migrations. When the other process has made it   *)
(* before, the path is not unique: an error again.                         *)
Record(p) ==
    /\ Migrating(p) /\ file[p] \in Files /\ stmt[p] > Statements[file[p]]
    /\ IF file[p] \in applied
         THEN phase' = [phase EXCEPT ![p] = "off"] /\ UNCHANGED <<file, stmt, applied>>
         ELSE applied' = applied \union {file[p]} /\ NextFile(p) /\ UNCHANGED phase
    /\ UNCHANGED <<fk, schema, crashes>>

Ready(p) ==
    /\ Migrating(p) /\ file[p] \notin Files
    /\ phase' = [phase EXCEPT ![p] = "ready"]
    /\ UNCHANGED <<file, stmt, fk, schema, applied, crashes>>

(* The process is killed while it opens the database.                      *)
Kill(p) ==
    /\ Migrating(p) /\ crashes < MaxCrashes
    /\ phase' = [phase EXCEPT ![p] = "off"]
    /\ crashes' = crashes + 1
    /\ UNCHANGED <<file, stmt, fk, schema, applied>>

(* It has done its work, exits on a signal, or is killed later.            *)
Stop(p) ==
    /\ phase[p] = "ready"
    /\ phase' = [phase EXCEPT ![p] = "off"]
    /\ UNCHANGED <<file, stmt, fk, schema, applied, crashes>>

migrate(p) == Look(p) \/ Exec(p) \/ ExecFails(p) \/ Record(p)

-----------------------------------------------------------------------------
(* Properties.                                                             *)

SchemaTypes ==
    /\ phase \in [Openers -> {"off", "migrate", "ready"}]
    /\ file \in [Openers -> Nat \ {0}]
    /\ stmt \in [Openers -> Nat]
    /\ fk \in [Openers -> BOOLEAN]
    /\ schema \subseteq AllStatements
    /\ applied \subseteq Files
    /\ crashes \in 0..MaxCrashes

(* Whatever was killed or raced in earlier openings, a process that gets   *)
(* past New finds the whole schema, and what is recorded was executed.     *)
ReadyHasSchema ==
    /\ \A p \in Openers : phase[p] = "ready" => schema = AllStatements
    /\ \A f \in applied : {f} \X (1..Statements[f]) \subseteq schema

(* The file whose ALTER has run will never be recorded: each opening       *)
(* repeats it and fails.                                                   *)
Bricked ==
    \E f \in Files \ applied :
        /\ \E a \in Alters \intersect schema : a[1] = f
        /\ \A p \in Openers : ~(Migrating(p) /\ file[p] = f /\ \A a \in Alters :
                                  a[1] = f => stmt[p] > a[2])
=============================================================================
