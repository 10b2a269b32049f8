------------------------------ MODULE Startup -------------------------------
(***************************************************************************)
(* Instances that start on one database, perhaps of different versions:    *)
(* ApplySchema or VerifySchema (src/internal/db/pool.go), the encryption   *)
(* of old channel keys (src/internal/admin/channel_key_migration.go), the  *)
(* validation of their constraint, and service (buildDataLayer in          *)
(* src/cmd/linapi/main.go).  Instances of the time before migrations may   *)
(* still be running and store channel keys as they are.                    *)
(***************************************************************************)
EXTENDS Naturals, Sequences, Functions, FiniteSets

CONSTANTS Instances,
          Knows,        \* the migrations of each instance: version -> checksum
          AutoMigrate,  \* the instances with auto_migrate
          AllowPlain,   \* the instances with migrate_plaintext
          Channels,
          NoOne,        \* holds no lock
          MaxCrashes    \* bound: starts that die

VARIABLES core,        \* whether the core tables exist
          schema,      \* the migrations whose statements were run on them, in order
          recorded,    \* the table schema_migrations
          constraint,  \* the check that channel keys are encrypted
          keys,        \* the key stored for each channel
          lock,        \* the advisory lock of migrations
          instance,    \* where each start stands, and what it has read
          crashes

vars == <<core, schema, recorded, constraint, keys, lock, instance, crashes>>

Database == <<core, schema, recorded, constraint, keys>>

Down == [at |-> "down"]

Moves(i, state) == instance' = [instance EXCEPT ![i] = state]

Continues(i, at) == Moves(i, [instance[i] EXCEPT !.at = at])

\* A new database, or one of the time before migrations.
Init == /\ core \in BOOLEAN
        /\ keys \in [Channels -> IF core THEN {"absent", "plain"} ELSE {"absent"}]
        /\ schema = <<>> /\ recorded = <<>> /\ constraint = "none"
        /\ lock = NoOne
        /\ instance = [i \in Instances |-> Down]
        /\ crashes = 0

-----------------------------------------------------------------------------
(* ApplySchema, one transaction under the lock.                            *)

Applied == [recorded |-> recorded, core |-> core]

BeginTx(i) ==
  /\ i \in AutoMigrate /\ instance[i] = Down
  /\ Moves(i, [at |-> "waits", applied |-> Applied])
  /\ UNCHANGED <<Database, lock, crashes>>

\* Mutant: the transaction sees the database as it was when it began.
ReadAppliedOld(i) == instance[i].applied

\* readAppliedMigrations and the probe for users: the statement sees what is committed now.
ReadApplied(i) == Applied

\* Mutant: the lock is not waited for.
LockFreeAlways == TRUE

LockFree == lock = NoOne

Lock(i) ==
  /\ instance[i].at = "waits" /\ LockFree
  /\ lock' = i
  /\ Moves(i, [at |-> "locked", applied |-> ReadApplied(i)])
  /\ UNCHANGED <<Database, crashes>>

\* Mutant: only the versions are compared.
ValidVersions(applied, known) == DOMAIN applied \subseteq DOMAIN known

\* validateAppliedMigrations: nothing that is unknown, nothing that was rewritten.
Valid(applied, known) == \A v \in DOMAIN applied : v \in DOMAIN known /\ applied[v] = known[v]

\* Mutant: the latest first.
OrderedBack(known, versions) ==
  [n \in 1 .. Cardinality(versions) |->
     LET v == CHOOSE x \in versions : Cardinality({ y \in versions : y > x }) = n - 1
     IN <<v, known[v]>>]

\* In the order of their versions.
Ordered(known, versions) ==
  [n \in 1 .. Cardinality(versions) |->
     LET v == CHOOSE x \in versions : Cardinality({ y \in versions : y < x }) = n - 1
     IN <<v, known[v]>>]

\* A new database gets the schema with every migration in it, an old one those it lacks.
Commit(i) ==
  LET known   == Knows[i]
      applied == instance[i].applied.recorded
      missing == DOMAIN known \ DOMAIN applied
  IN /\ instance[i].at = "locked"
     /\ Valid(applied, known)
     /\ ~instance[i].applied.core => applied = <<>>
     /\ core' = TRUE
     /\ schema' = schema \o Ordered(known, missing)
     /\ recorded' = [v \in DOMAIN recorded \cup missing |->
                       IF v \in missing THEN known[v] ELSE recorded[v]]
     /\ constraint' = IF constraint = "none" THEN "unvalidated" ELSE constraint
     /\ lock' = NoOne
     /\ Continues(i, "keys")
     /\ UNCHANGED <<keys, crashes>>

\* VerifySchema: exactly the migrations of this instance, or no start.
VerifySchema(i) ==
  /\ i \notin AutoMigrate /\ instance[i] = Down
  /\ recorded # <<>> /\ Valid(recorded, Knows[i]) /\ DOMAIN recorded = DOMAIN Knows[i]
  /\ Moves(i, [at |-> "keys", applied |-> Applied])
  /\ UNCHANGED <<Database, lock, crashes>>

-----------------------------------------------------------------------------
(* Channel keys.                                                           *)

Plain == { c \in Channels : keys[c] = "plain" }

\* Mutant: old keys are left for the next start.
PlanLater(i) == {}

\* planChannelKeyMigration: the rows to encrypt.
Plan(i) == IF i \in AllowPlain THEN Plain ELSE {}

\* All rows are locked and read; old ones need the switch.
LockKeys(i) ==
  /\ instance[i].at = "keys"
  /\ \A j \in Instances : instance[j].at # "sealing"
  /\ Plain # {} => i \in AllowPlain
  /\ Moves(i, [at |-> "sealing", plan |-> Plan(i)])
  /\ UNCHANGED <<Database, lock, crashes>>

\* The constraint is validated by those that migrate.
CommitKeys(i) ==
  /\ instance[i].at = "sealing"
  /\ keys' = [c \in Channels |-> IF c \in instance[i].plan THEN "sealed" ELSE keys[c]]
  /\ Moves(i, [at |-> IF i \in AutoMigrate THEN "validate" ELSE "serving"])
  /\ UNCHANGED <<core, schema, recorded, constraint, lock, crashes>>

\* ValidateChannelKeyEnvelopeConstraint fails on a row that is not encrypted.
Validate(i) ==
  /\ instance[i].at = "validate" /\ Plain = {}
  /\ constraint' = "valid"
  /\ Continues(i, "serving")
  /\ UNCHANGED <<core, schema, recorded, keys, lock, crashes>>

\* The start is refused: by the migrations it finds, or by keys that are not encrypted.
Refused(i) ==
  \/ /\ instance[i].at = "locked"
     /\ ~Valid(instance[i].applied.recorded, Knows[i])
  \/ instance[i].at = "keys" /\ Plain # {} /\ i \notin AllowPlain
  \/ instance[i].at = "validate" /\ Plain # {}

\* Failed, out of time or killed.
Dies(i) == instance[i].at \notin {"down", "serving"} /\ crashes < MaxCrashes

\* The transaction is rolled back and the process ends.
Fail(i) ==
  /\ Refused(i) \/ Dies(i)
  /\ lock' = IF lock = i THEN NoOne ELSE lock
  /\ Moves(i, Down)
  /\ crashes' = IF Refused(i) THEN crashes ELSE crashes + 1
  /\ UNCHANGED Database

\* An instance that serves stores encrypted keys.  It waits for locked rows.
WriteKey(i, c) ==
  /\ instance[i].at = "serving" /\ \A j \in Instances : instance[j].at # "sealing"
  /\ keys' \in {[keys EXCEPT ![c] = "sealed"], [keys EXCEPT ![c] = "absent"]}
  /\ UNCHANGED <<core, schema, recorded, constraint, lock, instance, crashes>>

\* Mutant: the constraint, not being validated, is taken for none.
LegacyMayWriteUnvalidated == constraint # "valid"

\* The database takes a key that is not encrypted: also a constraint that is not yet
\* validated stands for new rows.
LegacyMayWrite == constraint = "none"

\* An old instance inserts a channel or changes a key; ApplySchema's ALTER TABLE waits for it.
LegacyWrite(c) ==
  /\ core /\ LegacyMayWrite
  /\ keys[c] = "absent" \/ \A j \in Instances : instance[j].at # "sealing"
  /\ keys' \in {[keys EXCEPT ![c] = "plain"], [keys EXCEPT ![c] = "absent"]}
  /\ UNCHANGED <<core, schema, recorded, constraint, lock, instance, crashes>>

Start(i) == BeginTx(i) \/ VerifySchema(i)

Goes(i) == Lock(i) \/ Commit(i) \/ LockKeys(i) \/ CommitKeys(i) \/ Validate(i)

Next == \/ \E i \in Instances : Start(i) \/ Goes(i) \/ Fail(i) \/ \E c \in Channels : WriteKey(i, c)
        \/ \E c \in Channels : LegacyWrite(c)

Spec == Init /\ [][Next]_vars

\* What the proofs ask of the constants: an instance knows finitely many migrations, and one that
\* knows all those of another, as they are, has only higher versions besides
\* (0001_legacy_upgrade.sql:2).  That a migration is never rewritten is not asked.
ConstantsOK ==
  /\ NoOne \notin Instances
  /\ \A i \in Instances : DOMAIN Knows[i] \in SUBSET Nat /\ IsFiniteSet(DOMAIN Knows[i])
  /\ \A i, j \in Instances : Valid(Knows[i], Knows[j]) =>
       \A v \in DOMAIN Knows[j] \ DOMAIN Knows[i], w \in DOMAIN Knows[i] : v > w

-----------------------------------------------------------------------------
(* Properties.                                                             *)

\* The variables have their types, and the lock is held by the one that is past it.
TypeOK ==
  /\ core \in BOOLEAN /\ keys \in [Channels -> {"absent", "plain", "sealed"}]
  /\ constraint \in {"none", "unvalidated", "valid"}
  /\ \A i \in Instances : lock = i <=> instance[i].at = "locked"

\* Every migration that was run was run once and is recorded with what was run, and nothing
\* else is recorded, however many instances start at once and die (pool.go:98-153).
MigratedOnce ==
  /\ Len(schema) = Cardinality(DOMAIN recorded)
  /\ \A n \in DOMAIN schema : schema[n][1] \in DOMAIN recorded /\ recorded[schema[n][1]] = schema[n][2]

\* Migrations are run in the order of their versions (pool.go:137-147, 235).
InOrder == \A m, n \in DOMAIN schema : m < n => schema[m][1] < schema[n][1]

\* An instance that serves has, now and later, every migration it knows, as it knows it
\* (pool.go:262-277).
ServesOnItsSchema ==
  \A i \in Instances : instance[i].at = "serving" =>
    \A v \in DOMAIN Knows[i] : v \in DOMAIN recorded /\ recorded[v] = Knows[i][v]

\* Once an instance serves no key is stored unencrypted, though instances of old may
\* write until the last moment (db/schema.sql:68-69, channel_key_migration.go:38-64).
NoPlainServed ==
  (\E i \in Instances : instance[i].at = "serving") => Plain = {}

\* The schema is the one that every instance in service was built for (pool.go:70-277).
SchemaKept == MigratedOnce /\ InOrder /\ ServesOnItsSchema
=============================================================================
