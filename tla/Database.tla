------------------------------ MODULE Database ------------------------------
(***************************************************************************)
(* The data layer as a whole.  The ledger in PostgreSQL, the one in memory *)
(* that stands in for it in development, and the starts that bring the     *)
(* schema up to date share no state in these models: a behaviour is one of *)
(* them at work, the others rest.                                          *)
(***************************************************************************)
EXTENDS Ledger

CONSTANTS MemoryUsers, MemoryOpenings, MemoryDeltas, MaxCorrections,   \* of the ledger in memory
          Instances, Knows, AutoMigrate, AllowPlain, NoOne, MaxCrashes   \* of the starts

VARIABLES part,
          funds, active, record, recovery, paid, corrections,
          core, schema, recorded, constraint, keys, lock, instance, crashes

memoryVars == <<funds, active, record, recovery, paid, corrections>>
schemaVars == <<core, schema, recorded, constraint, keys, lock, instance, crashes>>
allVars    == <<part, vars, memoryVars, schemaVars>>

M == INSTANCE MemoryLedger WITH
       Users <- MemoryUsers, Openings <- MemoryOpenings, Deltas <- MemoryDeltas,
       balance <- funds, enabled <- active, deposited <- paid

U == INSTANCE Startup

\* One part at work.
Bills    == part = "ledger" /\ UNCHANGED <<part, memoryVars, schemaVars>>
Develops == part = "memory" /\ UNCHANGED <<part, vars, schemaVars>>
Starts   == part = "start"  /\ UNCHANGED <<part, vars, memoryVars>>

\* A part at rest has a new database.
DatabaseInit == /\ part \in {"ledger", "memory", "start"}
                /\ Init /\ M!Init /\ U!Init
                /\ part = "start" \/ ~core

DatabaseNext == (Next /\ Bills) \/ (M!Next /\ Develops) \/ (U!Next /\ Starts)

DatabaseSpec == DatabaseInit /\ [][DatabaseNext]_allVars

-----------------------------------------------------------------------------
(* The properties of the parts; Ledger's have their own names.             *)

\* The variables of the parts have their types, and no cost is beyond its hold (the CHECK
\* on billing_reservations).
TypesOK == TypeOK /\ CostWithinHold /\ M!TypeOK /\ U!TypeOK

\* Every user's money is in the balance, withheld or charged, on both stores.
MoneyConserved == Conservation /\ M!Conservation

\* MemoryLedger: a recovery that reports success left nothing behind.
RecoverComplete == M!RecoverComplete

\* MemoryLedger: the same contract as in PostgreSQL.
MemoryImplementsWallet == M!ImplementsWallet

\* Startup: migrations are run once, in order, and before anybody serves on them, and no
\* key is left unencrypted.
SchemaKept == U!SchemaKept /\ U!NoPlainServed
=============================================================================
