------------------------------ MODULE Accounts ------------------------------
(***************************************************************************)
(* The accounts that may log in and the billing users behind them: self-   *)
(* service registration, the console's and the administration's creation,  *)
(* the first administrator that every start of an instance provides, and   *)
(* the store, in PostgreSQL or in memory (src/internal/account).  A        *)
(* statement that would add a name another transaction has added waits for *)
(* the end of that transaction.                                            *)
(***************************************************************************)
EXTENDS Naturals, FiniteSets, Functions

CONSTANTS Names, Passwords,
          BootName,     \* admin.bootstrap.username
          Clients,      \* handlers, and instances that start
          BcryptSlots,  \* runtime.NumCPU()
          Balances,     \* what an administrator may grant
          MaxVersion    \* bound: changes of an account

\* A process serves finitely many requests and has a processor.
ConstantsOK == IsFiniteSet(Clients) /\ BootName \in Names /\ BcryptSlots \in Nat \ {0} /\ MaxVersion \in Nat

VARIABLES backend,   \* the store this process was started with
          users,     \* the billing users: the balance they were given and who made them
          accounts,  \* the accounts, and who made them
          settings,  \* registration_enabled and new_user_initial_balance
          bcrypt,    \* slots taken of the bcrypt semaphore
          client     \* the request each client is in

vars == <<backend, users, accounts, settings, bcrypt, client>>

Origins == {"register", "console", "billing", "bootstrap"}
Idle    == [at |-> "idle"]
Moves(c, state) == client' = [client EXCEPT ![c] = state]

\* Rows of a transaction that has not ended are in its client.
AddsUser(c, n)    == client[c].at \in {"inserted", "ready"} /\ client[c].name = n
AddsAccount(c, n) == client[c].at = "ready" /\ client[c].name = n

\* A balance for new users may be left from a version that still had one.
Init == /\ backend \in {"postgres", "memory"}
        /\ users = <<>> /\ accounts = <<>>
        /\ settings \in [open : BOOLEAN, grant : Balances]
        /\ bcrypt = 0
        /\ client = [c \in Clients |-> Idle]

-----------------------------------------------------------------------------
(* The requests, up to the store.                                          *)

Request(name, role, by, password, balance) ==
  [at |-> "creating", name |-> name, role |-> role, by |-> by, password |-> password, balance |-> balance]

\* Mutant: the setting is granted to everyone who registers.
RegistrationGrant(grant) == grant

\* A registration is given nothing, whatever the settings say.
RegistrationBalance(grant) == 0

\* register: the settings are read, then a slot is taken, or 503.
register(c, name, password) ==
  /\ client[c] = Idle /\ settings.open /\ bcrypt < BcryptSlots
  /\ bcrypt' = bcrypt + 1
  /\ Moves(c, [at |-> "hashing",
               next |-> Request(name, "user", "register", password, RegistrationBalance(settings.grant))])
  /\ UNCHANGED <<backend, users, accounts, settings>>

\* login compares one password with a hash, that of a stranger if there is no such account.
login(c) ==
  /\ client[c] = Idle /\ bcrypt < BcryptSlots
  /\ bcrypt' = bcrypt + 1
  /\ Moves(c, [at |-> "hashing", next |-> Idle])
  /\ UNCHANGED <<backend, users, accounts, settings>>

\* Mutant: a password that is refused keeps the slot.
HashedLeaks(c) ==
  /\ client[c].at = "hashing"
  /\ \/ Moves(c, client[c].next) /\ bcrypt' = bcrypt - 1
     \/ Moves(c, Idle) /\ UNCHANGED bcrypt
  /\ UNCHANGED <<backend, users, accounts, settings>>

\* The slot is given back, and the password is accepted or the request ends.
Hashed(c) ==
  /\ client[c].at = "hashing"
  /\ Moves(c, client[c].next) \/ Moves(c, Idle)
  /\ bcrypt' = bcrypt - 1
  /\ UNCHANGED <<backend, users, accounts, settings>>

\* The console hashes without a slot.
createAccount(c, name, password) ==
  /\ client[c] = Idle
  /\ \/ \E balance \in Balances : Moves(c, Request(name, "user", "console", password, balance))
     \/ Moves(c, Request(name, "admin", "console", password, 0))
  /\ UNCHANGED <<backend, users, accounts, settings, bcrypt>>

\* A start looks for the account and goes on if there is none, or if it could not look.
bootstrapAdmin(c, password) ==
  /\ client[c] = Idle
  /\ Moves(c, Request(BootName, "admin", "bootstrap", password, 0))
  /\ UNCHANGED <<backend, users, accounts, settings, bcrypt>>

-----------------------------------------------------------------------------
(* The store.                                                              *)

WithUser(name, balance, by) ==
  [n \in DOMAIN users \cup {name} |-> IF n = name THEN [opening |-> balance, by |-> by] ELSE users[n]]

WithAccount(request) ==
  [n \in DOMAIN accounts \cup {request.name} |->
     IF n = request.name
     THEN [role |-> request.role, by |-> request.by, password |-> request.password, version |-> 0, enabled |-> TRUE]
     ELSE accounts[n]]

\* Mutant: a user that exists is taken for the account.
UserConflictAdopted(name) == FALSE

\* users.external_id is unique.
UserConflict(name) == name \in DOMAIN users

\* Mutant: the account replaces the one that exists.
AccountConflictReplaced(name) == FALSE

\* accounts.username is unique.
AccountConflict(name) == name \in DOMAIN accounts

\* CreateUserAccount, the user's row.
InsertUser(c) ==
  /\ backend = "postgres" /\ client[c].at = "creating" /\ client[c].role = "user"
  /\ \A d \in Clients \ {c} : ~AddsUser(d, client[c].name)
  /\ IF UserConflict(client[c].name) THEN Moves(c, Idle) ELSE Moves(c, [client[c] EXCEPT !.at = "inserted"])
  /\ UNCHANGED <<backend, users, accounts, settings, bcrypt>>

\* Mutant: the user's row is committed by itself.
InsertAccountApart(c) ==
  /\ client[c].at = "inserted"
  /\ \A d \in Clients \ {c} : ~AddsAccount(d, client[c].name)
  /\ users' = WithUser(client[c].name, client[c].balance, client[c].by)
  /\ IF AccountConflict(client[c].name) THEN Moves(c, Idle) ELSE Moves(c, [client[c] EXCEPT !.at = "ready"])
  /\ UNCHANGED <<backend, accounts, settings, bcrypt>>

\* CreateUserAccount, the account's row; a conflict takes the user's back.
InsertAccount(c) ==
  /\ client[c].at = "inserted"
  /\ \A d \in Clients \ {c} : ~AddsAccount(d, client[c].name)
  /\ IF AccountConflict(client[c].name) THEN Moves(c, Idle) ELSE Moves(c, [client[c] EXCEPT !.at = "ready"])
  /\ UNCHANGED <<backend, users, accounts, settings, bcrypt>>

\* Both rows appear, or neither: the transaction fails, or its client dies.
EndTransaction(c) ==
  /\ \/ /\ client[c].at = "ready"
        /\ users' = WithUser(client[c].name, client[c].balance, client[c].by)
        /\ accounts' = WithAccount(client[c])
     \/ client[c].at \in {"inserted", "ready"} /\ UNCHANGED <<users, accounts>>
  /\ Moves(c, Idle)
  /\ UNCHANGED <<backend, settings, bcrypt>>

\* CreateAccount, in either store: one row, of an administrator.
CreateAccount(c) ==
  /\ client[c].at = "creating" /\ client[c].role = "admin"
  /\ \A d \in Clients : ~AddsAccount(d, client[c].name)
  /\ accounts' = IF AccountConflict(client[c].name) THEN accounts ELSE WithAccount(client[c])
  /\ Moves(c, Idle)
  /\ UNCHANGED <<backend, users, settings, bcrypt>>

\* CreateUserAccount in memory, under the mutex.
CreateUserAccount(c) ==
  LET free == ~AccountConflict(client[c].name) /\ ~UserConflict(client[c].name) IN
  /\ backend = "memory" /\ client[c].at = "creating" /\ client[c].role = "user"
  /\ users' = IF free THEN WithUser(client[c].name, client[c].balance, client[c].by) ELSE users
  /\ accounts' = IF free THEN WithAccount(client[c]) ELSE accounts
  /\ Moves(c, Idle)
  /\ UNCHANGED <<backend, settings, bcrypt>>

-----------------------------------------------------------------------------
(* The administration, in single statements.                               *)

\* A billing user without an account.
createUser(name, balance) ==
  /\ \A c \in Clients : ~AddsUser(c, name)
  /\ ~UserConflict(name)
  /\ users' = WithUser(name, balance, "billing")
  /\ UNCHANGED <<accounts, settings>>

\* SetAccountEnabled and UpdateAccountPassword.
ChangeAccount(name) ==
  /\ accounts[name].version < MaxVersion
  /\ \/ \E on \in BOOLEAN :
          accounts' = [accounts EXCEPT ![name].enabled = on, ![name].version = IF on THEN @ ELSE @ + 1]
     \/ \E password \in Passwords :
          accounts' = [accounts EXCEPT ![name].password = password, ![name].version = @ + 1]
  /\ UNCHANGED <<users, settings>>

\* putSettings refuses a balance for new users.
putSettings(open) == /\ settings' = [open |-> open, grant |-> 0]
                     /\ UNCHANGED <<users, accounts>>

Administrate ==
  /\ \/ \E n \in Names, balance \in Balances : createUser(n, balance)
     \/ \E n \in DOMAIN accounts : ChangeAccount(n)
     \/ \E open \in BOOLEAN : putSettings(open)
  /\ UNCHANGED <<backend, bcrypt, client>>

ClientStep(c) ==
  \/ \E n \in Names, p \in Passwords : register(c, n, p) \/ createAccount(c, n, p)
  \/ login(c) \/ Hashed(c)
  \/ \E p \in Passwords : bootstrapAdmin(c, p)
  \/ InsertUser(c) \/ InsertAccount(c) \/ EndTransaction(c)
  \/ CreateAccount(c) \/ CreateUserAccount(c)

Next == Administrate \/ \E c \in Clients : ClientStep(c)

Spec == Init /\ [][Next]_vars

-----------------------------------------------------------------------------
(* Properties.                                                             *)

\* The tables have their types, and the role decides who made an account
\* (accounts_role_external_id_check, db/schema.sql:187-190).
TypeOK ==
  /\ DOMAIN users \subseteq Names
  /\ \A n \in DOMAIN users : users[n] \in [opening : Balances \cup {0}, by : Origins]
  /\ DOMAIN accounts \subseteq Names
  /\ \A n \in DOMAIN accounts :
       /\ accounts[n] \in [role : {"user", "admin"}, by : Origins, password : Passwords,
                           version : 0 .. MaxVersion, enabled : BOOLEAN]
       /\ accounts[n].by = "bootstrap" => accounts[n].role = "admin"
       /\ accounts[n].by = "register" => accounts[n].role = "user"

\* A user's account and its billing user are made together or not at all: nobody who
\* registers comes by a user that was there before, and no user is left without the
\* account it was made for (account/postgres.go:43-71, account.go:67-68).
MadeTogether ==
  /\ \A n \in DOMAIN accounts : accounts[n].role = "user" =>
       n \in DOMAIN users /\ users[n].by = accounts[n].by
  /\ \A n \in DOMAIN users : users[n].by # "billing" =>
       n \in DOMAIN accounts /\ accounts[n].role = "user"

\* Who registers starts without money, also where an old setting still promises some
\* (auth_handlers.go:134-137).
NoFreeCredit ==
  \A n \in DOMAIN users : users[n].by = "register" => users[n].opening = 0

\* The slots taken are the requests that hash or compare a password (auth_handlers.go:53-61).
BcryptReturns ==
  bcrypt = Cardinality({ c \in Clients : client[c].at = "hashing" }) /\ bcrypt <= BcryptSlots

\* Accounts stay, and a password changes only with a new generation of sessions: no start,
\* registration or creation resets one that exists (main.go:509-512, db/query.sql:212-215).
PasswordsKept ==
  \A n \in DOMAIN accounts :
    /\ n \in DOMAIN accounts'
    /\ accounts'[n].password # accounts[n].password => accounts'[n].version > accounts[n].version
AccountsKept == [][PasswordsKept]_vars

\* Accounts and users belong together, and nobody's password, money or slot is lost to
\* another request or start.
AccountsSound == [](MadeTogether /\ NoFreeCredit /\ BcryptReturns) /\ AccountsKept
=============================================================================
