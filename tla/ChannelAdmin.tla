---------------------------- MODULE ChannelAdmin ----------------------------
(***************************************************************************)
(* The policies that a channel must pass (src/internal/admin/service.go    *)
(* with the validator of src/cmd/linapi/main.go): the upstream target must *)
(* be allowed, and an enabled OpenAI channel needs output limits.  They    *)
(* are checked before a write, for the whole table before a reload, and    *)
(* for the enabled channels at a start, which may bring another            *)
(* configuration.  How a reload reaches the router is in module Router;    *)
(* here it is one step.                                                    *)
(***************************************************************************)
EXTENDS Naturals

CONSTANTS Channels, Admins,
          Targets,      \* base URLs
          Models,       \* upstream models
          Configs,      \* configurations, each [targets : SUBSET Targets, models : SUBSET Models]:
                        \* the targets allowed, the models with limits
          MaxWrites,    \* bound: writes to the table
          MaxRestarts   \* bound: starts of the process

VARIABLES db,        \* the channels table
          config,    \* the configuration the process runs with
          running,   \* FALSE when the last start was refused
          snapshot,  \* the channels of the router
          admin,     \* where each handler stands
          writes, restarts

vars == <<db, config, running, snapshot, admin, writes, restarts>>

Absent == [on |-> FALSE, target |-> "none", model |-> "none"]
Row == [on : BOOLEAN, target : Targets, model : Models]

Idle == [at |-> "idle"]

Listed(table) == { c \in Channels : table[c] # Absent }

\* The part of a table that requests are routed by.
Serves(table) == [c \in Channels |-> IF table[c].on THEN table[c] ELSE Absent]

-----------------------------------------------------------------------------
(* The policies.                                                           *)

\* UpstreamTargetPolicy.ValidateChannel.
TargetAllowed(row) == row.target \in config.targets

\* OpenAIOutputLimitResolver.ValidateChannel passes over what is off.
LimitKnown(row) == row.on => row.model \in config.models

\* The validator of the administration service.
Accepted(row) == TargetAllowed(row) /\ LimitKnown(row)

AllAccepted(table) == \A c \in Listed(table) : Accepted(table[c])

\* Before a start only the enabled channels are loaded and checked.
StartAccepted(table, conf) ==
  \A c \in Channels : table[c].on => table[c].target \in conf.targets /\ table[c].model \in conf.models

Init == /\ config \in Configs
        /\ db \in [Channels -> Row \cup {Absent}]
        /\ StartAccepted(db, config)
        /\ running = TRUE /\ snapshot = Serves(db)
        /\ admin = [p \in Admins |-> Idle]
        /\ writes = 0 /\ restarts = 0

-----------------------------------------------------------------------------
(* The handlers.                                                           *)

Moves(p, state) == admin' = [admin EXCEPT ![p] = state]

\* A row is stored and the handler goes on to reload.
Store(p, c, row) ==
  /\ db' = [db EXCEPT ![c] = row]
  /\ Moves(p, [at |-> "reload"])
  /\ writes' = writes + 1
  /\ UNCHANGED <<config, running, snapshot, restarts>>

\* Mutant: requests are served although the start was refused.
CanWriteAlways(p) == admin[p] = Idle /\ writes < MaxWrites

CanWrite(p) == running /\ admin[p] = Idle /\ writes < MaxWrites

\* CreateChannel and UpdateChannel: the input is checked as a whole.
Put(p, c, row) ==
  /\ CanWrite(p) /\ Accepted(row)
  /\ Store(p, c, row)

\* SetChannelEnabled(true) first checks the channel as it would be.
CheckEnable(p, c) ==
  /\ CanWrite(p) /\ c \in Listed(db)
  /\ Accepted([db[c] EXCEPT !.on = TRUE])
  /\ Moves(p, [at |-> "checked", channel |-> c])
  /\ UNCHANGED <<db, config, running, snapshot, writes, restarts>>

\* The row, as it is by now, is switched on; 404 when it is gone.
Enable(p) ==
  LET c == admin[p].channel IN
  /\ admin[p].at = "checked"
  /\ IF c \in Listed(db) THEN Store(p, c, [db[c] EXCEPT !.on = TRUE])
     ELSE Moves(p, Idle) /\ UNCHANGED <<db, config, running, snapshot, writes, restarts>>

\* Off and away need no check.
Disable(p, c) == /\ CanWrite(p) /\ c \in Listed(db)
                 /\ Store(p, c, [db[c] EXCEPT !.on = FALSE])

Delete(p, c) == /\ CanWrite(p) /\ c \in Listed(db)
                /\ Store(p, c, Absent)

\* Mutant: a list that fails is installed as far as it goes.
ReplacedAnyway == Serves(db)

\* Mutant: the channels found are put in, those gone are not taken out.
ReplacedMerged == [c \in Channels |-> IF AllAccepted(db) /\ c \in Listed(db) THEN Serves(db)[c] ELSE snapshot[c]]

\* ReloadChannels: all or nothing; a refusal is only logged.
Replaced == IF AllAccepted(db) THEN Serves(db) ELSE snapshot

ReloadAfterWrite(p) ==
  /\ admin[p].at = "reload"
  /\ snapshot' = Replaced
  /\ Moves(p, Idle)
  /\ UNCHANGED <<db, config, running, writes, restarts>>

\* startChannelReload.
TimerReload ==
  /\ running
  /\ snapshot' = Replaced
  /\ UNCHANGED <<db, config, running, admin, writes, restarts>>

\* Mutant: the channels are loaded before they are checked, and kept.
StartsUnchecked(conf) == TRUE

Starts(conf) == StartAccepted(db, conf)

\* The process ends and is started again, perhaps configured anew; a channel that is
\* refused is fatal.
Restart(conf) ==
  /\ restarts < MaxRestarts
  /\ config' = conf
  /\ running' = Starts(conf)
  /\ snapshot' = IF Starts(conf) THEN Serves(db) ELSE [c \in Channels |-> Absent]
  /\ admin' = [p \in Admins |-> Idle]
  /\ restarts' = restarts + 1
  /\ UNCHANGED <<db, writes>>

Handler(p) == Enable(p) \/ ReloadAfterWrite(p)

Next == \/ \E p \in Admins, c \in Channels :
             (\E row \in Row : Put(p, c, row)) \/ CheckEnable(p, c) \/ Disable(p, c) \/ Delete(p, c)
        \/ \E p \in Admins : Handler(p)
        \/ TimerReload
        \/ \E conf \in Configs : Restart(conf)

Spec == Init /\ [][Next]_vars

\* Handlers end, and the timer goes on ticking.
FairSpec == Spec /\ WF_vars(TimerReload) /\ \A p \in Admins : WF_vars(Handler(p))

-----------------------------------------------------------------------------
(* Properties.                                                             *)

\* The variables have their types.
TypeOK ==
  /\ db \in [Channels -> Row \cup {Absent}] /\ snapshot \in [Channels -> Row \cup {Absent}]
  /\ config \in Configs /\ running \in BOOLEAN
  /\ \A p \in Admins : ~running => admin[p] = Idle

\* Whatever is written and however handlers interleave, the router never has a channel that
\* the running configuration refuses (service.go:53-56, main.go:130-142).
RoutesAccepted == \A c \in Channels : snapshot[c].on => Accepted(snapshot[c])

\* Once the table has nothing to refuse, the timer brings the router to it.
ConvergesWhenAccepted ==
  <>[](running /\ AllAccepted(db)) => <>[](snapshot = Serves(db))

\* As docs/architecture.md:132 has it, a reload that failed is made up for by the timer in
\* the end (violated).
Converges == <>[](running => snapshot = Serves(db))

\* The router follows the table as far as the configuration allows: never beyond it, and
\* in the end up to it.
RoutesFollow == []RoutesAccepted /\ ConvergesWhenAccepted
=============================================================================
