------------------------------- MODULE Router -------------------------------
(***************************************************************************)
(* Hot replacement of the channels: the writes of the administration       *)
(* service, the reloads after them and by the timer (src/internal/admin/   *)
(* service.go, src/cmd/linapi/main.go), the router's snapshot and its      *)
(* breakers (src/internal/routing/router.go).  A reload lists the          *)
(* channels, stores the snapshot and renews the breakers in three steps;   *)
(* Select loads the snapshot and looks up the breakers in two.             *)
(***************************************************************************)
EXTENDS Naturals, FiniteSets

CONSTANTS Channels,
          Admins,       \* handlers of the administration that run at a time
          Timer,        \* the goroutine of startChannelReload, none of Admins
          Requests,
          MaxWrites,    \* bound: writes of the administration
          MaxFailures,  \* bound: reloads that cannot read the table
          MaxTicks,     \* bound: ticks that find the router current
          MaxTrips      \* bound: breakers that open

Reloaders == Admins \cup {Timer}

VARIABLES db,        \* the channels table
          snapshot,  \* Router.snap: what the table held when it was listed
          breakers,  \* Router.breakers: the breaker of a channel, 0 without one
          tripped,   \* the breakers that are not ready
          reload,    \* where each reload stands
          request,   \* what each request's Select has
          made,      \* history: breakers made for a channel so far
          drops,     \* history: breakers removed with their channels
          writes, failures, ticks

vars == <<db, snapshot, breakers, tripped, reload, request, made, drops, writes, failures, ticks>>

Rows == {"absent", "disabled", "enabled"}
Idle == [at |-> "idle"]

Listed(list) == { c \in Channels : list[c] # "absent" }

Serves(list) == { c \in Channels : list[c] = "enabled" }

\* The process starts with the channels that are on.
Init == /\ db \in [Channels -> Rows]
        /\ snapshot = [c \in Channels |-> IF c \in Serves(db) THEN "enabled" ELSE "absent"]
        /\ breakers = [c \in Channels |-> IF c \in Serves(db) THEN 1 ELSE 0]
        /\ tripped = {}
        /\ reload = [p \in Reloaders |-> Idle] /\ request = [r \in Requests |-> Idle]
        /\ made = breakers /\ drops = [c \in Channels |-> 0]
        /\ writes = 0 /\ failures = 0 /\ ticks = 0

-----------------------------------------------------------------------------
(* The administration and the timer.                                       *)

Reloads(p, state) == reload' = [reload EXCEPT ![p] = state]

Routing == <<snapshot, breakers, tripped, request, made, drops>>

\* CreateChannel, SetChannelEnabled and DeleteChannel commit, then reload.
Write(p, c, row) ==
  /\ p \in Admins /\ reload[p] = Idle /\ writes < MaxWrites
  /\ row # db[c]
  /\ db' = [db EXCEPT ![c] = row]
  /\ Reloads(p, [at |-> "list"])
  /\ writes' = writes + 1
  /\ UNCHANGED <<Routing, failures, ticks>>

\* The timer's turn; ticks that change nothing are bounded.
Tick ==
  /\ reload[Timer] = Idle
  /\ Serves(snapshot) = Serves(db) => ticks < MaxTicks
  /\ Reloads(Timer, [at |-> "list"])
  /\ ticks' = IF Serves(snapshot) = Serves(db) THEN ticks + 1 ELSE ticks
  /\ UNCHANGED <<db, Routing, writes, failures>>

\* ReloadChannels reads the whole table.
ListChannels(p) ==
  /\ reload[p].at = "list"
  /\ Reloads(p, [at |-> "store", list |-> db])
  /\ UNCHANGED <<db, Routing, writes, failures, ticks>>

\* The table cannot be read, or a channel in it is refused by the policy: only logged.
ReloadFails(p) ==
  /\ reload[p].at = "list" /\ failures < MaxFailures
  /\ Reloads(p, Idle)
  /\ failures' = failures + 1
  /\ UNCHANGED <<db, Routing, writes, ticks>>

\* Mutant: a list of the same channels is taken for the same list.
StoreSnapshotChanged(p) ==
  /\ reload[p].at = "store"
  /\ snapshot' = IF Listed(reload[p].list) = Listed(snapshot) THEN snapshot ELSE reload[p].list
  /\ Reloads(p, [reload[p] EXCEPT !.at = "sync"])
  /\ UNCHANGED <<db, breakers, tripped, request, made, drops, writes, failures, ticks>>

\* UpdateChannels, first half: requests see the new snapshot at once.
StoreSnapshot(p) ==
  /\ reload[p].at = "store"
  /\ snapshot' = reload[p].list
  /\ Reloads(p, [reload[p] EXCEPT !.at = "sync"])
  /\ UNCHANGED <<db, breakers, tripped, request, made, drops, writes, failures, ticks>>

\* Mutant: only channels that are on keep their breakers.
KeptEnabled(list) == { c \in Listed(list) : breakers[c] # 0 /\ list[c] = "enabled" }

\* The channels of a list whose breakers stay, with their state.
Kept(list) == { c \in Listed(list) : breakers[c] # 0 }

\* The rest of a list gets new breakers.
Made(list) == [c \in Channels |-> IF c \in Listed(list) \ Kept(list) THEN made[c] + 1 ELSE made[c]]

\* UpdateChannels, second half, under the mutex.
SyncBreakers(p) ==
  LET list == reload[p].list IN
  /\ reload[p].at = "sync"
  /\ made' = Made(list)
  /\ breakers' = [c \in Channels |-> CASE c \in Kept(list)    -> breakers[c]
                                       [] c \notin Listed(list) -> 0
                                       [] OTHER -> made'[c]]
  /\ drops' = [c \in Channels |-> IF c \notin Listed(list) /\ breakers[c] # 0 THEN drops[c] + 1
                                 ELSE drops[c]]
  /\ Reloads(p, Idle)
  /\ UNCHANGED <<db, snapshot, tripped, request, writes, failures, ticks>>

-----------------------------------------------------------------------------
(* Requests.                                                               *)

Table == <<db, snapshot, reload, drops, writes, failures, ticks>>

\* Select loads the snapshot: the channels that serve the model and are on.
LoadSnapshot(r) ==
  /\ request[r] = Idle
  /\ request' = [request EXCEPT ![r] =
                   IF Serves(snapshot) = {} THEN Idle ELSE [at |-> "loaded", matched |-> Serves(snapshot)]]
  /\ UNCHANGED <<Table, breakers, tripped, made>>

\* Mutant: a breaker made for want of one is not kept for the next request.
KeepsBreaker(matched, c) == breakers[c]

\* The breaker of a channel after Select; a missing one is made.
BreakerFor(matched, c) ==
  IF c \in matched /\ breakers[c] = 0 THEN made[c] + 1 ELSE breakers[c]

\* Mutant: nothing left to try is handed out as well.
SelectedAny(ready) == [at |-> "selected", candidates |-> ready]

\* ErrNoChannel when no breaker is ready.
Selected(ready) == IF ready = {} THEN Idle ELSE [at |-> "selected", candidates |-> ready]

\* Select under the mutex: every matched channel with a breaker that is ready.
Select(r) ==
  LET matched == request[r].matched
      missing == { c \in matched : breakers[c] = 0 }
      after   == [c \in Channels |-> IF c \in missing THEN made[c] + 1 ELSE breakers[c]]
      ready   == { <<c, after[c]>> : c \in matched } \ tripped
  IN /\ request[r].at = "loaded"
     /\ breakers' = [c \in Channels |-> BreakerFor(matched, c)]
     /\ made' = [c \in Channels |-> IF c \in missing THEN made[c] + 1 ELSE made[c]]
     /\ request' = [request EXCEPT ![r] = Selected(ready)]
     /\ UNCHANGED <<Table, tripped>>

\* The forwarder is done; a channel that failed has opened the breaker the request holds.
Report(r) ==
  /\ request[r].at = "selected"
  /\ \/ UNCHANGED tripped
     \/ /\ Cardinality(tripped) < MaxTrips
        /\ \E b \in request[r].candidates : tripped' = tripped \cup {b}
  /\ request' = [request EXCEPT ![r] = Idle]
  /\ UNCHANGED <<Table, breakers, made>>

Reload(p) == ListChannels(p) \/ ReloadFails(p) \/ StoreSnapshot(p) \/ SyncBreakers(p)

Next == \/ \E p \in Admins, c \in Channels, row \in Rows : Write(p, c, row)
        \/ Tick
        \/ \E p \in Reloaders : Reload(p)
        \/ \E r \in Requests : LoadSnapshot(r) \/ Select(r) \/ Report(r)

Spec == Init /\ [][Next]_vars

\* The timer ticks for ever, and a reload that has begun goes on.
FairSpec == Spec /\ WF_vars(Tick) /\ \A p \in Reloaders : WF_vars(Reload(p))

-----------------------------------------------------------------------------
(* Properties.                                                             *)

\* All variables have their types, and no channel has more breakers than were made for it.
TypeOK ==
  /\ db \in [Channels -> Rows] /\ snapshot \in [Channels -> Rows]
  /\ made \in [Channels -> Nat] /\ drops \in [Channels -> Nat]
  /\ \A c \in Channels : breakers[c] \in 0 .. made[c]
  /\ \A r \in Requests : request[r].at = "selected" => request[r].candidates # {}

\* A channel gets a new breaker, and forgets what the old one knew, only when a list that
\* left it out was installed in between, however reloads and requests interleave (router.go:71-82,
\* 125-130): requests that run at the same time share one.
BreakerSurvives ==
  \A c \in Channels : made[c] = drops[c] + IF breakers[c] = 0 THEN 0 ELSE 1

\* All live candidates of a channel that was never left out are the breaker in the map.
CandidatesShare ==
  \A r \in Requests : request[r].at = "selected" =>
    \A b \in request[r].candidates : drops[b[1]] = 0 => breakers[b[1]] = b[2]

\* Whatever order the reloads finished in, the timer brings the router back to the
\* table (service.go:144-145).
Converges == <>[](Serves(snapshot) = Serves(db))

\* Hot replacement, whatever interleaves, neither resets nor splits the breaker of a
\* channel that stays (router.go:55-82, 110-130).
BreakersKept == BreakerSurvives /\ CandidatesShare
=============================================================================
