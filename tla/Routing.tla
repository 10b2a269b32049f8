------------------------------ MODULE Routing ------------------------------
(***************************************************************************)
(* The routing of a gateway: the breaker of one channel, the hot           *)
(* replacement of the channels, their order and the policies they pass.    *)
(* They share no state in these models: a behaviour is one of them at      *)
(* work, the others rest.                                                  *)
(***************************************************************************)
EXTENDS Breaker

CONSTANTS Admins, MaxWrites,                                              \* Router and ChannelAdmin
          Channels, Timer, Requests, MaxFailures, MaxTicks, MaxTrips,     \* Router
          Offered, Priorities, Weights,                                   \* Selection; Offered are its Channels
          Administered, Targets, Models, Configs, MaxRestarts             \* ChannelAdmin, its Channels first

VARIABLES part,
          rows, snapshot, breakers, tripped, reload, request, made, drops, writes, failures, ticks,
          channels, groups, pool, out,
          table, config, running, routes, admin, puts, restarts

breakerVars == <<breaker, permit>>
routerVars  == <<rows, snapshot, breakers, tripped, reload, request, made, drops, writes, failures, ticks>>
orderVars   == <<channels, groups, pool, out>>
policyVars  == <<table, config, running, routes, admin, puts, restarts>>
allVars     == <<part, breakerVars, routerVars, orderVars, policyVars>>

R == INSTANCE Router WITH db <- rows

S == INSTANCE Selection WITH Channels <- Offered

A == INSTANCE ChannelAdmin WITH
       Channels <- Administered, db <- table, snapshot <- routes, writes <- puts

-----------------------------------------------------------------------------
(* One part at work.                                                       *)

Breaks == part = "breaker" /\ UNCHANGED <<part, routerVars, orderVars, policyVars>>
Routes == part = "router"  /\ UNCHANGED <<part, breakerVars, orderVars, policyVars>>
Orders == part = "order"   /\ UNCHANGED <<part, breakerVars, routerVars, policyVars>>
Admits == part = "policy"  /\ UNCHANGED <<part, breakerVars, routerVars, orderVars>>

\* A part at rest has no channels.
RoutingInit ==
  /\ part \in {"breaker", "router", "order", "policy"}
  /\ Init
  /\ IF part = "router" THEN TRUE ELSE rows = [c \in Channels |-> "absent"]
  /\ R!Init
  /\ IF part = "order" THEN TRUE ELSE channels = <<>>
  /\ S!Init
  /\ IF part = "policy" THEN TRUE
     ELSE table = [c \in Administered |-> A!Absent] /\ config = CHOOSE conf \in Configs : TRUE
  /\ A!Init

RoutingNext == \/ Next /\ Breaks
               \/ R!Next /\ Routes
               \/ S!Next /\ Orders
               \/ A!Next /\ Admits

RoutingFairness ==
  /\ WF_allVars(Cool /\ Breaks)
  /\ \A c \in Callers : WF_allVars(~permit[c].resolved /\ (\E result \in Results : Resolve(c, result)) /\ Breaks)
  /\ WF_allVars(R!Tick /\ Routes) /\ \A p \in Admins \cup {Timer} : WF_allVars(R!Reload(p) /\ Routes)
  /\ WF_allVars(A!TimerReload /\ Admits) /\ \A p \in Admins : WF_allVars(A!Handler(p) /\ Admits)

RoutingSpec == RoutingInit /\ [][RoutingNext]_allVars /\ RoutingFairness

-----------------------------------------------------------------------------
(* The properties of the parts; Breaker's have their own names.            *)

\* The variables of the parts have their types.
TypesOK == TypeOK /\ R!TypeOK /\ S!TypeOK /\ A!TypeOK

\* Breaker and Router: a half-open breaker counts the probes that run, and a breaker goes
\* on, and is shared, as long as its channel is in the lists.
BreakersKept == ProbeAccounting /\ R!BreakersKept

\* Selection: every channel once, by priority and by exact shares.
OfferedInOrder == S!OfferedInOrder

\* ChannelAdmin and Router: the router has what the table has and the configuration
\* accepts, and the timer brings it there.
RoutesFollow == A!RoutesFollow /\ R!Converges

\* ChannelAdmin: a reload that failed is made up for in the end (violated).
RefusalsPass == A!Converges
=============================================================================
