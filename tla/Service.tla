------------------------------ MODULE Service ------------------------------
(***************************************************************************)
(* The service as a whole: a request on its way through one instance, and  *)
(* instances that come and go.  The two share no state in these models: a  *)
(* behaviour is one of them at work, the other rests.                      *)
(***************************************************************************)
EXTENDS Gateway

CONSTANTS Instances, Holds, User, Channel, NoInstance, Backlog,
          MaxStops, MaxDeaths   \* MaxDeaths is Lifecycle's MaxCrashes

VARIABLES part,
          accounts, versions, allowed, holds, ledger, logs, deposits,
          process, handler, sent, stops, deaths

lifeVars == <<accounts, versions, allowed, holds, ledger, logs, deposits, process, handler, sent, stops, deaths>>
allVars  == <<part, vars, lifeVars>>

I == INSTANCE Lifecycle WITH
       MaxCrashes <- MaxDeaths,
       balance <- accounts, version <- versions, enabled <- allowed, row <- holds,
       entries <- ledger, usage <- logs, deposited <- deposits, crashes <- deaths

\* One part at work.
Requesting == part = "request"   /\ UNCHANGED <<part, lifeVars>>
Living     == part = "instances" /\ UNCHANGED <<part, vars>>

\* A request at rest is over.
ServiceInit ==
  /\ part \in {"request", "instances"}
  /\ L!Init /\ I!Init
  /\ breaker = [ch \in Channels |-> B!NewBreaker]
  /\ request = [q \in Requests |-> IF part = "request" THEN NewRequest ELSE [NewRequest EXCEPT !.at = "done"]]
  /\ cancelled = {}
  /\ generated = [q \in Requests |-> {}]
  /\ worker = Idle
  /\ crashes = 0

ServiceNext == (Next /\ Requesting) \/ (I!Next /\ Living)

\* Without fairness, of which the properties of safety have no need.
ServiceSpec == ServiceInit /\ [][ServiceNext]_allVars

-----------------------------------------------------------------------------
(* The properties of Lifecycle; Gateway's have their own names.            *)

\* The variables have their types.
TypesOK == TypeOK /\ I!TypeOK

\* Lifecycle: what starts, stops and recoveries of several instances leave alone.
InstancesSound == I!InstancesSound

\* Lifecycle: instances come back into service and clean up, where they are the part at work.
StartsAndStops == part = "instances" => I!StartsAndStops
=============================================================================
