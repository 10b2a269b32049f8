----------------------------- MODULE Lifecycle ------------------------------
(***************************************************************************)
(* Several instances of the gateway over one ledger: they start, recover   *)
(* what is unfinished, serve, are told to stop, break down and are started *)
(* again by a supervisor (main and startBillingRecovery in                 *)
(* src/cmd/linapi/main.go, PostgresLedger.Recover).                        *)
(*                                                                         *)
(* A start fails on every error of its Recover; the worker that runs every *)
(* 30 seconds afterwards only logs.  Of a request only its calls to the    *)
(* ledger matter here (module Gateway has the rest).                       *)
(***************************************************************************)
EXTENDS Integers, FiniteSets

CONSTANTS Instances, Holds, User, Channel, NoUser, NoChannel, NoInstance,
          Backlog,     \* a hold, or none, whose consumption was recorded, and no more, before
          MaxStops,    \* bound: signals to stop and servers that fail
          MaxCrashes   \* bound: deaths without warning

\* What earlier instances left belongs to holds, of which there are finitely many.
ConstantsOK == /\ IsFiniteSet(Holds) /\ Backlog \subseteq Holds /\ NoInstance \notin Instances
               /\ User # NoUser /\ Channel # NoChannel

VARIABLES balance, version, enabled, row, entries, usage, deposited,   \* the database
          process,     \* [Instances -> Process]
          handler,     \* [Holds -> Handler]: the request a hold belongs to
          sent,        \* history: holds whose request may have reached the model
          stops, crashes

L == INSTANCE Ledger WITH
       Users <- {User}, Ids <- Holds, Channels <- {Channel}, Openings <- {2 * Cardinality(Holds)},
       Amounts <- {2}, Costs <- {1}, Deltas <- {}, MaxVersion <- 0

database == <<balance, version, enabled, row, entries, usage, deposited>>
vars     == <<database, process, handler, sent, stops, crashes>>

\* found is what the Recover of the start listed; clean, that the last stop was an orderly one.
Process == [at : {"down", "starting", "recovering", "serving", "draining", "closing"},
            finalize : SUBSET Holds, refund : SUBSET Holds, found : SUBSET Holds,
            failed : BOOLEAN, clean : BOOLEAN]

\* troubled: some call of the request was not answered with "ok".
Handler == [by : Instances \cup {NoInstance}, troubled : BOOLEAN,
            at : {"none", "held", "marked", "release", "answered", "settle", "refund", "done", "dead"}]

Down       == [at |-> "down", finalize |-> {}, refund |-> {}, found |-> {}, failed |-> FALSE, clean |-> FALSE]
NewHandler == [by |-> NoInstance, troubled |-> FALSE, at |-> "none"]

\* The ledger as earlier instances left it.
LedgerInit ==
  /\ balance = [u \in {User} |-> 2 * Cardinality(Holds \ Backlog)]
  /\ version = [u \in {User} |-> Cardinality(Backlog)]
  /\ enabled = [u \in {User} |-> TRUE]
  /\ row = [h \in Holds |-> IF h \in Backlog
              THEN [status |-> "consumed_unsettled", user |-> User, amount |-> 2,
                    channel |-> Channel, cost |-> 1, stale |-> FALSE]
              ELSE L!AbsentRow]
  /\ entries = {[id |-> h, kind |-> "reserve", user |-> User, amount |-> -2,
                 after |-> 2 * Cardinality(Holds \ Backlog), version |-> 1] : h \in Backlog}
  /\ usage = {}
  /\ deposited = [u \in {User} |-> 2 * Cardinality(Holds)]

Init == /\ LedgerInit
        /\ process = [i \in Instances |-> Down]
        /\ handler = [h \in Holds |-> IF h \in Backlog THEN [NewHandler EXCEPT !.at = "dead"] ELSE NewHandler]
        /\ sent = Backlog /\ stops = 0 /\ crashes = 0

-----------------------------------------------------------------------------
(* Start and recovery.                                                     *)

ProcessOnly == UNCHANGED <<database, handler, sent, stops, crashes>>

\* The supervisor starts an instance that is not running.
Boot(i) ==
  /\ process[i].at = "down"
  /\ process' = [process EXCEPT ![i] = [Down EXCEPT !.at = "starting"]]
  /\ ProcessOnly

Idle(i) == process[i].finalize = {} /\ process[i].refund = {}

\* The first transaction of Recover, of the start or of the worker; a start dies of its failure.
List(i, reply) ==
  /\ process[i].at = "starting" \/ (process[i].at \in {"serving", "draining"} /\ Idle(i))
  /\ \/ /\ reply = "ok"
        /\ process' = [process EXCEPT ![i] =
             IF process[i].at = "starting"
             THEN [@ EXCEPT !.finalize = L!ConsumedUnsettled, !.refund = L!StaleReserved, !.at = "recovering",
                            !.found = L!ConsumedUnsettled \cup L!StaleReserved]
             ELSE [@ EXCEPT !.finalize = L!ConsumedUnsettled, !.refund = L!StaleReserved, !.found = {}]]
     \/ /\ reply = "error" /\ process[i].at = "starting"
        /\ process' = [process EXCEPT ![i] = Down]
  /\ ProcessOnly

\* One row after the other, each in a transaction of its own; others may have got there first.
Recover(i, h, reply) ==
  /\ process[i].at \in {"recovering", "serving", "draining"}
  /\ \/ /\ h \in process[i].finalize
        /\ L!Finalize(h, reply)
     \/ /\ process[i].finalize = {} /\ h \in process[i].refund
        /\ L!Refund(h, reply)
  /\ LET p == process[i] IN
     process' = [process EXCEPT
       ![i].finalize = p.finalize \ {h},
       ![i].refund = IF p.finalize = {} THEN p.refund \ {h} ELSE p.refund,
       ![i].failed = p.failed \/ (p.at = "recovering" /\ reply # "ok")]
  /\ UNCHANGED <<handler, sent, stops, crashes>>

\* Mutant: a failed recovery is only logged, like the worker's.
StartEndsAnyway(i) ==
  /\ process[i].at = "recovering" /\ Idle(i)
  /\ process' = [process EXCEPT ![i] = [Down EXCEPT !.at = "serving", !.found = process[i].found]]
  /\ ProcessOnly

\* Mutant: holds whose outcome nobody knows end the process as well.
StartEndsStrict(i) ==
  /\ process[i].at = "recovering" /\ Idle(i)
  /\ process' = [process EXCEPT ![i] =
       IF process[i].failed \/ L!StaleInFlight # {} THEN Down
       ELSE [Down EXCEPT !.at = "serving", !.found = process[i].found]]
  /\ ProcessOnly

\* Recover returns: an error other than ErrAmbiguousReservations ends the process (log.Fatalf).
StartEnds(i) ==
  /\ process[i].at = "recovering" /\ Idle(i)
  /\ process' = [process EXCEPT ![i] =
       IF process[i].failed THEN Down ELSE [Down EXCEPT !.at = "serving", !.found = process[i].found]]
  /\ ProcessOnly

-----------------------------------------------------------------------------
(* The end of a process.                                                   *)

OwnHandlers(i) == {h \in Holds : handler[h].by = i}

Over(h) == handler[h].at \in {"done", "dead"}

\* SIGTERM, or the server fails and main returns at once.
Signal(i) ==
  /\ process[i].at = "serving" /\ stops < MaxStops
  /\ \E next \in {"draining", "closing"} : process' = [process EXCEPT ![i].at = next]
  /\ stops' = stops + 1
  /\ UNCHANGED <<database, handler, sent, crashes>>

\* Mutant: the connections are closed without waiting for the requests.
DrainedAtOnce(i) ==
  /\ process[i].at = "draining"
  /\ process' = [process EXCEPT ![i] = [Down EXCEPT !.at = "closing", !.clean = TRUE]]
  /\ ProcessOnly

\* Shutdown returns when no request is left; the deferred calls stop the worker.
Drained(i) ==
  /\ process[i].at = "draining" /\ \A h \in OwnHandlers(i) : Over(h)
  /\ process' = [process EXCEPT ![i] = [Down EXCEPT !.at = "closing", !.clean = TRUE]]
  /\ ProcessOnly

\* Shutdown gives up after 30 seconds.
Overdue(i) ==
  /\ process[i].at = "draining"
  /\ process' = [process EXCEPT ![i] = [Down EXCEPT !.at = "closing"]]
  /\ ProcessOnly

Dies(i) == handler' = [h \in Holds |-> IF handler[h].by = i /\ ~Over(h)
                                       THEN [handler[h] EXCEPT !.at = "dead"] ELSE handler[h]]

\* pool.Close has waited for the transactions that run; main returns.
Exit(i) ==
  /\ process[i].at = "closing"
  /\ process' = [process EXCEPT ![i].at = "down"]
  /\ Dies(i)
  /\ UNCHANGED <<database, sent, stops, crashes>>

Crash(i) ==
  /\ process[i].at # "down" /\ crashes < MaxCrashes
  /\ process' = [process EXCEPT ![i] = Down]
  /\ crashes' = crashes + 1
  /\ Dies(i)
  /\ UNCHANGED <<database, sent, stops>>

-----------------------------------------------------------------------------
(* The calls of a request.                                                 *)

\* Handlers go on while main waits, and until it returns.
Runs(h) == handler[h].by # NoInstance /\ process[handler[h].by].at \in {"serving", "draining", "closing"}

Proceeds(h, place, reply) ==
  handler' = [handler EXCEPT ![h].at = place, ![h].troubled = @ \/ reply # "ok"]

Accept(i, h, reply) ==
  /\ process[i].at = "serving" /\ handler[h].at = "none"
  /\ L!Reserve(h, User, 2, reply)
  /\ handler' = [handler EXCEPT ![h] = [by |-> i, troubled |-> reply # "ok",
                                        at |-> IF reply = "ok" THEN "held" ELSE "done"]]
  /\ UNCHANGED <<process, sent, stops, crashes>>

\* The next candidate, or none is left: the deferred refund.
Mark(h, reply) ==
  /\ Runs(h) /\ handler[h].at = "held"
  /\ L!MarkInFlight(h, Channel, reply)
  /\ Proceeds(h, IF reply = "ok" THEN "marked" ELSE "release", reply)
  /\ UNCHANGED <<process, sent, stops, crashes>>

GiveUp(h) ==
  /\ Runs(h) /\ handler[h].at = "held"
  /\ Proceeds(h, "refund", "ok")
  /\ UNCHANGED <<database, process, sent, stops, crashes>>

\* A 2xx, a rejection that proves nothing was consumed, or no answer: then the hold is kept.
Send(h) ==
  /\ Runs(h) /\ handler[h].at = "marked"
  /\ \/ Proceeds(h, "answered", "ok") /\ sent' = sent \cup {h}
     \/ Proceeds(h, "release", "ok")  /\ UNCHANGED sent
     \/ Proceeds(h, "done", "ok")     /\ sent' = sent \cup {h}
  /\ UNCHANGED <<database, process, stops, crashes>>

Release(h, reply) ==
  /\ Runs(h) /\ handler[h].at = "release"
  /\ L!ReleaseAttempt(h, reply)
  /\ IF reply = "ok" THEN \E place \in {"held", "refund"} : Proceeds(h, place, reply)
     ELSE Proceeds(h, "done", reply)
  /\ UNCHANGED <<process, sent, stops, crashes>>

\* Up to three times.
Record(h, reply) ==
  /\ Runs(h) /\ handler[h].at = "answered"
  /\ L!RecordConsumption(h, Channel, 1, reply)
  /\ IF reply = "ok" THEN Proceeds(h, "settle", reply)
     ELSE \E place \in {"answered", "done"} : Proceeds(h, place, reply)
  /\ UNCHANGED <<process, sent, stops, crashes>>

Finish(h, reply) ==
  /\ Runs(h)
  /\ \/ handler[h].at = "settle" /\ L!Finalize(h, reply)
     \/ handler[h].at = "refund" /\ L!Refund(h, reply)
  /\ Proceeds(h, "done", reply)
  /\ UNCHANGED <<process, sent, stops, crashes>>

Step(h, reply) == Mark(h, reply) \/ Release(h, reply) \/ Record(h, reply) \/ Finish(h, reply)

\* The row outlives its threshold; a request that stalls may still be running.
Age(h) ==
  /\ L!GrowStale(h)
  /\ UNCHANGED <<process, handler, sent, stops, crashes>>

-----------------------------------------------------------------------------
Next ==
  \/ \E i \in Instances :
       \/ Boot(i) \/ StartEnds(i) \/ Signal(i) \/ Drained(i) \/ Overdue(i) \/ Exit(i) \/ Crash(i)
       \/ \E reply \in L!Replies : \/ List(i, reply)
                                   \/ \E h \in Holds : Recover(i, h, reply) \/ Accept(i, h, reply)
  \/ \E h \in Holds : \/ GiveUp(h) \/ Send(h) \/ Age(h)
                      \/ \E reply \in L!Replies : Step(h, reply)

Spec == Init /\ [][Next]_vars

\* What main comes to by itself.
Main(i) == Boot(i) \/ StartEnds(i) \/ Overdue(i) \/ Exit(i)

\* The supervisor starts what is down, main goes through its steps, 30 seconds and the
\* thresholds pass, and a database that is asked again and again commits.  Requests owe nothing.
Fairness ==
  /\ \A i \in Instances : /\ WF_vars(Main(i)) /\ SF_vars(List(i, "ok"))
                          /\ WF_vars(\E h \in Holds, reply \in L!Replies : Recover(i, h, reply))
  /\ SF_vars(\E i \in Instances, h \in Holds : Recover(i, h, "ok"))
  /\ WF_vars(\E h \in Holds : Over(h) /\ Age(h))

FairSpec == Spec /\ Fairness

-----------------------------------------------------------------------------
(* Correctness.                                                            *)

TypeOK == /\ L!TypeOK
          /\ process \in [Instances -> Process]
          /\ handler \in [Holds -> Handler]
          /\ sent \subseteq Holds

\* SentIsNotRefunded: whichever instance starts, recovers, stops or dies, and however long a
\* request stalls, a hold whose request may have reached the model is never given back
\* (Recover of one instance against MarkInFlight of another).
SentIsNotRefunded == \A h \in sent : row[h].status \in {"in_flight", "consumed_unsettled", "settled"}

\* CleanStop: when an instance that stops in order closes its connections, none of its
\* requests is half done: what the database answered is settled, given back, or kept because
\* the model may have run (Shutdown before the deferred calls of main).
CleanStop ==
  \A i \in Instances : process[i].at = "closing" /\ process[i].clean =>
    \A h \in OwnHandlers(i) :
      handler[h].at # "dead" /\ ~handler[h].troubled =>
        row[h].status \in {"settled", "refunded"} \/ (row[h].status = "in_flight" /\ h \in sent)

\* RecoveredBeforeServing: an instance takes requests only after everything its start found
\* unfinished is finished, by whomever (bill.Recover before srv.Start).
RecoveredBeforeServing ==
  \A i \in Instances : process[i].at = "serving" =>
    \A h \in process[i].found : row[h].status \in {"settled", "refunded"}

\* InstancesSound: the three together.
InstancesSound == SentIsNotRefunded /\ CleanStop /\ RecoveredBeforeServing

\* StartsAndStops: although a start dies of any error, and of losing a row to another
\* instance, and although requests may keep a stop waiting, every instance is back in service
\* in the end, and what dead and stopped ones left unfinished is settled or given back.
StartsAndStops ==
  <>[](/\ \A i \in Instances : process[i].at = "serving"
       /\ \A h \in Holds : Over(h) => row[h].status \in {"absent", "in_flight", "settled", "refunded"})
=============================================================================
