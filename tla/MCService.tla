----------------------------- MODULE MCService -----------------------------
(* A small service under fairness, for TLC.                                *)
EXTENDS Service

CONSTANTS i1, i2   \* the two instances

\* The theorems about Lifecycle hold of its constants here.
ASSUME LifecycleAssumption == I!ConstantsOK

\* The fairness of Gateway or of Lifecycle: as the part never changes, each condition is one
\* of the part at work.
MCFairness ==
  /\ \A q \in Requests :
       /\ WF_allVars((Serve(q) /\ Requesting) \/ (I!Main(i1) /\ Living))
       /\ WF_allVars((Age(q) /\ Requesting) \/ (I!Main(i2) /\ Living))
       /\ WF_allVars(\/ (\E reply \in L!Replies : RecoverConsumed(q, reply) \/ RecoverStale(q, reply)) /\ Requesting
                     \/ (\E h \in Holds : I!Over(h) /\ I!Age(h)) /\ Living)
       /\ SF_allVars((RecoverConsumed(q, "ok") /\ Requesting) \/ (I!List(i1, "ok") /\ Living))
       /\ SF_allVars((RecoverStale(q, "ok") /\ Requesting) \/ (I!List(i2, "ok") /\ Living))
  /\ WF_allVars(\/ Scan /\ Requesting
                \/ (\E h \in Holds, reply \in L!Replies : I!Recover(i1, h, reply)) /\ Living)
  /\ WF_allVars(\/ RecoverEnds /\ Requesting
                \/ (\E h \in Holds, reply \in L!Replies : I!Recover(i2, h, reply)) /\ Living)
  /\ SF_allVars((\E i \in Instances, h \in Holds : I!Recover(i, h, "ok")) /\ Living)

MCSpec == ServiceSpec /\ MCFairness
=============================================================================
