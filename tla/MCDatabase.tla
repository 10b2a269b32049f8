---------------------------- MODULE MCDatabase -----------------------------
(* The data layer of a small gateway: an instance of Database for TLC.     *)
EXTENDS Database, TLC

CONSTANTS old1, old2, new, edited   \* instances

MCDeltas == {-2, 1}

MCMemoryDeltas == {-1}

\* Two instances of one version, one of which does not migrate, one of the next version,
\* and one that rewrote a migration.
MCKnows ==
  [i \in {old1, old2, new, edited} |->
     CASE i = new    -> (1 :> "a" @@ 2 :> "b" @@ 3 :> "c")
       [] i = edited -> (1 :> "a" @@ 2 :> "x")
       [] OTHER      -> (1 :> "a")]

\* The theorems about the parts hold of their constants here.
ASSUME DatabaseAssumption == M!ConstantsOK /\ U!ConstantsOK

Symmetric == Permutations(Ids) \cup Permutations(Channels) \cup Permutations(Users)
=============================================================================
