----------------------------- MODULE Selection ------------------------------
(***************************************************************************)
(* The order in which Select offers channels: orderCandidates and          *)
(* weightedShuffle in src/internal/routing/select.go.  Groups of equal     *)
(* priority follow one another, highest first; within a group a random     *)
(* point in the sum of the weights picks each next channel.                *)
(***************************************************************************)
EXTENDS Integers, Sequences, SequencesExt

CONSTANTS Channels,
          Priorities,  \* integers
          Weights      \* what a channel may be weighed with; configuration allows any integer

\* What the proofs ask of the constants.
ConstantsOK == IsFiniteSet(Channels) /\ Priorities \subseteq Int /\ Weights \subseteq Int

VARIABLES channels,  \* the channels that match, with their priorities and weights
          groups,    \* priorities still to come
          pool,      \* the rest of the group that is being shuffled
          out        \* the candidates so far

vars == <<channels, groups, pool, out>>

Channel == [id : Channels, priority : Priorities, weight : Weights]

Matched == { channels[i] : i \in DOMAIN channels }

Init == /\ channels \in UNION { [1 .. n -> Channel] : n \in 0 .. Cardinality(Channels) }
        /\ IsInjective([i \in DOMAIN channels |-> channels[i].id])
        /\ groups = { c.priority : c \in Matched }
        /\ pool = <<>> /\ out = <<>>

\* Mutant: the priorities are sorted upwards.
FirstPriorityLowest(ps) == Min(ps)

\* The priorities are sorted downwards.
FirstPriority(ps) == Max(ps)

\* byPriority: the channels of one priority, each appended to those before it.
Group(cs, p) ==
  LET g[k \in 0 .. Len(cs)] ==
        IF k = 0 THEN <<>> ELSE IF cs[k].priority = p THEN Append(g[k - 1], cs[k]) ELSE g[k - 1]
  IN g[Len(cs)]

\* The group of the highest priority that is left.
NextGroup ==
  /\ pool = <<>> /\ groups # {}
  /\ LET p == FirstPriority(groups) IN
     /\ pool' = Group(channels, p)
     /\ groups' = groups \ {p}
  /\ UNCHANGED <<channels, out>>

\* A weight that is not positive counts as one.
Weight(c) == IF c.weight <= 0 THEN 1 ELSE c.weight

\* acc: the sum of the weights of the first k of a pool, for every k.
Accumulated(cs) ==
  LET acc[k \in 0 .. Len(cs)] == IF k = 0 THEN 0 ELSE acc[k - 1] + Weight(cs[k])
  IN acc

\* Mutant: the point may lie on the end of an interval.
PickAtMost(cs, r) == CHOOSE i \in DOMAIN cs :
  r <= Accumulated(cs)[i] /\ \A j \in 1 .. i - 1 : r > Accumulated(cs)[j]

\* The first channel whose interval ends beyond the point r.
Pick(cs, r) == CHOOSE i \in DOMAIN cs :
  r < Accumulated(cs)[i] /\ \A j \in 1 .. i - 1 : r >= Accumulated(cs)[j]

\* Mutant: the last one is dropped instead of moved.
SwapRemoveLast(cs, i) == Front(cs)

\* The last one takes the place of the one that is removed.
SwapRemove(cs, i) == Front([cs EXCEPT ![i] = Last(cs)])

Draw == /\ pool # <<>>
        /\ \E r \in 0 .. Accumulated(pool)[Len(pool)] - 1 :
             LET i == Pick(pool, r) IN
             /\ out' = Append(out, pool[i])
             /\ pool' = SwapRemove(pool, i)
        /\ UNCHANGED <<channels, groups>>

Next == NextGroup \/ Draw

Spec == Init /\ [][Next]_vars

-----------------------------------------------------------------------------
(* Properties.                                                             *)

\* The variables have their types.
TypeOK ==
  /\ groups \subseteq Priorities
  /\ pool \in Seq(Channel) /\ out \in Seq(Channel)

\* How often a channel stands in a sequence.
Copies(s, c) == Cardinality({ i \in DOMAIN s : s[i] = c })

\* At every moment each channel is at one place: still to come, in the pool or offered;
\* swapping and shortening the pool loses none and doubles none (select.go:48-52).
EachOnce ==
  \A c \in Matched :
    (IF c.priority \in groups THEN 1 ELSE 0) + Copies(pool, c) + Copies(out, c) = 1

\* No channel is offered before one of higher priority (select.go:70-80).
PriorityFirst ==
  \A i, j \in DOMAIN out : i < j => out[i].priority >= out[j].priority

\* The chance of each channel of the pool is exactly its share of the weights, for
\* weights of zero as for others (select.go:27-46).
ExactShare ==
  \A i \in DOMAIN pool :
    Cardinality({ r \in 0 .. Accumulated(pool)[Len(pool)] - 1 : Pick(pool, r) = i }) = Weight(pool[i])

\* The order that failover follows: every channel once, by priority, and within a
\* priority by the shares of the weights (select.go:11-80).
OfferedInOrder == EachOnce /\ PriorityFirst /\ ExactShare
=============================================================================
