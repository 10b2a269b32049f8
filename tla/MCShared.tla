----------------------------- MODULE MCShared -----------------------------
(* What several requests share, and what one of them is charged: requests  *)
(* that meet in the channels of one gateway, and the money arithmetic of a *)
(* request.  The two share no state in these models: a behaviour is one of *)
(* them at work, the other rests.                                          *)
EXTENDS Gateway, Pricing, TLC

CONSTANTS u1, q1, q2, c1, c2   \* a user, requests, channels

VARIABLES part

allVars == <<part, pricingVars, vars>>

\* The theorems about Pricing hold of its constants here.
ASSUME PricingAssumption == ConstantsOK

\* A part at rest has one policy, or no requests under way.
MCInit == /\ part \in {"requests", "price"}
          /\ L!Init
          /\ breaker = [ch \in Channels |-> B!NewBreaker]
          /\ request = [q \in Requests |-> IF part = "requests" THEN NewRequest
                                           ELSE [NewRequest EXCEPT !.at = "done"]]
          /\ cancelled = {}
          /\ generated = [q \in Requests |-> {}]
          /\ worker = Idle
          /\ crashes = 0
          /\ IF part = "price" THEN TRUE
             ELSE policy = [input |-> 0, output |-> 0, creation |-> 0, read |-> 0, maxInput |-> 1, maxOutput |-> 1]
          /\ PricingInit

MCNext == \/ part = "requests" /\ Next        /\ UNCHANGED <<part, pricingVars>>
          \/ part = "price"    /\ PricingNext /\ UNCHANGED <<part, vars>>

MCSpec == MCInit /\ [][MCNext]_allVars

PermuteBoth == Permutations(Requests) \cup Permutations(Channels)
=============================================================================
