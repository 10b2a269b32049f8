----------------------------- MODULE MCAccess ------------------------------
(* Who may use a small gateway: an instance of Access for TLC.             *)
EXTENDS Access, TLC

\* An account's bucket of two requests in a minute and a key's of one.
MCPerMin == [b \in Buckets |-> IF b = Account THEN 2 ELSE 1]

\* The theorems about the parts hold of their constants here.
ASSUME AccessAssumption == ConstantsOK /\ S!ConstantsOK /\ W!ConstantsOK /\ K!ConstantsOK

Symmetric == Permutations(Clients) \cup Permutations(Tokens) \cup Permutations(Passwords)
=============================================================================
