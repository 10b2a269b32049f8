------------------------------- MODULE Limits -------------------------------
(***************************************************************************)
(* The request limits of /v1: token buckets in Redis, first the account's, *)
(* then the key's (src/internal/middleware/ratelimit.go).  A bucket is     *)
(* refilled when it is asked, and forgotten when nobody asked for long;    *)
(* the limiter lets a request pass when Redis fails.                       *)
(*                                                                         *)
(* Amounts are in parts of a token: a token is Minute parts, so that a     *)
(* bucket for n requests a minute gains n parts with each tick.            *)
(***************************************************************************)
EXTENDS Integers, Sequences

CONSTANTS Account, Keys,
          Minute,   \* ticks in a minute: 60 seconds in the code
          PerMin,   \* the capacity of each bucket
          Clients,
          MaxTime,  \* bound: ticks
          MaxGrants \* bound: requests granted by a bucket

Buckets == {Account} \cup Keys

\* What the proofs ask of the constants: limits are positive, as a limit that is not
\* positive is no limit (ratelimit.go:87-90, 117-120).
ConstantsOK == /\ Minute \in Nat \ {0} /\ PerMin \in [Buckets -> Nat \ {0}]
               /\ MaxTime \in Nat

VARIABLES bucket,  \* the hash of each bucket: tokens, ts, and the time the key expires
          now,     \* the clock of Redis
          client,  \* the request each client is in
          grants,  \* history: times at which a bucket granted a request
          told     \* history: the bucket that refused last and its retry_after, until the clock moves or another is asked

vars == <<bucket, now, client, grants, told>>

None == [bucket |-> Account, retry |-> 0]
Idle == [at |-> "idle"]
Full(b) == PerMin[b] * Minute

Init == /\ bucket = [b \in Buckets |-> [tokens |-> 0, ts |-> 0, expires |-> 0]]
        /\ now = 0
        /\ client = [c \in Clients |-> Idle]
        /\ grants = [b \in Buckets |-> <<>>]
        /\ told = None

-----------------------------------------------------------------------------
(* tokenBucketScript.                                                      *)

AtMost(n, most) == IF n < most THEN n ELSE most

\* Mutant: an idle bucket goes on filling.
RefilledOver(b, t) ==
  IF bucket[b].expires <= t THEN Full(b)
  ELSE bucket[b].tokens + (t - bucket[b].ts) * PerMin[b]

\* What is in a bucket at a time: all of it after it was forgotten.
Refilled(b, t) ==
  IF bucket[b].expires <= t THEN Full(b)
  ELSE AtMost(bucket[b].tokens + (t - bucket[b].ts) * PerMin[b], Full(b))

\* Mutant: rounded down.
RetryAfterDown(b, tokens) == (Minute - tokens) \div PerMin[b]

\* Ticks until there is a token again, rounded up.
RetryAfter(b, tokens) == (Minute - tokens + PerMin[b] - 1) \div PerMin[b]

\* Mutant: a bucket is forgotten before it is full again.
TtlShort(b) == (Full(b) \div PerMin[b]) \div 2

\* Twice the time an empty bucket takes to fill.
Ttl(b) == 2 * ((Full(b) + PerMin[b] - 1) \div PerMin[b])

\* The script: TRUE if the request is allowed.
Ask(b, allowed) ==
  LET tokens == Refilled(b, now) IN
  /\ allowed = (tokens >= Minute)
  /\ bucket' = [bucket EXCEPT ![b] = [tokens  |-> IF allowed THEN tokens - Minute ELSE tokens,
                                      ts      |-> now,
                                      expires |-> now + Ttl(b)]]
  /\ grants' = [grants EXCEPT ![b] = IF allowed THEN Append(@, now) ELSE @]
  /\ told' = IF allowed THEN None ELSE [bucket |-> b, retry |-> RetryAfter(b, tokens)]

-----------------------------------------------------------------------------
(* The middlewares.                                                        *)

Moves(c, state) == client' = [client EXCEPT ![c] = state]

\* AccountMiddleware: on to the key's bucket, 429, or past this one because Redis fails.
AccountMiddleware(c, key) ==
  /\ client[c] = Idle /\ Len(grants[Account]) < MaxGrants
  /\ \/ Ask(Account, TRUE) /\ Moves(c, [at |-> "key", key |-> key])
     \/ Ask(Account, FALSE) /\ Moves(c, Idle)
     \/ Moves(c, [at |-> "key", key |-> key]) /\ UNCHANGED <<bucket, grants, told>>
  /\ UNCHANGED now

\* Middleware, for the key: the request leaves the limits, served or not.  An account's
\* token is not given back when the key has none.
Middleware(c) ==
  LET b == client[c].key IN
  /\ client[c].at = "key" /\ Len(grants[b]) < MaxGrants
  /\ \/ \E allowed \in BOOLEAN : Ask(b, allowed)
     \/ UNCHANGED <<bucket, grants, told>>
  /\ Moves(c, Idle)
  /\ UNCHANGED now

Tick == /\ now < MaxTime
        /\ now' = now + 1
        /\ told' = None
        /\ UNCHANGED <<bucket, client, grants>>

Next == \/ \E c \in Clients : Middleware(c) \/ \E k \in Keys : AccountMiddleware(c, k)
        \/ Tick

Spec == Init /\ [][Next]_vars

-----------------------------------------------------------------------------
(* Properties.                                                             *)

\* The variables have their types; a bucket never holds less than nothing or more than
\* its capacity (ratelimit.go:48-54).
TypeOK ==
  /\ \A b \in Buckets : bucket[b].tokens \in 0 .. Full(b) /\ bucket[b].ts \in 0 .. now
  /\ now \in 0 .. MaxTime
  /\ client \in [Clients -> {Idle} \cup [at : {"key"}, key : Keys]]

\* In any span of time a bucket grants at most what it can hold and what the span refills,
\* however requests interleave and whenever an idle bucket is forgotten (ratelimit.go:38-66);
\* for the account's bucket that bounds all its keys together.
RateHeld ==
  \A b \in Buckets : \A i, j \in DOMAIN grants[b] :
    i <= j => (j - i + 1) * Minute <= Full(b) + (grants[b][j] - grants[b][i]) * PerMin[b]

\* Who waits as long as Retry-After says finds a token, if nobody takes it meanwhile
\* (ratelimit.go:51-53).
RetryHonest ==
  told # None => Refilled(told.bucket, now + told.retry) >= Minute

\* The limit is no laxer than promised, and what a refused client is told no stricter.
LimitsHonest == RateHeld /\ RetryHonest
=============================================================================
